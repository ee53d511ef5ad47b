----------------------------- MODULE AtomicRegistry -----------------------------
(***************************************************************************)
(* What the registry's database promises, whatever fails: a sync appears   *)
(* in it at once, "This transaction atomically executes the following      *)
(* operations" (sync/mod.rs:153), and so does each call of the API.        *)
(***************************************************************************)
EXTENDS Integers

CONSTANTS Validators, Operators, NoRegistration, Epochs

VARIABLES
    registrations,   \* validator -> operator and writer
    operators,       \* the operators whose endpoints are known
    syncedEpochs     \* the epochs of the saved sync states

atomicVars == <<registrations, operators, syncedEpochs>>

Absent(vs) == \A v \in vs : registrations[v] = NoRegistration

Init ==
    /\ Absent(Validators)
    /\ operators = {}
    /\ syncedEpochs \in SUBSET Epochs

(* A sync saves its epoch, in place of at most one earlier one, together   *)
(* with new validators and operators.                                      *)
(* Nobody's registration is overwritten, and every validator it brings has *)
(* its operator there.                                                     *)
Sync ==
    /\ \E e \in Epochs :
         \/ syncedEpochs' = syncedEpochs \cup {e}
         \/ \E old \in syncedEpochs : syncedEpochs' = (syncedEpochs \ {old}) \cup {e}
    /\ operators' \in SUBSET Operators /\ operators \subseteq operators'
    /\ \A v \in Validators :
         registrations'[v] # registrations[v] =>
             /\ registrations[v] = NoRegistration
             /\ registrations'[v] \in [operator : operators', origin : {"sync"}]

(* A batch of the API, all of it or nothing.                               *)
Register ==
    /\ \E vs \in SUBSET Validators, o \in Operators :
         /\ Absent(vs)
         /\ registrations' = [v \in Validators |->
                IF v \in vs THEN [operator |-> o, origin |-> "api"] ELSE registrations[v]]
    /\ UNCHANGED <<operators, syncedEpochs>>

Deregister ==
    /\ \E vs \in SUBSET Validators :
         registrations' = [v \in Validators |->
                IF v \in vs THEN NoRegistration ELSE registrations[v]]
    /\ UNCHANGED <<operators, syncedEpochs>>

Next == Sync \/ Register \/ Deregister

Spec == Init /\ [][Next]_atomicVars
===============================================================================
