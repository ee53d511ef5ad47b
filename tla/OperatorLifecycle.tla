--------------------------- MODULE OperatorLifecycle ---------------------------
(***************************************************************************)
(* What the OperatorsRegistry promises those who read it, with none of its *)
(* timestamps, arrays or callers: an operator joins, counts from the next  *)
(* epoch on, stops counting in the very epoch it is paused in, and comes   *)
(* back or leaves in a later epoch only.                                   *)
(*                                                                         *)
(* This is what the code does.  The lifecycle in the contract's comments   *)
(* differs in two points: there an operator counts "immediately" after it  *)
(* registers, and "again" when it is unpaused (OperatorsRegistryV1.sol:93, *)
(* 97), where wasActiveAt is strict and it counts from the next epoch on;  *)
(* and a paused one waits for EPOCH_DURATION (136, 160, 230), where the    *)
(* pause is dated before its epoch and the wait ends with that epoch.      *)
(***************************************************************************)
EXTENDS Naturals

CONSTANT Signers

VARIABLES
    epoch,     \* the current epoch
    phase,     \* where each operator is in its life
    pausedIn   \* the epoch in which a paused operator was paused, else 0

lifecycleVars == <<epoch, phase, pausedIn>>

Phases == {"absent", "joining", "active", "paused"}

Init ==
    /\ epoch = 0
    /\ phase = [s \in Signers |-> "absent"]
    /\ pausedIn = [s \in Signers |-> 0]

Move(s, to, in) ==
    /\ phase' = [phase EXCEPT ![s] = to]
    /\ pausedIn' = [pausedIn EXCEPT ![s] = in]
    /\ epoch' = epoch

(* Paused in an epoch that is over.                                        *)
Released(s) == phase[s] = "paused" /\ pausedIn[s] < epoch

Join(s)   == phase[s] = "absent" /\ Move(s, "joining", 0)
Pause(s)  == phase[s] \in {"joining", "active"} /\ Move(s, "paused", epoch)
Return(s) == Released(s) /\ Move(s, "joining", 0)
Leave(s)  == Released(s) /\ Move(s, "absent", 0)

(* Those who joined in the epoch that ends are active in the next one; the *)
(* turn of the epoch changes nothing else.                                 *)
NextEpoch ==
    /\ epoch' = epoch + 1
    /\ phase' = [s \in Signers |->
                    IF phase[s] = "joining" THEN "active" ELSE phase[s]]
    /\ pausedIn' = pausedIn

OneWayNext == NextEpoch \/ \E s \in Signers : Join(s) \/ Pause(s) \/ Leave(s)

Next == OneWayNext \/ \E s \in Signers : Return(s)

Spec == Init /\ [][Next]_lifecycleVars

(* A registry whose operators never come back but by leaving first.        *)
OneWaySpec == Init /\ [][OneWayNext]_lifecycleVars
===============================================================================
