--------------------------- MODULE OperatorsRegistry ---------------------------
(***************************************************************************)
(* OperatorsRegistryV1: the on-chain registry of Bolt operators.           *)
(*                                                                         *)
(* A transaction that reverts changes nothing, so a revert is a disabled   *)
(* action.  A transaction is atomic: cleanup(), the only one with a loop   *)
(* over storage it mutates, takes one step per iteration, and every other  *)
(* action waits for sweep.running = FALSE.                                 *)
(*                                                                         *)
(* The contract reads time only through _now(), the timestamp at which the *)
(* current epoch started.                                                  *)
(***************************************************************************)
EXTENDS Integers, Sequences, FiniteSets, PauseableSet

CONSTANTS
    Signers,         \* addresses operators sign with, ZeroAddress among them
    ZeroAddress,
    Middlewares,     \* addresses of contracts and accounts that call the registry
    NoMiddleware,    \* address(0) in a middleware slot
    Rpcs,            \* RPC endpoints, EmptyRpc among them
    EmptyRpc,
    NoOperator,      \* the zero value of an entry of the operators mapping
    EPOCH_DURATION,
    START_TIMESTAMP,
    MaxTime          \* bound on the clock, for TLC

(* The deployment: a contract created at a real block time, with a positive *)
(* epoch.  Were START_TIMESTAMP 0 or 1, _now() - 1 could be 0 or below it,  *)
(* and a disabled time of 0 means "not disabled".                           *)
ASSUME TimeAssumption ==
    /\ EPOCH_DURATION \in Nat \ {0}
    /\ START_TIMESTAMP \in Nat /\ START_TIMESTAMP > 1
    /\ MaxTime \in Nat /\ MaxTime >= START_TIMESTAMP

ASSUME AddressAssumption ==
    /\ NoMiddleware \notin Middlewares
    /\ NoOperator \notin [rpcEndpoint : Rpcs, restakingMiddleware : Middlewares]

VARIABLES
    now,               \* block.timestamp
    operatorAddresses, \* _operatorAddresses, a PauseableSet
    operators,         \* mapping(address => Operator)
    middleware,        \* EIGENLAYER_ and SYMBIOTIC_RESTAKING_MIDDLEWARE
    sweep,             \* the loop of a running cleanup()
    pausedAt           \* history: block.timestamp of the signer's last pause

registryVars == <<operatorAddresses, operators, middleware, sweep, pausedAt>>
vars == <<now, registryVars>>

Protocols == {"EIGENLAYER", "SYMBIOTIC"}

Operator == [rpcEndpoint : Rpcs \ {EmptyRpc}, restakingMiddleware : Middlewares]

(* "expired" is history: what had expired when the sweep began.            *)
NoSweep == [running |-> FALSE, i |-> 0, expired |-> {}]

TypeOK ==
    /\ now \in Nat /\ now >= START_TIMESTAMP
    /\ operatorAddresses \in [order : Seq(Signers), status : [Signers -> Status]]
    /\ operators \in [Signers -> Operator \cup {NoOperator}]
    /\ middleware \in [Protocols -> Middlewares \cup {NoMiddleware}]
    /\ sweep \in [running : BOOLEAN, i : Nat, expired : SUBSET Signers]
    /\ pausedAt \in [Signers -> Nat]

-------------------------------------------------------------------------------
Epoch(t) == (t - START_TIMESTAMP) \div EPOCH_DURATION

EpochStart(t) == START_TIMESTAMP + Epoch(t) * EPOCH_DURATION

getCurrentEpochStartTimestamp == EpochStart(now)

Now == getCurrentEpochStartTimestamp

isOperator(s) == Contains(operatorAddresses, s)

isActiveOperator(s) == WasActiveAt(operatorAddresses, Now, s)

getActiveOperators == {s \in Signers : isActiveOperator(s)}

onlyMiddleware(sender) ==
    /\ sender # NoMiddleware
    /\ \E p \in Protocols : middleware[p] = sender

-------------------------------------------------------------------------------
(* Plausible bugs, one operator each; PROJECT.json pairs them with the     *)
(* property that finds them.                                               *)
Mut_PauseTime == Now

Mut_Expired(s) == IsPaused(operatorAddresses, s)

Mut_updateOperatorRpcEndpoint(sender, s, rpc) ==
    /\ ~sweep.running
    /\ onlyMiddleware(sender)
    /\ isOperator(s)
    /\ operators' = [operators EXCEPT ![s] = [@ EXCEPT !.rpcEndpoint = rpc]]
    /\ UNCHANGED <<now, operatorAddresses, middleware, sweep, pausedAt>>

Mut_deregisterOperator(sender, s) ==
    /\ ~sweep.running
    /\ onlyMiddleware(sender)
    /\ CanUnregister(operatorAddresses, Now - 1, EPOCH_DURATION, s)
    /\ operatorAddresses' = Unregister(operatorAddresses, s)
    /\ UNCHANGED <<now, operators, middleware, sweep, pausedAt>>

Mut_NextIndex(removed) ==
    IF removed THEN Len(operatorAddresses.order) ELSE sweep.i + 1

-------------------------------------------------------------------------------
(* What a pause records: the end of the previous epoch, so that the pause  *)
(* counts in the current one.                                              *)
PauseTime == Now - 1

Expired(s) == CanUnregister(operatorAddresses, Now, EPOCH_DURATION, s)

Init ==
    /\ now = START_TIMESTAMP
    /\ operatorAddresses = EmptySet(Signers)
    /\ operators = [s \in Signers |-> NoOperator]
    /\ middleware = [p \in Protocols |-> NoMiddleware]
    /\ sweep = NoSweep
    /\ pausedAt = [s \in Signers |-> 0]

registerOperator(sender, s, rpc) ==
    /\ ~sweep.running
    /\ onlyMiddleware(sender)
    /\ rpc # EmptyRpc
    /\ s # ZeroAddress
    /\ CanRegister(operatorAddresses, s)
    /\ operatorAddresses' = Register(operatorAddresses, Now, s)
    /\ operators' = [operators EXCEPT
           ![s] = [rpcEndpoint |-> rpc, restakingMiddleware |-> sender]]
    /\ UNCHANGED <<now, middleware, sweep, pausedAt>>

pauseOperator(sender, s) ==
    /\ ~sweep.running
    /\ onlyMiddleware(sender)
    /\ CanPause(operatorAddresses, s)
    /\ operatorAddresses' = Pause(operatorAddresses, PauseTime, s)
    /\ pausedAt' = [pausedAt EXCEPT ![s] = now]
    /\ UNCHANGED <<now, operators, middleware, sweep>>

unpauseOperator(sender, s) ==
    /\ ~sweep.running
    /\ onlyMiddleware(sender)
    /\ CanUnpause(operatorAddresses, Now, EPOCH_DURATION, s)
    /\ operatorAddresses' = Unpause(operatorAddresses, Now, s)
    /\ pausedAt' = [pausedAt EXCEPT ![s] = 0]
    /\ UNCHANGED <<now, operators, middleware, sweep>>

updateOperatorRpcEndpoint(sender, s, rpc) ==
    /\ ~sweep.running
    /\ onlyMiddleware(sender)
    /\ isOperator(s)
    /\ rpc # EmptyRpc
    /\ operators' = [operators EXCEPT ![s] = [@ EXCEPT !.rpcEndpoint = rpc]]
    /\ UNCHANGED <<now, operatorAddresses, middleware, sweep, pausedAt>>

deregisterOperator(sender, s) ==
    /\ ~sweep.running
    /\ onlyMiddleware(sender)
    /\ CanUnregister(operatorAddresses, Now - 1, EPOCH_DURATION, s)
    /\ operatorAddresses' = Unregister(operatorAddresses, s)
    /\ operators' = [operators EXCEPT ![s] = NoOperator]
    /\ pausedAt' = [pausedAt EXCEPT ![s] = 0]
    /\ UNCHANGED <<now, middleware, sweep>>

(* The loop's i++: it runs whether or not the element was removed.         *)
NextIndex(removed) == sweep.i + 1

(* cleanup(): anyone may call it.  The array is indexed from 1 here.       *)
CleanupBegin ==
    /\ ~sweep.running
    /\ sweep' = [running |-> TRUE, i |-> 1,
                 expired |-> {s \in Signers : Expired(s)}]
    /\ UNCHANGED <<now, operatorAddresses, operators, middleware, pausedAt>>

(* One iteration.  After a removal another element is at the same index.   *)
CleanupIteration ==
    /\ sweep.running
    /\ sweep.i <= Len(operatorAddresses.order)
    /\ LET s == operatorAddresses.order[sweep.i] IN
         \/ /\ Expired(s)
            /\ operatorAddresses' = Unregister(operatorAddresses, s)
            /\ operators' = [operators EXCEPT ![s] = NoOperator]
            /\ pausedAt' = [pausedAt EXCEPT ![s] = 0]
            /\ sweep' = [sweep EXCEPT !.i = NextIndex(TRUE)]
         \/ /\ ~Expired(s)
            /\ sweep' = [sweep EXCEPT !.i = NextIndex(FALSE)]
            /\ UNCHANGED <<operatorAddresses, operators, pausedAt>>
    /\ UNCHANGED <<now, middleware>>

CleanupEnd ==
    /\ sweep.running
    /\ sweep.i > Len(operatorAddresses.order)
    /\ sweep' = NoSweep
    /\ UNCHANGED <<now, operatorAddresses, operators, middleware, pausedAt>>

(* onlyOwner; an unknown protocol name reverts.                            *)
updateRestakingMiddleware(p, m) ==
    /\ ~sweep.running
    /\ m # NoMiddleware
    /\ middleware' = [middleware EXCEPT ![p] = m]
    /\ UNCHANGED <<now, operatorAddresses, operators, sweep, pausedAt>>

(* A later block.                                                          *)
Tick ==
    /\ ~sweep.running
    /\ now < MaxTime
    /\ now' = now + 1
    /\ UNCHANGED registryVars

Cleanup == CleanupBegin \/ CleanupIteration \/ CleanupEnd

Next ==
    \/ \E sender \in Middlewares, s \in Signers, rpc \in Rpcs :
           \/ registerOperator(sender, s, rpc)
           \/ updateOperatorRpcEndpoint(sender, s, rpc)
    \/ \E sender \in Middlewares, s \in Signers :
           \/ pauseOperator(sender, s)
           \/ unpauseOperator(sender, s)
           \/ deregisterOperator(sender, s)
    \/ Cleanup
    \/ \E p \in Protocols, m \in Middlewares : updateRestakingMiddleware(p, m)
    \/ Tick

Spec == Init /\ [][Next]_vars

-------------------------------------------------------------------------------
(* The enumerable set and the mapping beside it are two records of the     *)
(* same registry, written by different statements: an operator has a       *)
(* mapping entry exactly while it is enumerated, is enumerated once, and   *)
(* carries no timestamps once it is gone (a stale disabled time would let  *)
(* it skip the wait after it registers again).                             *)
RegistryConsistent ==
    /\ \A i, j \in DOMAIN operatorAddresses.order :
           operatorAddresses.order[i] = operatorAddresses.order[j] => i = j
    /\ \A s \in Signers : isOperator(s) <=> operators[s] # NoOperator
    /\ \A s \in Signers :
           ~isOperator(s) => operatorAddresses.status[s] = ZeroStatus

(* The disabled time of a paused operator is the last second of the epoch  *)
(* before the one of its pause: whatever the middlewares did since, it is  *)
(* neither later (the pause would not count yet) nor earlier (the operator *)
(* could leave too soon).                                                  *)
PauseRecordsPreviousEpoch ==
    \A s \in Signers : IsPaused(operatorAddresses, s) =>
        /\ START_TIMESTAMP <= pausedAt[s] /\ pausedAt[s] <= now
        /\ operatorAddresses.status[s].disabled = EpochStart(pausedAt[s]) - 1

(* A paused operator is inactive from the very epoch it was paused in, as  *)
(* the NOTE in pauseOperator promises, and in every later one.             *)
PausedIsInactive ==
    \A s \in Signers : IsPaused(operatorAddresses, s) => ~isActiveOperator(s)

(* An operator neither leaves the registry nor is reactivated unless it    *)
(* was paused, in an earlier epoch: whoever reads the registry sees it     *)
(* inactive until the next epoch begins.  That is all the code waits for.  *)
(* Its comments (OperatorsRegistryV1.sol:136, 160, 230) say that an        *)
(* EPOCH_DURATION must pass, which it does only after a pause in the first *)
(* second of an epoch; after one in the last second it is one second.      *)
LeavesOnlyAfterPause ==
    [][\A s \in Signers :
          \/ isOperator(s) /\ ~isOperator(s)'
          \/ IsPaused(operatorAddresses, s) /\ ~IsPaused(operatorAddresses, s)'
          => /\ IsPaused(operatorAddresses, s)
             /\ Epoch(pausedAt[s]) < Epoch(now)]_vars

(* Time alone deactivates nobody: an operator that was active stays so     *)
(* from block to block until a transaction pauses it, so the slashing      *)
(* views never change under a reader's feet.                               *)
TimeNeverDeactivates ==
    [][now' # now => getActiveOperators \subseteq getActiveOperators']_vars

(* cleanup() skips the element that a removal moves under its index, one   *)
(* for each removal at most: every call removes at least half of what had  *)
(* expired, so finitely many calls remove all of it.                       *)
CleanupHalvesExpired ==
    [][sweep.running /\ ~sweep'.running =>
          2 * Cardinality({s \in sweep.expired : isOperator(s)})
              <= Cardinality(sweep.expired)]_vars

(* What readers of the registry see of an operator.                        *)
PhaseOf(s) ==
    IF ~isOperator(s) THEN "absent"
    ELSE IF isActiveOperator(s) THEN "active"
    ELSE IF IsPaused(operatorAddresses, s) THEN "paused" ELSE "joining"

PausedIn(s) ==
    IF IsPaused(operatorAddresses, s) THEN Epoch(pausedAt[s]) ELSE 0

Lifecycle == INSTANCE OperatorLifecycle
    WITH epoch    <- Epoch(now),
         phase    <- [s \in Signers |-> PhaseOf(s)],
         pausedIn <- [s \in Signers |-> PausedIn(s)]

(* Behind its timestamps, which are rounded down, moved back by a second   *)
(* and compared in four different ways, the registry is the simple machine *)
(* of OperatorLifecycle, in the middle of cleanup() too.                   *)
ImplementsLifecycle == Lifecycle!Spec

-------------------------------------------------------------------------------
(* Claims of the contract's comments that the code does not keep.          *)

(* OperatorsRegistryV1.sol:230, "Cleans up any expired operators".         *)
CleanupRemovesEveryExpired ==
    [][sweep.running /\ ~sweep'.running =>
          \A s \in sweep.expired : ~isOperator(s)]_vars
===============================================================================
