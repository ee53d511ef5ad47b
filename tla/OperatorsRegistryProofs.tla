------------------------ MODULE OperatorsRegistryProofs ------------------------
(***************************************************************************)
(* Theorems about OperatorsRegistry, for any number of signers, any        *)
(* middlewares, any positive epoch length and any clock bound.             *)
(*                                                                         *)
(* IInv is inductive.  TypeOK and RegistryConsistent need each other (a    *)
(* removal is well typed because the array has no duplicates), and what is *)
(* inactive or may leave depends on PauseRecordsPreviousEpoch.             *)
(***************************************************************************)
EXTENDS OperatorsRegistry, PauseableSetProofs

IInv == TypeOK /\ RegistryConsistent /\ PauseRecordsPreviousEpoch

-------------------------------------------------------------------------------
(* Epoch arithmetic.                                                       *)

(* A product of naturals by an epoch length is monotone.                   *)
LEMMA TimesMonotone ==
    ASSUME NEW x \in Nat, NEW y \in Nat, NEW d \in Nat \ {0}, x <= y
    PROVE  x * d \in Nat /\ y * d \in Nat /\ x * d <= y * d
BY SMT

(* Rounding down to epochs is monotone.                                    *)
LEMMA DivMonotone ==
    ASSUME NEW x \in Nat, NEW y \in Nat, NEW d \in Nat \ {0}, x <= y
    PROVE  x \div d \in Nat /\ y \div d \in Nat /\ x \div d <= y \div d
BY SMT

(* The start of an epoch is a natural number above 1 and does not go back  *)
(* as time advances; two times with the same epoch have the same start.    *)
LEMMA EpochStartFacts ==
    ASSUME NEW t \in Nat, NEW u \in Nat, START_TIMESTAMP <= t, t <= u
    PROVE  /\ Epoch(t) \in Nat /\ Epoch(u) \in Nat /\ Epoch(t) <= Epoch(u)
           /\ EpochStart(t) \in Nat /\ EpochStart(u) \in Nat
           /\ 1 < EpochStart(t) /\ EpochStart(t) <= EpochStart(u)
           /\ Epoch(t) = Epoch(u) => EpochStart(t) = EpochStart(u)
<1> USE TimeAssumption
<1>1. t - START_TIMESTAMP \in Nat /\ u - START_TIMESTAMP \in Nat
      /\ t - START_TIMESTAMP <= u - START_TIMESTAMP
  OBVIOUS
<1>2. Epoch(t) \in Nat /\ Epoch(u) \in Nat /\ Epoch(t) <= Epoch(u)
  BY <1>1, DivMonotone DEF Epoch
<1>3. /\ Epoch(t) * EPOCH_DURATION \in Nat
      /\ Epoch(t) * EPOCH_DURATION <= Epoch(u) * EPOCH_DURATION
      /\ Epoch(u) * EPOCH_DURATION \in Nat
  BY <1>2, TimesMonotone
<1> QED
  BY <1>2, <1>3 DEF EpochStart

(* _now() is a natural number above 1 in every state.                      *)
LEMMA NowFacts ==
    ASSUME TypeOK
    PROVE  Now \in Nat /\ Now > 1 /\ PauseTime \in Nat \ {0}
<1>1. now \in Nat /\ START_TIMESTAMP <= now
  BY TimeAssumption DEF TypeOK
<1> QED
  BY <1>1, EpochStartFacts DEF Now, getCurrentEpochStartTimestamp, PauseTime

-------------------------------------------------------------------------------
(* RegistryConsistent speaks of the set through WellFormed.                *)
LEMMA ConsistentIsWellFormed ==
    ASSUME operatorAddresses \in SetOf(Signers)
    PROVE  RegistryConsistent <=>
             /\ WellFormed(Signers, operatorAddresses)
             /\ \A s \in Signers : Contains(operatorAddresses, s)
                                      <=> operators[s] # NoOperator
BY Zenon DEF RegistryConsistent, WellFormed, Distinct, isOperator

MappingAgrees(set, map) ==
    \A s \in Signers : Contains(set, s) <=> map[s] # NoOperator

PausesSound(set, at, t) ==
    \A s \in Signers : IsPaused(set, s) =>
        /\ START_TIMESTAMP <= at[s] /\ at[s] <= t
        /\ set.status[s].disabled = EpochStart(at[s]) - 1

(* The invariant, with its parts named by what they constrain.             *)
Parts ==
    /\ now \in Nat /\ now >= START_TIMESTAMP
    /\ operators \in [Signers -> Operator \cup {NoOperator}]
    /\ middleware \in [Protocols -> Middlewares \cup {NoMiddleware}]
    /\ sweep \in [running : BOOLEAN, i : Nat, expired : SUBSET Signers]
    /\ pausedAt \in [Signers -> Nat]
    /\ WellFormed(Signers, operatorAddresses)
    /\ MappingAgrees(operatorAddresses, operators)
    /\ PausesSound(operatorAddresses, pausedAt, now)

(* IInv is the conjunction of those parts.                                 *)
LEMMA InvariantParts == IInv <=> Parts
<1>1. WellFormed(Signers, operatorAddresses) => operatorAddresses \in SetOf(Signers)
  BY DEF WellFormed
<1> QED
  BY <1>1, ConsistentIsWellFormed, Zenon
  DEF IInv, Parts, TypeOK, SetOf, MappingAgrees, PausesSound, PauseRecordsPreviousEpoch

-------------------------------------------------------------------------------
(* Every step preserves the invariant, one lemma per kind of step.         *)

(* The first state satisfies the invariant.                                *)
LEMMA InitInvariant == Init => IInv
<1> SUFFICES ASSUME Init PROVE IInv
  OBVIOUS
<1>1. /\ now \in Nat /\ now >= START_TIMESTAMP
      /\ operators \in [Signers -> Operator \cup {NoOperator}]
      /\ middleware \in [Protocols -> Middlewares \cup {NoMiddleware}]
      /\ sweep \in [running : BOOLEAN, i : Nat, expired : SUBSET Signers]
      /\ pausedAt \in [Signers -> Nat]
  BY TimeAssumption DEF Init, NoSweep
<1>2. /\ WellFormed(Signers, operatorAddresses)
      /\ \A s \in Signers : ~Contains(operatorAddresses, s)
  BY EmptySetFacts DEF Init
<1>3. MappingAgrees(operatorAddresses, operators)
  BY <1>2 DEF Init, MappingAgrees
<1>4. PausesSound(operatorAddresses, pausedAt, now)
  BY <1>2 DEF PausesSound, IsPaused
<1> QED
  BY <1>1, <1>2, <1>3, <1>4, InvariantParts DEF Parts

(* A transaction of a middleware that changes neither the clock, nor the   *)
(* slots, nor the sweep, preserves the invariant as soon as what it writes *)
(* is well formed and agrees.                                              *)
LEMMA FrameInvariant ==
    ASSUME IInv, UNCHANGED <<now, middleware>>,
           sweep' \in [running : BOOLEAN, i : Nat, expired : SUBSET Signers],
           operators' \in [Signers -> Operator \cup {NoOperator}],
           pausedAt' \in [Signers -> Nat],
           WellFormed(Signers, operatorAddresses'),
           MappingAgrees(operatorAddresses', operators'),
           PausesSound(operatorAddresses', pausedAt', now)
    PROVE  IInv'
<1>1. Parts'
  BY InvariantParts DEF Parts
<1> QED
  BY <1>1, InvariantParts, PTL

(* registerOperator.                                                       *)
LEMMA RegisterInvariant ==
    ASSUME IInv, NEW sender \in Middlewares, NEW s \in Signers, NEW rpc \in Rpcs,
           registerOperator(sender, s, rpc)
    PROVE  IInv'
<1> DEFINE new == Register(operatorAddresses, Now, s)
<1>1. Now \in Nat
  BY NowFacts DEF IInv
<1>2. /\ WellFormed(Signers, new)
      /\ \A b \in Signers : Contains(new, b) <=> (b = s \/ Contains(operatorAddresses, b))
      /\ new.status[s] = [enabled |-> Now, disabled |-> 0]
      /\ \A b \in Signers \ {s} : new.status[b] = operatorAddresses.status[b]
  BY <1>1, InvariantParts, RegisterFacts DEF registerOperator, Parts
<1>3. operatorAddresses' = new
  BY DEF registerOperator
<1> HIDE DEF new
<1>4. /\ operators' \in [Signers -> Operator \cup {NoOperator}]
      /\ operators'[s] # NoOperator
      /\ \A b \in Signers \ {s} : operators'[b] = operators[b]
  BY InvariantParts, AddressAssumption DEF registerOperator, Operator, Parts
<1>5. MappingAgrees(new, operators')
  BY <1>2, <1>4, InvariantParts DEF MappingAgrees, Parts
<1>6. PausesSound(new, pausedAt', now)
  BY <1>2, InvariantParts DEF PausesSound, IsPaused, registerOperator, Parts
<1> QED
  BY <1>2, <1>3, <1>4, <1>5, <1>6, InvariantParts, FrameInvariant DEF registerOperator, Parts

(* pauseOperator.                                                          *)
LEMMA PauseInvariant ==
    ASSUME IInv, NEW sender \in Middlewares, NEW s \in Signers,
           pauseOperator(sender, s)
    PROVE  IInv'
<1> DEFINE new == Pause(operatorAddresses, PauseTime, s)
<1>1. PauseTime \in Nat /\ PauseTime = EpochStart(now) - 1
  BY NowFacts DEF IInv, PauseTime, Now, getCurrentEpochStartTimestamp
<1>2. /\ WellFormed(Signers, new)
      /\ \A b \in Signers : Contains(new, b) <=> Contains(operatorAddresses, b)
      /\ new.status[s].disabled = PauseTime
      /\ \A b \in Signers \ {s} : new.status[b] = operatorAddresses.status[b]
  <2>1. WellFormed(Signers, operatorAddresses) /\ CanPause(operatorAddresses, s)
    BY InvariantParts DEF Parts, pauseOperator
  <2>2. new.status[s] = [enabled |-> operatorAddresses.status[s].enabled,
                         disabled |-> PauseTime]
    BY <1>1, <2>1, PauseFacts
  <2> QED
    BY <1>1, <2>1, <2>2, PauseFacts
<1>3. operatorAddresses' = new
  BY DEF pauseOperator
<1> HIDE DEF new
<1>4. MappingAgrees(new, operators)
  BY <1>2, InvariantParts DEF MappingAgrees, Parts
<1>5. /\ pausedAt' \in [Signers -> Nat]
      /\ pausedAt'[s] = now
      /\ \A b \in Signers \ {s} : pausedAt'[b] = pausedAt[b]
  BY InvariantParts DEF pauseOperator, Parts
<1>6. PausesSound(new, pausedAt', now)
  <2> SUFFICES ASSUME NEW b \in Signers, IsPaused(new, b)
               PROVE  /\ START_TIMESTAMP <= pausedAt'[b] /\ pausedAt'[b] <= now
                      /\ new.status[b].disabled = EpochStart(pausedAt'[b]) - 1
    BY DEF PausesSound
  <2>1. CASE b = s
    BY <1>1, <1>2, <1>5, <2>1, InvariantParts, TimeAssumption DEF Parts
  <2>2. CASE b # s
    BY <1>2, <1>5, <2>2, InvariantParts DEF PausesSound, IsPaused, Parts
  <2> QED
    BY <2>1, <2>2
<1> QED
  BY <1>2, <1>3, <1>4, <1>5, <1>6, InvariantParts, FrameInvariant DEF pauseOperator, Parts

(* unpauseOperator.                                                        *)
LEMMA UnpauseInvariant ==
    ASSUME IInv, NEW sender \in Middlewares, NEW s \in Signers,
           unpauseOperator(sender, s)
    PROVE  IInv'
<1> DEFINE new == Unpause(operatorAddresses, Now, s)
<1>1. Now \in Nat /\ Contains(operatorAddresses, s)
  BY NowFacts DEF IInv, unpauseOperator, CanUnpause, IsPaused
<1>2. /\ WellFormed(Signers, new)
      /\ \A b \in Signers : Contains(new, b) <=> Contains(operatorAddresses, b)
      /\ new.status[s] = [enabled |-> Now, disabled |-> 0]
      /\ \A b \in Signers \ {s} : new.status[b] = operatorAddresses.status[b]
  BY <1>1, InvariantParts, UnpauseFacts DEF Parts
<1>3. operatorAddresses' = new
  BY DEF unpauseOperator
<1> HIDE DEF new
<1>4. MappingAgrees(new, operators)
  BY <1>2, InvariantParts DEF MappingAgrees, Parts
<1>5. /\ pausedAt' \in [Signers -> Nat]
      /\ \A b \in Signers \ {s} : pausedAt'[b] = pausedAt[b]
  BY InvariantParts DEF unpauseOperator, Parts
<1>6. PausesSound(new, pausedAt', now)
  BY <1>2, <1>5, InvariantParts DEF PausesSound, IsPaused, Parts
<1> QED
  BY <1>2, <1>3, <1>4, <1>5, <1>6, InvariantParts, FrameInvariant DEF unpauseOperator, Parts

(* What removing an operator from the set and from the mapping leaves,     *)
(* whoever removes it: deregisterOperator or an iteration of cleanup.      *)
LEMMA RemovalInvariant ==
    ASSUME IInv, NEW s \in Signers, Contains(operatorAddresses, s),
           operatorAddresses' = Unregister(operatorAddresses, s),
           operators' = [operators EXCEPT ![s] = NoOperator],
           pausedAt' = [pausedAt EXCEPT ![s] = 0],
           UNCHANGED <<now, middleware>>,
           sweep' \in [running : BOOLEAN, i : Nat, expired : SUBSET Signers]
    PROVE  IInv'
<1> DEFINE new == Unregister(operatorAddresses, s)
<1>1. /\ WellFormed(Signers, new)
      /\ \A b \in Signers : Contains(new, b) <=> (b # s /\ Contains(operatorAddresses, b))
      /\ \A b \in Signers \ {s} : new.status[b] = operatorAddresses.status[b]
  <2>1. WellFormed(Signers, operatorAddresses)
    BY InvariantParts DEF Parts
  <2> QED
    BY <2>1, UnregisterFacts
<1>2. operatorAddresses' = new
  OBVIOUS
<1> HIDE DEF new
<1>3. /\ operators' \in [Signers -> Operator \cup {NoOperator}]
      /\ operators'[s] = NoOperator
      /\ \A b \in Signers \ {s} : operators'[b] = operators[b]
  BY InvariantParts DEF Parts
<1>4. /\ pausedAt' \in [Signers -> Nat]
      /\ \A b \in Signers \ {s} : pausedAt'[b] = pausedAt[b]
  BY InvariantParts DEF Parts
<1>5. MappingAgrees(new, operators')
  BY <1>1, <1>3, InvariantParts DEF MappingAgrees, Parts
<1>6. PausesSound(new, pausedAt', now)
  BY <1>1, <1>4, InvariantParts DEF PausesSound, IsPaused, Parts
<1> QED
  BY <1>1, <1>2, <1>3, <1>4, <1>5, <1>6, FrameInvariant

(* deregisterOperator.                                                     *)
LEMMA DeregisterInvariant ==
    ASSUME IInv, NEW sender \in Middlewares, NEW s \in Signers,
           deregisterOperator(sender, s)
    PROVE  IInv'
<1>1. Contains(operatorAddresses, s)
  BY DEF deregisterOperator, CanUnregister, IsPaused
<1>2. sweep' \in [running : BOOLEAN, i : Nat, expired : SUBSET Signers]
  BY InvariantParts DEF Parts, deregisterOperator
<1> QED
  BY <1>1, <1>2, RemovalInvariant DEF deregisterOperator

(* updateOperatorRpcEndpoint.                                              *)
LEMMA UpdateRpcInvariant ==
    ASSUME IInv, NEW sender \in Middlewares, NEW s \in Signers, NEW rpc \in Rpcs,
           updateOperatorRpcEndpoint(sender, s, rpc)
    PROVE  IInv'
<1>1. operators[s] \in Operator
  BY InvariantParts DEF Parts, MappingAgrees, updateOperatorRpcEndpoint, isOperator
<1>2. [operators[s] EXCEPT !.rpcEndpoint = rpc] \in Operator
  BY <1>1 DEF Operator, updateOperatorRpcEndpoint
<1>3. operators' = [operators EXCEPT ![s] = [operators[s] EXCEPT !.rpcEndpoint = rpc]]
  BY DEF updateOperatorRpcEndpoint
<1>4. Operator \subseteq [rpcEndpoint : Rpcs, restakingMiddleware : Middlewares]
  BY DEF Operator
<1>5. NoOperator \notin Operator
  BY <1>4, AddressAssumption
<1>6. /\ operators' \in [Signers -> Operator \cup {NoOperator}]
      /\ operators'[s] # NoOperator
      /\ \A b \in Signers \ {s} : operators'[b] = operators[b]
  BY <1>2, <1>3, <1>5, InvariantParts DEF Parts
<1>7. MappingAgrees(operatorAddresses, operators')
  BY <1>1, <1>5, <1>6, InvariantParts DEF Parts, MappingAgrees
<1> QED
  BY <1>6, <1>7, InvariantParts, FrameInvariant DEF Parts, updateOperatorRpcEndpoint

(* One iteration of cleanup.                                               *)
LEMMA CleanupIterationInvariant ==
    ASSUME IInv, CleanupIteration
    PROVE  IInv'
<1> DEFINE s == operatorAddresses.order[sweep.i]
<1>1. /\ NextIndex(TRUE) \in Nat /\ NextIndex(FALSE) \in Nat
      /\ UNCHANGED <<now, middleware>>
  BY InvariantParts DEF Parts, NextIndex, CleanupIteration
<1>2. CASE /\ Expired(s)
           /\ operatorAddresses' = Unregister(operatorAddresses, s)
           /\ operators' = [operators EXCEPT ![s] = NoOperator]
           /\ pausedAt' = [pausedAt EXCEPT ![s] = 0]
           /\ sweep' = [sweep EXCEPT !.i = NextIndex(TRUE)]
  <2>1. Contains(operatorAddresses, s)
    BY <1>2 DEF Expired, CanUnregister, IsPaused
  <2>2. operatorAddresses.order \in Seq(Signers)
    BY InvariantParts DEF Parts, WellFormed, SetOf
  <2>3. s \in Signers
    BY <2>1, <2>2 DEF Contains
  <2>4. sweep' \in [running : BOOLEAN, i : Nat, expired : SUBSET Signers]
    BY <1>1, <1>2, InvariantParts DEF Parts
  <2> QED
    BY <1>1, <1>2, <2>1, <2>3, <2>4, RemovalInvariant
<1>3. CASE /\ sweep' = [sweep EXCEPT !.i = NextIndex(FALSE)]
           /\ UNCHANGED <<operatorAddresses, operators, pausedAt>>
  <2>1. sweep' \in [running : BOOLEAN, i : Nat, expired : SUBSET Signers]
    BY <1>1, <1>3, InvariantParts DEF Parts
  <2> QED
    BY <1>1, <1>3, <2>1, InvariantParts, FrameInvariant DEF Parts
<1> QED
  BY <1>2, <1>3 DEF CleanupIteration

(* The beginning and the end of cleanup.                                   *)
LEMMA CleanupBoundsInvariant ==
    ASSUME IInv, CleanupBegin \/ CleanupEnd
    PROVE  IInv'
<1>1. sweep' \in [running : BOOLEAN, i : Nat, expired : SUBSET Signers]
  <2>1. CASE CleanupBegin
    <3>1. {s \in Signers : Expired(s)} \in SUBSET Signers
      OBVIOUS
    <3> QED
      BY <2>1, <3>1 DEF CleanupBegin
  <2>2. CASE CleanupEnd
    BY <2>2 DEF CleanupEnd, NoSweep
  <2> QED
    BY <2>1, <2>2
<1> QED
  BY <1>1, InvariantParts, FrameInvariant DEF Parts, CleanupBegin, CleanupEnd

(* A slot update, a later block, and a step that changes nothing.          *)
LEMMA OtherStepsInvariant ==
    ASSUME IInv,
           \/ \E p \in Protocols, m \in Middlewares : updateRestakingMiddleware(p, m)
           \/ Tick
           \/ UNCHANGED vars
    PROVE  IInv'
<1>1. ASSUME NEW p \in Protocols, NEW m \in Middlewares,
             updateRestakingMiddleware(p, m)
      PROVE  IInv'
  <2>1. Parts'
    BY <1>1, InvariantParts DEF Parts, updateRestakingMiddleware
  <2> QED
    BY <2>1, InvariantParts, PTL
<1>2. CASE Tick
  <2>1. now' \in Nat /\ now' >= START_TIMESTAMP /\ now <= now'
    BY <1>2, InvariantParts, TimeAssumption DEF Parts, Tick
  <2>2. PausesSound(operatorAddresses, pausedAt, now')
    BY <2>1, InvariantParts, TimeAssumption DEF Parts, PausesSound
  <2>3. Parts'
    BY <1>2, <2>1, <2>2, InvariantParts DEF Parts, Tick, registryVars
  <2> QED
    BY <2>3, InvariantParts, PTL
<1>3. CASE UNCHANGED vars
  <2>1. Parts'
    BY <1>3, InvariantParts DEF Parts, vars, registryVars
  <2> QED
    BY <2>1, InvariantParts, PTL
<1> QED
  BY <1>1, <1>2, <1>3

(* Every step of the registry preserves the invariant.                     *)
LEMMA NextInvariant == IInv /\ [Next]_vars => IInv'
<1> SUFFICES ASSUME IInv, [Next]_vars PROVE IInv'
  OBVIOUS
<1>1. ASSUME NEW sender \in Middlewares, NEW s \in Signers, NEW rpc \in Rpcs,
             \/ registerOperator(sender, s, rpc)
             \/ updateOperatorRpcEndpoint(sender, s, rpc)
      PROVE  IInv'
  BY <1>1, RegisterInvariant, UpdateRpcInvariant
<1>2. ASSUME NEW sender \in Middlewares, NEW s \in Signers,
             \/ pauseOperator(sender, s)
             \/ unpauseOperator(sender, s)
             \/ deregisterOperator(sender, s)
      PROVE  IInv'
  BY <1>2, PauseInvariant, UnpauseInvariant, DeregisterInvariant
<1>3. CASE Cleanup
  BY <1>3, CleanupIterationInvariant, CleanupBoundsInvariant DEF Cleanup
<1>4. CASE \/ \E p \in Protocols, m \in Middlewares : updateRestakingMiddleware(p, m)
           \/ Tick
           \/ UNCHANGED vars
  BY <1>4, OtherStepsInvariant
<1> QED
  BY <1>1, <1>2, <1>3, <1>4 DEF Next

(* IInv holds in every reachable state.                                    *)
THEOREM SpecInvariant == Spec => []IInv
BY InitInvariant, NextInvariant, PTL DEF Spec

-------------------------------------------------------------------------------
(* The registry is well typed: in particular no transaction stores an      *)
(* operator with an empty RPC endpoint, and _now() - 1 never underflows.   *)
THEOREM TypeCorrect == Spec => []TypeOK
<1>1. IInv => TypeOK
  BY DEF IInv
<1> QED
  BY <1>1, SpecInvariant, PTL

(* The enumerable set and the mapping stay one registry.                   *)
THEOREM RegistryStaysConsistent == Spec => []RegistryConsistent
<1>1. IInv => RegistryConsistent
  BY DEF IInv
<1> QED
  BY <1>1, SpecInvariant, PTL

(* A pause is recorded at the end of the epoch before it.                  *)
THEOREM PauseTimesAreSound == Spec => []PauseRecordsPreviousEpoch
<1>1. IInv => PauseRecordsPreviousEpoch
  BY DEF IInv
<1> QED
  BY <1>1, SpecInvariant, PTL

(* A disabled time lies before the current epoch.                          *)
LEMMA DisabledInThePast ==
    ASSUME IInv, NEW s \in Signers, IsPaused(operatorAddresses, s)
    PROVE  /\ pausedAt[s] \in Nat
           /\ START_TIMESTAMP <= pausedAt[s] /\ pausedAt[s] <= now
           /\ operatorAddresses.status[s].disabled = EpochStart(pausedAt[s]) - 1
           /\ EpochStart(pausedAt[s]) \in Nat /\ EpochStart(now) \in Nat
           /\ operatorAddresses.status[s].disabled < EpochStart(now)
<1>1. /\ pausedAt[s] \in Nat /\ now \in Nat
      /\ START_TIMESTAMP <= pausedAt[s] /\ pausedAt[s] <= now
      /\ operatorAddresses.status[s].disabled = EpochStart(pausedAt[s]) - 1
  BY InvariantParts DEF Parts, PausesSound
<1>2. /\ EpochStart(pausedAt[s]) \in Nat /\ EpochStart(now) \in Nat
      /\ EpochStart(pausedAt[s]) <= EpochStart(now)
  BY <1>1, EpochStartFacts
<1> QED
  BY <1>1, <1>2

(* A paused operator is never active.                                      *)
THEOREM PausedStaysInactive == Spec => []PausedIsInactive
<1>1. IInv => PausedIsInactive
  <2> SUFFICES ASSUME IInv, NEW s \in Signers, IsPaused(operatorAddresses, s)
               PROVE  ~isActiveOperator(s)
    BY DEF PausedIsInactive
  <2>1. operatorAddresses.status[s].disabled # 0
    BY DEF IsPaused
  <2>2. /\ EpochStart(pausedAt[s]) \in Nat /\ EpochStart(now) \in Nat
        /\ operatorAddresses.status[s].disabled = EpochStart(pausedAt[s]) - 1
        /\ operatorAddresses.status[s].disabled < EpochStart(now)
    BY DisabledInThePast
  <2> QED
    BY <2>1, <2>2 DEF isActiveOperator, WasActiveAt, Now, getCurrentEpochStartTimestamp
<1> QED
  BY <1>1, SpecInvariant, PTL

-------------------------------------------------------------------------------
(* What a step may never do.                                               *)

(* Only a later block changes the clock.                                   *)
LEMMA OnlyTickMovesTime ==
    ASSUME Next, now' # now
    PROVE  now' = now + 1 /\ UNCHANGED registryVars
BY DEF Next, Cleanup, CleanupBegin, CleanupIteration, CleanupEnd, Tick,
       registerOperator, pauseOperator, unpauseOperator, deregisterOperator,
       updateOperatorRpcEndpoint, updateRestakingMiddleware

(* An operator that is active stays active from block to block.            *)
THEOREM TimeDeactivatesNobody == Spec => TimeNeverDeactivates
<1>1. IInv /\ [Next]_vars =>
        (now' # now => getActiveOperators \subseteq getActiveOperators')
  <2> SUFFICES ASSUME IInv, Next, now' # now, NEW s \in Signers, isActiveOperator(s)
               PROVE  isActiveOperator(s)'
    BY DEF vars, getActiveOperators
  <2>1. now' = now + 1 /\ UNCHANGED registryVars
    BY OnlyTickMovesTime
  <2>2. /\ EpochStart(now) \in Nat /\ EpochStart(now') \in Nat
        /\ EpochStart(now) <= EpochStart(now')
    BY <2>1, InvariantParts, EpochStartFacts, TimeAssumption DEF Parts
  <2>3. /\ Contains(operatorAddresses, s)
        /\ operatorAddresses.status[s].enabled < EpochStart(now)
        /\ \/ operatorAddresses.status[s].disabled = 0
           \/ operatorAddresses.status[s].disabled >= EpochStart(now)
    BY DEF isActiveOperator, WasActiveAt, Now, getCurrentEpochStartTimestamp
  <2>4. operatorAddresses.status[s] \in Status
    BY InvariantParts DEF Parts, WellFormed, SetOf
  <2>5. operatorAddresses.status[s].disabled = 0
    BY <2>2, <2>3, <2>4, DisabledInThePast DEF IsPaused, Status
  <2>6. operatorAddresses.status[s].enabled < EpochStart(now')
    BY <2>2, <2>3, <2>4 DEF Status
  <2>7. operatorAddresses' = operatorAddresses
    BY <2>1 DEF registryVars
  <2>8. WasActiveAt(operatorAddresses', EpochStart(now'), s)
    BY <2>3, <2>5, <2>6, <2>7 DEF WasActiveAt
  <2> QED
    BY <2>8 DEF isActiveOperator, Now, getCurrentEpochStartTimestamp, EpochStart, Epoch
<1> QED
  BY <1>1, SpecInvariant, PTL DEF Spec, TimeNeverDeactivates

(* What a removal or an unpause requires of the operator.                  *)
MayLeave(s) ==
    IsPaused(operatorAddresses, s) /\ Epoch(pausedAt[s]) < Epoch(now)

(* Past the immutable period, the epoch of the pause is over, as long as   *)
(* an epoch lasts more than a second.                                      *)
LEMMA ExpiredMayLeave ==
    ASSUME IInv, EPOCH_DURATION > 1, NEW s \in Signers,
           \/ CanUnregister(operatorAddresses, Now, EPOCH_DURATION, s)
           \/ CanUnregister(operatorAddresses, Now - 1, EPOCH_DURATION, s)
           \/ CanUnpause(operatorAddresses, Now, EPOCH_DURATION, s)
    PROVE  MayLeave(s)
<1>1. IsPaused(operatorAddresses, s)
  BY DEF CanUnregister, CanUnpause
<1>2. /\ pausedAt[s] \in Nat /\ now \in Nat
      /\ START_TIMESTAMP <= pausedAt[s] /\ pausedAt[s] <= now
      /\ operatorAddresses.status[s].disabled = EpochStart(pausedAt[s]) - 1
      /\ EpochStart(pausedAt[s]) \in Nat /\ EpochStart(now) \in Nat
  BY <1>1, DisabledInThePast, InvariantParts DEF Parts
<1>3. EpochStart(pausedAt[s]) - 1 + EPOCH_DURATION <= EpochStart(now)
  BY <1>2, TimeAssumption
  DEF CanUnregister, CanUnpause, PeriodPassed, Now, getCurrentEpochStartTimestamp
<1>4. /\ Epoch(pausedAt[s]) \in Nat /\ Epoch(now) \in Nat
      /\ Epoch(pausedAt[s]) <= Epoch(now)
      /\ Epoch(pausedAt[s]) = Epoch(now) => EpochStart(pausedAt[s]) = EpochStart(now)
  BY <1>2, EpochStartFacts
<1>5. Epoch(pausedAt[s]) # Epoch(now)
  BY <1>2, <1>3, <1>4, TimeAssumption
<1> QED
  BY <1>1, <1>4, <1>5 DEF MayLeave

(* An operator leaves, or is reactivated, only in an epoch after the one   *)
(* of its pause.  With epochs of one second it could in the same epoch:    *)
(* the pause is recorded at _now() - 1 and the period is compared to _now().*)
THEOREM LeavesOnlyAfterItsPause ==
    ASSUME EPOCH_DURATION > 1 PROVE Spec => LeavesOnlyAfterPause
<1> DEFINE Leaves(b) ==
             \/ isOperator(b) /\ ~isOperator(b)'
             \/ IsPaused(operatorAddresses, b) /\ ~IsPaused(operatorAddresses, b)'
<1>1. IInv /\ [Next]_vars => (\A b \in Signers : Leaves(b) => MayLeave(b))
  <2> SUFFICES ASSUME IInv, [Next]_vars, NEW b \in Signers, Leaves(b)
               PROVE  MayLeave(b)
    BY Zenon
  <2>1. operatorAddresses' # operatorAddresses
    BY DEF isOperator, Contains, IsPaused
  <2>2. ASSUME NEW s \in Signers, Contains(operatorAddresses, s),
               operatorAddresses' = Unregister(operatorAddresses, s), MayLeave(s)
        PROVE  MayLeave(b)
    <3> DEFINE new == Unregister(operatorAddresses, s)
    <3>1. WellFormed(Signers, operatorAddresses)
      BY InvariantParts DEF Parts
    <3>2. /\ \A x \in Signers : Contains(new, x) <=> (x # s /\ Contains(operatorAddresses, x))
          /\ \A x \in Signers \ {s} : new.status[x] = operatorAddresses.status[x]
      BY <2>2, <3>1, UnregisterFacts
    <3> QED
      BY <2>2, <3>2 DEF isOperator, IsPaused
  <2>3. ASSUME NEW sender \in Middlewares, NEW s \in Signers, NEW rpc \in Rpcs,
               registerOperator(sender, s, rpc)
        PROVE  FALSE
    <3>1. CanRegister(operatorAddresses, s)
          /\ operatorAddresses' = Register(operatorAddresses, Now, s)
      BY <2>3 DEF registerOperator
    <3>2. WellFormed(Signers, operatorAddresses) /\ Now \in Nat
      BY NowFacts, InvariantParts DEF IInv, Parts
    <3> DEFINE new == Register(operatorAddresses, Now, s)
    <3>3. /\ \A x \in Signers : Contains(new, x) <=> (x = s \/ Contains(operatorAddresses, x))
          /\ \A x \in Signers \ {s} : new.status[x] = operatorAddresses.status[x]
      BY <3>1, <3>2, RegisterFacts
    <3> QED
      BY <3>1, <3>3 DEF isOperator, IsPaused, CanRegister
  <2>4. ASSUME NEW sender \in Middlewares, NEW s \in Signers,
               pauseOperator(sender, s)
        PROVE  FALSE
    <3>1. CanPause(operatorAddresses, s)
          /\ operatorAddresses' = Pause(operatorAddresses, PauseTime, s)
      BY <2>4 DEF pauseOperator
    <3>2. WellFormed(Signers, operatorAddresses) /\ PauseTime \in Nat
      BY NowFacts, InvariantParts DEF IInv, Parts
    <3> DEFINE new == Pause(operatorAddresses, PauseTime, s)
    <3>3. /\ WellFormed(Signers, new)
          /\ \A x \in Signers : Contains(new, x) <=> Contains(operatorAddresses, x)
          /\ new.status[s] = [enabled |-> operatorAddresses.status[s].enabled,
                              disabled |-> PauseTime]
          /\ \A x \in Signers \ {s} : new.status[x] = operatorAddresses.status[x]
      BY <3>1, <3>2, PauseFacts
    <3> QED
      BY <3>1, <3>3 DEF isOperator, IsPaused, CanPause
  <2>5. ASSUME NEW sender \in Middlewares, NEW s \in Signers,
               unpauseOperator(sender, s)
        PROVE  MayLeave(b)
    <3>1. /\ CanUnpause(operatorAddresses, Now, EPOCH_DURATION, s)
          /\ operatorAddresses' = Unpause(operatorAddresses, Now, s)
      BY <2>5 DEF unpauseOperator
    <3>2. /\ WellFormed(Signers, operatorAddresses) /\ Now \in Nat
          /\ Contains(operatorAddresses, s)
      BY <3>1, NowFacts, InvariantParts DEF IInv, Parts, CanUnpause, IsPaused
    <3> DEFINE new == Unpause(operatorAddresses, Now, s)
    <3>3. /\ \A x \in Signers : Contains(new, x) <=> Contains(operatorAddresses, x)
          /\ \A x \in Signers \ {s} : new.status[x] = operatorAddresses.status[x]
      BY <3>1, <3>2, UnpauseFacts
    <3>4. b = s
      BY <3>1, <3>3 DEF isOperator, IsPaused
    <3> QED
      BY <3>1, <3>4, ExpiredMayLeave
  <2>6. ASSUME NEW sender \in Middlewares, NEW s \in Signers,
               deregisterOperator(sender, s)
        PROVE  MayLeave(b)
    <3>1. /\ CanUnregister(operatorAddresses, Now - 1, EPOCH_DURATION, s)
          /\ operatorAddresses' = Unregister(operatorAddresses, s)
      BY <2>6 DEF deregisterOperator
    <3> QED
      BY <2>2, <3>1, ExpiredMayLeave DEF CanUnregister, IsPaused
  <2>7. CASE CleanupIteration
    <3> DEFINE s == operatorAddresses.order[sweep.i]
    <3>1. /\ Expired(s)
          /\ operatorAddresses' = Unregister(operatorAddresses, s)
      BY <2>1, <2>7 DEF CleanupIteration
    <3>2. CanUnregister(operatorAddresses, Now, EPOCH_DURATION, s)
      BY <3>1 DEF Expired
    <3>3. Contains(operatorAddresses, s) /\ operatorAddresses.order \in Seq(Signers)
      BY <3>2, InvariantParts DEF Parts, CanUnregister, IsPaused, WellFormed, SetOf
    <3>4. s \in Signers
      BY <3>3 DEF Contains
    <3> QED
      BY <2>2, <3>1, <3>2, <3>3, <3>4, ExpiredMayLeave
  <2> QED
    BY <2>1, <2>3, <2>4, <2>5, <2>6, <2>7
    DEF Next, Cleanup, CleanupBegin, CleanupEnd, updateOperatorRpcEndpoint,
        updateRestakingMiddleware, Tick, vars, registryVars
<1>2. (\A b \in Signers : Leaves(b) => MayLeave(b)) <=>
      (\A s \in Signers :
          \/ isOperator(s) /\ ~isOperator(s)'
          \/ IsPaused(operatorAddresses, s) /\ ~IsPaused(operatorAddresses, s)'
          => /\ IsPaused(operatorAddresses, s)
             /\ Epoch(pausedAt[s]) < Epoch(now))
  BY Zenon DEF MayLeave
<1> HIDE DEF Leaves
<1> QED
  BY <1>1, <1>2, SpecInvariant, PTL DEF Spec, LeavesOnlyAfterPause

===============================================================================
