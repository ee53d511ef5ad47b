------------------------ MODULE OperatorLifecycleProofs ------------------------
(***************************************************************************)
(* The OperatorsRegistry implements OperatorLifecycle, for any signers and *)
(* middlewares and any epoch of more than a second.                        *)
(*                                                                         *)
(* The mapping needs a fact that IInv does not have: nobody is enabled     *)
(* from a time to come, so that who joined is active in the next epoch, or *)
(* from time 0, which would keep it from being paused.                     *)
(***************************************************************************)
EXTENDS OperatorsRegistryProofs

EnabledInPast ==
    \A s \in Signers :
        /\ operatorAddresses.status[s].enabled <= EpochStart(now)
        /\ Contains(operatorAddresses, s) => operatorAddresses.status[s].enabled # 0

LInv == IInv /\ EnabledInPast

-------------------------------------------------------------------------------
(* A second later it is the same epoch or the one after.                   *)
LEMMA DivStep ==
    ASSUME NEW x \in Nat, NEW d \in Nat \ {0}
    PROVE  (x + 1) \div d = x \div d \/ (x + 1) \div d = x \div d + 1
BY SMT

(* The epoch that follows starts later.                                    *)
LEMMA TickFacts ==
    ASSUME NEW t \in Nat, START_TIMESTAMP <= t
    PROVE  /\ Epoch(t) \in Nat /\ EpochStart(t) \in Nat /\ EpochStart(t + 1) \in Nat
           /\ \/ Epoch(t + 1) = Epoch(t) /\ EpochStart(t + 1) = EpochStart(t)
              \/ Epoch(t + 1) = Epoch(t) + 1 /\ EpochStart(t) < EpochStart(t + 1)
<1> USE TimeAssumption
<1>1. t - START_TIMESTAMP \in Nat /\ (t + 1) - START_TIMESTAMP = (t - START_TIMESTAMP) + 1
  OBVIOUS
<1>2. Epoch(t + 1) = Epoch(t) \/ Epoch(t + 1) = Epoch(t) + 1
  BY <1>1, DivStep DEF Epoch
<1>3. /\ Epoch(t) \in Nat /\ EpochStart(t) \in Nat /\ EpochStart(t + 1) \in Nat
      /\ Epoch(t) = Epoch(t + 1) => EpochStart(t) = EpochStart(t + 1)
  BY EpochStartFacts
<1>4. ASSUME NEW e \in Nat
      PROVE  (e + 1) * EPOCH_DURATION = e * EPOCH_DURATION + EPOCH_DURATION
             /\ e * EPOCH_DURATION \in Nat
  BY SMT
<1>5. ASSUME Epoch(t + 1) = Epoch(t) + 1
      PROVE  EpochStart(t) < EpochStart(t + 1)
  BY <1>3, <1>4, <1>5 DEF EpochStart
<1> QED
  BY <1>2, <1>3, <1>5

-------------------------------------------------------------------------------
Meaning(s) ==
    LET st == operatorAddresses.status[s]
        in == Contains(operatorAddresses, s)
    IN  /\ st \in Status
        /\ PhaseOf(s) = "absent"  <=> ~in
        /\ PhaseOf(s) = "paused"  <=> in /\ st.disabled # 0
        /\ PhaseOf(s) = "active"  <=> /\ in /\ st.disabled = 0
                                      /\ st.enabled < EpochStart(now)
        /\ PhaseOf(s) = "joining" <=> /\ in /\ st.disabled = 0
                                      /\ EpochStart(now) <= st.enabled

(* What each phase means for the entry behind it.                          *)
LEMMA PhaseMeaning == IInv => \A s \in Signers : Meaning(s)
<1> SUFFICES ASSUME IInv, NEW s \in Signers PROVE Meaning(s)
  OBVIOUS
<1> DEFINE st == operatorAddresses.status[s]
<1>1. st \in Status
  BY InvariantParts DEF Parts, WellFormed, SetOf
<1>2. IsPaused(operatorAddresses, s) =>
        st.disabled < EpochStart(now) /\ st.disabled # 0
  BY DisabledInThePast DEF IsPaused
<1>3. now \in Nat /\ START_TIMESTAMP <= now /\ EpochStart(now) \in Nat
  BY InvariantParts, TickFacts, TimeAssumption DEF Parts
<1>4. isActiveOperator(s) <=> /\ Contains(operatorAddresses, s)
                              /\ st.enabled < EpochStart(now)
                              /\ st.disabled = 0 \/ st.disabled >= EpochStart(now)
  BY DEF isActiveOperator, WasActiveAt, Now, getCurrentEpochStartTimestamp
<1>5. IsPaused(operatorAddresses, s) <=>
        Contains(operatorAddresses, s) /\ st.disabled # 0
  BY DEF IsPaused
<1> QED
  BY <1>1, <1>2, <1>3, <1>4, <1>5 DEF Meaning, PhaseOf, isOperator, Status

(* And after a step that preserves the invariant.                          *)
LEMMA PhaseMeaningNext ==
    ASSUME IInv' PROVE \A s \in Signers : Meaning(s)'
<1>1. (\A s \in Signers : Meaning(s))'
  BY PhaseMeaning, PTL
<1> QED
  BY <1>1

(* An entry that a transaction does not touch keeps its phase.             *)
LEMMA PhaseKept ==
    ASSUME NEW s \in Signers, now' = now,
           Contains(operatorAddresses', s) <=> Contains(operatorAddresses, s),
           operatorAddresses'.status[s] = operatorAddresses.status[s],
           pausedAt'[s] = pausedAt[s]
    PROVE  PhaseOf(s)' = PhaseOf(s) /\ PausedIn(s)' = PausedIn(s)
<1>1. IsPaused(operatorAddresses, s)' <=> IsPaused(operatorAddresses, s)
  BY DEF IsPaused
<1>2. isActiveOperator(s)' <=> isActiveOperator(s)
  BY DEF isActiveOperator, WasActiveAt, Now, getCurrentEpochStartTimestamp, EpochStart, Epoch
<1>3. isOperator(s)' <=> isOperator(s)
  BY DEF isOperator
<1>4. Epoch(pausedAt[s])' = Epoch(pausedAt[s])
  BY DEF Epoch
<1> QED
  BY <1>1, <1>2, <1>3, <1>4 DEF PhaseOf, PausedIn

(* A transaction that touches one entry is a move of that operator.        *)
LEMMA MoveOf ==
    ASSUME NEW s \in Signers, NEW to, NEW in, now' = now,
           \A b \in Signers \ {s} :
               /\ Contains(operatorAddresses', b) <=> Contains(operatorAddresses, b)
               /\ operatorAddresses'.status[b] = operatorAddresses.status[b]
               /\ pausedAt'[b] = pausedAt[b],
           PhaseOf(s)' = to, PausedIn(s)' = in
    PROVE  Lifecycle!Move(s, to, in)
<1>1. \A b \in Signers \ {s} : PhaseOf(b)' = PhaseOf(b) /\ PausedIn(b)' = PausedIn(b)
  BY PhaseKept
<1>2. [b \in Signers |-> PhaseOf(b)]' = [[b \in Signers |-> PhaseOf(b)] EXCEPT ![s] = to]
  BY <1>1
<1>3. [b \in Signers |-> PausedIn(b)]' = [[b \in Signers |-> PausedIn(b)] EXCEPT ![s] = in]
  BY <1>1
<1>4. Epoch(now)' = Epoch(now)
  BY DEF Epoch
<1> QED
  BY <1>2, <1>3, <1>4 DEF Lifecycle!Move

-------------------------------------------------------------------------------
(* Nobody is ever enabled from a time to come, whatever the length of an   *)
(* epoch.                                                                  *)

(* Enabling one entry now, or enabling none, keeps EnabledInPast.          *)
LEMMA EnabledKept ==
    ASSUME LInv, now' = now,
           \A b \in Signers :
               \/ operatorAddresses'.status[b].enabled = EpochStart(now)
               \/ /\ operatorAddresses'.status[b].enabled = 0
                  /\ ~Contains(operatorAddresses', b)
               \/ /\ operatorAddresses'.status[b].enabled = operatorAddresses.status[b].enabled
                  /\ Contains(operatorAddresses', b) <=> Contains(operatorAddresses, b)
    PROVE  EnabledInPast'
<1>1. now \in Nat /\ START_TIMESTAMP <= now /\ EpochStart(now) \in Nat /\ 1 < EpochStart(now)
  BY InvariantParts, EpochStartFacts, TimeAssumption DEF LInv, Parts
<1>2. EpochStart(now') = EpochStart(now)
  OBVIOUS
<1>3. \A b \in Signers :
        /\ operatorAddresses'.status[b].enabled <= EpochStart(now)
        /\ Contains(operatorAddresses', b) => operatorAddresses'.status[b].enabled # 0
  BY <1>1 DEF LInv, EnabledInPast
<1> QED
  BY <1>2, <1>3 DEF EnabledInPast, EpochStart, Epoch

(* A later block: what was enabled in the past still is.                   *)
LEMMA EnabledTick ==
    ASSUME LInv, Tick
    PROVE  EnabledInPast'
<1>1. /\ now' = now + 1 /\ operatorAddresses' = operatorAddresses
      /\ now \in Nat /\ START_TIMESTAMP <= now
  BY InvariantParts, TimeAssumption DEF LInv, Parts, Tick, registryVars
<1>2. /\ EpochStart(now) \in Nat /\ EpochStart(now + 1) \in Nat
      /\ EpochStart(now) <= EpochStart(now + 1)
  BY <1>1, TickFacts
<1>3. ASSUME NEW s \in Signers
      PROVE  /\ operatorAddresses.status[s].enabled <= EpochStart(now + 1)
             /\ Contains(operatorAddresses, s)
                   => operatorAddresses.status[s].enabled # 0
  <2>1. operatorAddresses.status[s].enabled \in Nat
    BY InvariantParts DEF LInv, Parts, WellFormed, SetOf, Status
  <2> QED
    BY <1>2, <2>1 DEF LInv, EnabledInPast
<1>4. EpochStart(now)' = EpochStart(now + 1)
  BY <1>1 DEF EpochStart, Epoch
<1> QED
  BY <1>1, <1>3, <1>4 DEF EnabledInPast

(* A removed entry has no timestamps, the others keep theirs.              *)
LEMMA EnabledAfterRemoval ==
    ASSUME LInv, NEW s, Contains(operatorAddresses, s), now' = now,
           operatorAddresses' = Unregister(operatorAddresses, s)
    PROVE  EnabledInPast'
<1> DEFINE new == Unregister(operatorAddresses, s)
<1>1. WellFormed(Signers, operatorAddresses) /\ s \in Signers
  BY InvariantParts DEF LInv, Parts, WellFormed, SetOf, Contains
<1>2. /\ \A b \in Signers : Contains(new, b) <=> (b # s /\ Contains(operatorAddresses, b))
      /\ \A b \in Signers \ {s} : new.status[b] = operatorAddresses.status[b]
  BY <1>1, UnregisterFacts
<1>3. new.status[s].enabled = 0
  BY <1>1 DEF Unregister, WellFormed, SetOf, ZeroStatus
<1>4. operatorAddresses' = new
  OBVIOUS
<1> HIDE DEF new
<1> QED
  BY <1>2, <1>3, <1>4, EnabledKept

(* Every step of the registry keeps EnabledInPast.                         *)
LEMMA EnabledStep ==
    ASSUME LInv, [Next]_vars
    PROVE  EnabledInPast'
<1>1. /\ Now \in Nat /\ Now = EpochStart(now)
      /\ PauseTime \in Nat \ {0}
      /\ WellFormed(Signers, operatorAddresses)
  BY NowFacts, InvariantParts DEF LInv, IInv, Parts, Now, getCurrentEpochStartTimestamp
<1>2. ASSUME NEW sender \in Middlewares, NEW s \in Signers, NEW rpc \in Rpcs,
             registerOperator(sender, s, rpc)
      PROVE  EnabledInPast'
  <2> DEFINE new == Register(operatorAddresses, Now, s)
  <2>1. CanRegister(operatorAddresses, s) /\ operatorAddresses' = new /\ now' = now
    BY <1>2 DEF registerOperator
  <2>2. /\ \A b \in Signers : Contains(new, b) <=> (b = s \/ Contains(operatorAddresses, b))
        /\ new.status[s] = [enabled |-> Now, disabled |-> 0]
        /\ \A b \in Signers \ {s} : new.status[b] = operatorAddresses.status[b]
    BY <1>1, <2>1, RegisterFacts
  <2> HIDE DEF new
  <2> QED
    BY <1>1, <2>1, <2>2, EnabledKept
<1>3. ASSUME NEW sender \in Middlewares, NEW s \in Signers, pauseOperator(sender, s)
      PROVE  EnabledInPast'
  <2> DEFINE new == Pause(operatorAddresses, PauseTime, s)
  <2>1. CanPause(operatorAddresses, s) /\ operatorAddresses' = new /\ now' = now
    BY <1>3 DEF pauseOperator
  <2>2. /\ \A b \in Signers : Contains(new, b) <=> Contains(operatorAddresses, b)
        /\ new.status[s] = [enabled |-> operatorAddresses.status[s].enabled,
                            disabled |-> PauseTime]
        /\ \A b \in Signers \ {s} : new.status[b] = operatorAddresses.status[b]
    BY <1>1, <2>1, PauseFacts
  <2> HIDE DEF new
  <2> QED
    BY <2>1, <2>2, EnabledKept
<1>4. ASSUME NEW sender \in Middlewares, NEW s \in Signers, unpauseOperator(sender, s)
      PROVE  EnabledInPast'
  <2> DEFINE new == Unpause(operatorAddresses, Now, s)
  <2>1. /\ CanUnpause(operatorAddresses, Now, EPOCH_DURATION, s)
        /\ Contains(operatorAddresses, s)
        /\ operatorAddresses' = new /\ now' = now
    BY <1>4 DEF unpauseOperator, CanUnpause, IsPaused
  <2>2. /\ \A b \in Signers : Contains(new, b) <=> Contains(operatorAddresses, b)
        /\ new.status[s] = [enabled |-> Now, disabled |-> 0]
        /\ \A b \in Signers \ {s} : new.status[b] = operatorAddresses.status[b]
    BY <1>1, <2>1, UnpauseFacts
  <2> HIDE DEF new
  <2> QED
    BY <1>1, <2>1, <2>2, EnabledKept
<1>5. ASSUME NEW sender \in Middlewares, NEW s \in Signers, deregisterOperator(sender, s)
      PROVE  EnabledInPast'
  BY <1>5, EnabledAfterRemoval DEF deregisterOperator, CanUnregister, IsPaused
<1>6. CASE CleanupIteration
  <2>1. CASE UNCHANGED <<now, operatorAddresses>>
    BY <2>1, EnabledKept
  <2> QED
    BY <1>6, <2>1, EnabledAfterRemoval
    DEF CleanupIteration, Expired, CanUnregister, IsPaused
<1>7. CASE Tick
  BY <1>7, EnabledTick
<1>8. CASE UNCHANGED <<now, operatorAddresses>>
  BY <1>8, EnabledKept
<1> QED
  BY <1>2, <1>3, <1>4, <1>5, <1>6, <1>7, <1>8
  DEF Next, Cleanup, CleanupBegin, CleanupEnd, updateOperatorRpcEndpoint,
      updateRestakingMiddleware, vars, registryVars

-------------------------------------------------------------------------------
(* One lemma per kind of step: what it does to the phases.                 *)

(* What a step is in the abstract registry; all steps but unpauseOperator  *)
(* are also steps of the one that has no way back.                         *)
Refined == [Lifecycle!Next]_(Lifecycle!lifecycleVars)

OneWayRefined == [Lifecycle!OneWayNext]_(Lifecycle!lifecycleVars)

(* registerOperator joins.                                                 *)
LEMMA RegisterRefined ==
    ASSUME LInv, IInv', NEW sender \in Middlewares, NEW s \in Signers, NEW rpc \in Rpcs,
           registerOperator(sender, s, rpc)
    PROVE  OneWayRefined
<1> DEFINE new == Register(operatorAddresses, Now, s)
<1>1. /\ Now \in Nat /\ Now = EpochStart(now)
      /\ WellFormed(Signers, operatorAddresses)
      /\ CanRegister(operatorAddresses, s)
  BY NowFacts, InvariantParts
  DEF LInv, IInv, Parts, registerOperator, Now, getCurrentEpochStartTimestamp
<1>2. /\ \A b \in Signers : Contains(new, b) <=> (b = s \/ Contains(operatorAddresses, b))
      /\ new.status[s] = [enabled |-> Now, disabled |-> 0]
      /\ \A b \in Signers \ {s} : new.status[b] = operatorAddresses.status[b]
  BY <1>1, RegisterFacts
<1>3. operatorAddresses' = new /\ now' = now /\ pausedAt' = pausedAt
  BY DEF registerOperator
<1> HIDE DEF new
<1>4. PhaseOf(s) = "absent"
  BY <1>1, PhaseMeaning DEF CanRegister, LInv, Meaning
<1>5. EpochStart(now') = EpochStart(now) /\ Now \in Nat
  BY <1>1, <1>3
<1>6. PhaseOf(s)' = "joining"
  <2>1. Meaning(s)'
    BY PhaseMeaningNext
  <2> QED
    BY <1>1, <1>2, <1>3, <1>5, <2>1 DEF Meaning
<1>7. PausedIn(s)' = 0
  BY <1>2, <1>3 DEF PausedIn, IsPaused
<1>8. Lifecycle!Move(s, "joining", 0)
  BY <1>2, <1>3, <1>6, <1>7, MoveOf
<1>9. Lifecycle!Join(s)
  BY <1>4, <1>8 DEF Lifecycle!Join
<1> QED
  BY <1>9 DEF OneWayRefined, Lifecycle!OneWayNext

(* pauseOperator pauses, in this epoch.                                    *)
LEMMA PauseRefined ==
    ASSUME LInv, IInv', NEW sender \in Middlewares, NEW s \in Signers,
           pauseOperator(sender, s)
    PROVE  OneWayRefined
<1> DEFINE new == Pause(operatorAddresses, PauseTime, s)
<1>1. /\ PauseTime \in Nat \ {0}
      /\ WellFormed(Signers, operatorAddresses)
      /\ CanPause(operatorAddresses, s)
      /\ now \in Nat /\ START_TIMESTAMP <= now
  BY NowFacts, InvariantParts DEF LInv, IInv, Parts, pauseOperator
<1>2. /\ \A b \in Signers : Contains(new, b) <=> Contains(operatorAddresses, b)
      /\ new.status[s] = [enabled |-> operatorAddresses.status[s].enabled,
                          disabled |-> PauseTime]
      /\ \A b \in Signers \ {s} : new.status[b] = operatorAddresses.status[b]
  BY <1>1, PauseFacts
<1>3. /\ operatorAddresses' = new /\ now' = now
      /\ pausedAt'[s] = now
      /\ \A b \in Signers \ {s} : pausedAt'[b] = pausedAt[b]
  BY InvariantParts DEF LInv, Parts, pauseOperator
<1> HIDE DEF new
<1>4. PhaseOf(s) \in {"joining", "active"}
  <2>1. Meaning(s) /\ EpochStart(now) \in Nat
    BY <1>1, PhaseMeaning, TickFacts DEF LInv
  <2>2. Contains(operatorAddresses, s) /\ operatorAddresses.status[s].disabled = 0
    BY <1>1 DEF CanPause
  <2>3. operatorAddresses.status[s].enabled \in Nat
    BY <2>1 DEF Meaning, Status
  <2>4. \/ operatorAddresses.status[s].enabled < EpochStart(now)
        \/ EpochStart(now) <= operatorAddresses.status[s].enabled
    BY <2>1, <2>3
  <2> QED
    BY <2>1, <2>2, <2>4 DEF Meaning
<1>5. Contains(new, s) /\ new.status[s].disabled = PauseTime
  BY <1>1, <1>2 DEF CanPause
<1>6. PhaseOf(s)' = "paused"
  <2>1. Meaning(s)'
    BY PhaseMeaningNext
  <2> QED
    BY <1>1, <1>3, <1>5, <2>1 DEF Meaning
<1>7. PausedIn(s)' = Epoch(now)
  <2>1. IsPaused(operatorAddresses, s)'
    BY <1>1, <1>3, <1>5 DEF IsPaused
  <2> QED
    BY <1>3, <2>1 DEF PausedIn, Epoch
<1>8. Lifecycle!Move(s, "paused", Epoch(now))
  BY <1>2, <1>3, <1>6, <1>7, MoveOf
<1>9. Lifecycle!Pause(s)
  BY <1>4, <1>8 DEF Lifecycle!Pause
<1> QED
  BY <1>9 DEF OneWayRefined, Lifecycle!OneWayNext

(* What may leave by the code may leave by the abstract registry.          *)
LEMMA ReleasedWhenExpired ==
    ASSUME LInv, NEW s \in Signers, MayLeave(s)
    PROVE  Lifecycle!Released(s)
<1>1. PhaseOf(s) = "paused"
  BY PhaseMeaning DEF LInv, Meaning, MayLeave, IsPaused
<1>2. PausedIn(s) < Epoch(now)
  BY DEF MayLeave, PausedIn
<1> QED
  BY <1>1, <1>2 DEF Lifecycle!Released

(* unpauseOperator is a return.                                            *)
LEMMA UnpauseRefined ==
    ASSUME LInv, IInv', EPOCH_DURATION > 1,
           NEW sender \in Middlewares, NEW s \in Signers,
           unpauseOperator(sender, s)
    PROVE  Refined
<1> DEFINE new == Unpause(operatorAddresses, Now, s)
<1>1. /\ Now \in Nat /\ Now = EpochStart(now)
      /\ WellFormed(Signers, operatorAddresses)
      /\ CanUnpause(operatorAddresses, Now, EPOCH_DURATION, s)
      /\ Contains(operatorAddresses, s)
  BY NowFacts, InvariantParts
  DEF LInv, IInv, Parts, unpauseOperator, Now, getCurrentEpochStartTimestamp,
      CanUnpause, IsPaused
<1>2. /\ \A b \in Signers : Contains(new, b) <=> Contains(operatorAddresses, b)
      /\ new.status[s] = [enabled |-> Now, disabled |-> 0]
      /\ \A b \in Signers \ {s} : new.status[b] = operatorAddresses.status[b]
  BY <1>1, UnpauseFacts
<1>3. /\ operatorAddresses' = new /\ now' = now
      /\ \A b \in Signers \ {s} : pausedAt'[b] = pausedAt[b]
  BY InvariantParts DEF LInv, Parts, unpauseOperator
<1> HIDE DEF new
<1>4. Lifecycle!Released(s)
  BY <1>1, ExpiredMayLeave, ReleasedWhenExpired DEF LInv
<1>5. EpochStart(now') = EpochStart(now)
  BY <1>3
<1>6. PhaseOf(s)' = "joining"
  <2>1. Meaning(s)'
    BY PhaseMeaningNext
  <2> QED
    BY <1>1, <1>2, <1>3, <1>5, <2>1 DEF Meaning
<1>7. PausedIn(s)' = 0
  BY <1>2, <1>3 DEF PausedIn, IsPaused
<1>8. Lifecycle!Move(s, "joining", 0)
  BY <1>2, <1>3, <1>6, <1>7, MoveOf
<1>9. Lifecycle!Return(s)
  BY <1>4, <1>8 DEF Lifecycle!Return
<1> QED
  BY <1>9 DEF Refined, Lifecycle!Next

(* A removal, by deregisterOperator or in cleanup(), is a departure.       *)
LEMMA RemovalRefined ==
    ASSUME LInv, IInv', NEW s \in Signers, MayLeave(s), now' = now,
           operatorAddresses' = Unregister(operatorAddresses, s),
           pausedAt' = [pausedAt EXCEPT ![s] = 0]
    PROVE  OneWayRefined
<1> DEFINE new == Unregister(operatorAddresses, s)
<1>1. WellFormed(Signers, operatorAddresses) /\ Contains(operatorAddresses, s)
  BY InvariantParts DEF LInv, Parts, MayLeave, IsPaused
<1>2. /\ \A b \in Signers : Contains(new, b) <=> (b # s /\ Contains(operatorAddresses, b))
      /\ \A b \in Signers \ {s} : new.status[b] = operatorAddresses.status[b]
  BY <1>1, UnregisterFacts
<1>3. new.status[s].enabled = 0
  BY <1>1 DEF Unregister, WellFormed, SetOf, ZeroStatus
<1>4. operatorAddresses' = new
  OBVIOUS
<1>5. \A b \in Signers \ {s} : pausedAt'[b] = pausedAt[b]
  BY InvariantParts DEF LInv, Parts
<1> HIDE DEF new
<1>6. PhaseOf(s)' = "absent"
  <2>1. Meaning(s)'
    BY PhaseMeaningNext
  <2> QED
    BY <1>2, <1>4, <2>1 DEF Meaning
<1>7. PausedIn(s)' = 0
  BY <1>2, <1>4 DEF PausedIn, IsPaused
<1>8. Lifecycle!Move(s, "absent", 0)
  BY <1>2, <1>4, <1>5, <1>6, <1>7, MoveOf
<1>9. Lifecycle!Leave(s)
  BY <1>8, ReleasedWhenExpired DEF Lifecycle!Leave
<1> QED
  BY <1>9 DEF OneWayRefined, Lifecycle!OneWayNext

(* A step that writes neither the clock nor the set is invisible.          *)
LEMMA InvisibleStep ==
    ASSUME LInv, UNCHANGED <<now, operatorAddresses, pausedAt>>
    PROVE  OneWayRefined
<1>1. \A s \in Signers : PhaseOf(s)' = PhaseOf(s) /\ PausedIn(s)' = PausedIn(s)
  BY PhaseKept
<1>2. UNCHANGED Lifecycle!lifecycleVars
  BY <1>1 DEF Lifecycle!lifecycleVars, Epoch
<1> QED
  BY <1>2 DEF OneWayRefined

(* A later block is invisible, or turns the epoch.                         *)
LEMMA TickRefined ==
    ASSUME LInv, IInv', Tick
    PROVE  OneWayRefined
<1>1. /\ now' = now + 1 /\ operatorAddresses' = operatorAddresses
      /\ pausedAt' = pausedAt /\ now \in Nat /\ START_TIMESTAMP <= now
  BY InvariantParts, TimeAssumption DEF LInv, Parts, Tick, registryVars
<1>2. /\ EpochStart(now)' = EpochStart(now + 1) /\ Epoch(now)' = Epoch(now + 1)
  BY <1>1 DEF EpochStart, Epoch
<1>3. /\ EpochStart(now) \in Nat /\ EpochStart(now + 1) \in Nat
      /\ EpochStart(now) <= EpochStart(now + 1)
  BY <1>1, TickFacts
<1>4. \A s \in Signers : /\ Meaning(s) /\ Meaning(s)'
                         /\ operatorAddresses.status[s].enabled \in Nat
                         /\ operatorAddresses.status[s].enabled <= EpochStart(now)
  BY PhaseMeaning, PhaseMeaningNext DEF LInv, EnabledInPast, Meaning, Status
<1>6. \A s \in Signers : PausedIn(s)' = PausedIn(s)
  BY <1>1 DEF PausedIn, Epoch
<1>7. \A s \in Signers :
        PhaseOf(s) \in Lifecycle!Phases /\ PhaseOf(s)' \in Lifecycle!Phases
  BY DEF PhaseOf, Lifecycle!Phases
<1>8. CASE Epoch(now + 1) = Epoch(now) /\ EpochStart(now + 1) = EpochStart(now)
  <2>1. \A s \in Signers : PhaseOf(s)' = PhaseOf(s)
    BY <1>1, <1>2, <1>4, <1>7, <1>8 DEF Meaning, Lifecycle!Phases
  <2>2. UNCHANGED Lifecycle!lifecycleVars
    BY <1>2, <1>6, <1>8, <2>1 DEF Lifecycle!lifecycleVars
  <2> QED
    BY <2>2 DEF OneWayRefined
<1>9. CASE Epoch(now + 1) = Epoch(now) + 1 /\ EpochStart(now) < EpochStart(now + 1)
  <2>1. ASSUME NEW s \in Signers
        PROVE  PhaseOf(s)' = IF PhaseOf(s) = "joining" THEN "active" ELSE PhaseOf(s)
    <3>1. /\ Contains(operatorAddresses, s)' <=> Contains(operatorAddresses, s)
          /\ operatorAddresses'.status[s] = operatorAddresses.status[s]
      BY <1>1
    <3>2. operatorAddresses.status[s].enabled < EpochStart(now + 1)
      BY <1>3, <1>4, <1>9
    <3> QED
      BY <1>2, <1>3, <1>4, <1>7, <3>1, <3>2 DEF Meaning, Lifecycle!Phases
  <2>2. Lifecycle!NextEpoch
    BY <1>2, <1>6, <1>9, <2>1 DEF Lifecycle!NextEpoch
  <2> QED
    BY <2>2 DEF OneWayRefined, Lifecycle!OneWayNext
<1> QED
  BY <1>1, <1>8, <1>9, TickFacts

(* One iteration of cleanup() is a departure or invisible.                 *)
LEMMA CleanupIterationRefined ==
    ASSUME LInv, IInv', EPOCH_DURATION > 1, CleanupIteration
    PROVE  OneWayRefined
<1> DEFINE s == operatorAddresses.order[sweep.i]
<1>1. CASE /\ Expired(s)
           /\ operatorAddresses' = Unregister(operatorAddresses, s)
           /\ pausedAt' = [pausedAt EXCEPT ![s] = 0]
           /\ now' = now
  <2>1. CanUnregister(operatorAddresses, Now, EPOCH_DURATION, s)
    BY <1>1 DEF Expired
  <2>2. Contains(operatorAddresses, s) /\ operatorAddresses.order \in Seq(Signers)
    BY <2>1, InvariantParts DEF LInv, Parts, CanUnregister, IsPaused, WellFormed, SetOf
  <2>3. s \in Signers
    BY <2>2 DEF Contains
  <2> QED
    BY <1>1, <2>1, <2>3, ExpiredMayLeave, RemovalRefined DEF LInv
<1>2. CASE UNCHANGED <<now, operatorAddresses, pausedAt>>
  BY <1>2, InvisibleStep
<1> QED
  BY <1>1, <1>2 DEF CleanupIteration

(* What can happen where no middleware passes unpauseOperator on.          *)
OneWayRegistryNext ==
    \/ \E sender \in Middlewares, s \in Signers, rpc \in Rpcs :
           \/ registerOperator(sender, s, rpc)
           \/ updateOperatorRpcEndpoint(sender, s, rpc)
    \/ \E sender \in Middlewares, s \in Signers :
           pauseOperator(sender, s) \/ deregisterOperator(sender, s)
    \/ Cleanup
    \/ \E p \in Protocols, m \in Middlewares : updateRestakingMiddleware(p, m)
    \/ Tick

(* Each of those steps is one of the abstract registry with no way back.   *)
LEMMA StepOneWayRefined ==
    ASSUME LInv, IInv', EPOCH_DURATION > 1, [OneWayRegistryNext]_vars
    PROVE  OneWayRefined
<1>1. ASSUME NEW sender \in Middlewares, NEW s \in Signers, NEW rpc \in Rpcs,
             \/ registerOperator(sender, s, rpc)
             \/ updateOperatorRpcEndpoint(sender, s, rpc)
      PROVE  OneWayRefined
  BY <1>1, RegisterRefined, InvisibleStep DEF updateOperatorRpcEndpoint
<1>2. ASSUME NEW sender \in Middlewares, NEW s \in Signers,
             pauseOperator(sender, s)
      PROVE  OneWayRefined
  BY <1>2, PauseRefined
<1>3. ASSUME NEW sender \in Middlewares, NEW s \in Signers,
             deregisterOperator(sender, s)
      PROVE  OneWayRefined
  BY <1>3, ExpiredMayLeave, RemovalRefined DEF deregisterOperator, LInv
<1>4. CASE Cleanup
  BY <1>4, CleanupIterationRefined, InvisibleStep DEF Cleanup, CleanupBegin, CleanupEnd
<1>5. CASE \/ \E p \in Protocols, m \in Middlewares : updateRestakingMiddleware(p, m)
           \/ UNCHANGED vars
  BY <1>5, InvisibleStep DEF updateRestakingMiddleware, vars, registryVars
<1>6. CASE Tick
  BY <1>6, TickRefined
<1> QED
  BY <1>1, <1>2, <1>3, <1>4, <1>5, <1>6 DEF OneWayRegistryNext

(* Every step of the registry is a step of the abstract one.               *)
LEMMA StepRefined ==
    ASSUME LInv, IInv', EPOCH_DURATION > 1, [Next]_vars
    PROVE  Refined
<1>1. CASE \E sender \in Middlewares, s \in Signers : unpauseOperator(sender, s)
  BY <1>1, UnpauseRefined
<1>2. CASE [OneWayRegistryNext]_vars
  BY <1>2, StepOneWayRefined DEF Refined, OneWayRefined, Lifecycle!Next
<1> QED
  BY <1>1, <1>2 DEF Next, OneWayRegistryNext

(* The empty registry is the empty abstract registry, at epoch 0.          *)
LEMMA InitRefined == Init => Lifecycle!Init /\ EnabledInPast
<1> SUFFICES ASSUME Init PROVE Lifecycle!Init /\ EnabledInPast
  OBVIOUS
<1>1. \A s \in Signers : ~Contains(operatorAddresses, s)
                         /\ operatorAddresses.status[s].enabled = 0
  BY EmptySetFacts DEF Init, EmptySet, ZeroStatus
<1>2. Epoch(now) = 0
  <2>1. now - START_TIMESTAMP = 0
    BY TimeAssumption DEF Init
  <2> QED
    BY <2>1, TimeAssumption DEF Epoch
<1>3. EpochStart(now) \in Nat
  BY TickFacts, TimeAssumption DEF Init
<1>4. \A s \in Signers : PhaseOf(s) = "absent" /\ PausedIn(s) = 0
  BY <1>1 DEF PhaseOf, PausedIn, isOperator, IsPaused
<1> QED
  BY <1>1, <1>2, <1>3, <1>4 DEF Lifecycle!Init, EnabledInPast

(* The registry implements its abstract specification: readers who know    *)
(* only the five moves of an operator know all there is to know, whatever  *)
(* the middlewares, the owner and the callers of cleanup() do.             *)
THEOREM RegistryImplementsLifecycle ==
    ASSUME EPOCH_DURATION > 1 PROVE Spec => ImplementsLifecycle
<1>1. Init => Lifecycle!Init /\ EnabledInPast
  BY InitRefined
<1>2. IInv /\ IInv' /\ EnabledInPast /\ [Next]_vars
        => [Lifecycle!Next]_(Lifecycle!lifecycleVars) /\ EnabledInPast'
  BY StepRefined, EnabledStep DEF LInv, Refined
<1> QED
  BY <1>1, <1>2, SpecInvariant, PTL DEF Spec, ImplementsLifecycle, Lifecycle!Spec
===============================================================================
