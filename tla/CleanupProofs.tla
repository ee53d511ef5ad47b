----------------------------- MODULE CleanupProofs -----------------------------
(***************************************************************************)
(* cleanup() of OperatorsRegistry, for any number of operators: it may     *)
(* skip some that have expired, but never more than it removes.            *)
(***************************************************************************)
EXTENDS OperatorsRegistryProofs, FiniteSetTheorems

(* What the running sweep has removed, and what it has passed over.        *)
Removed == {s \in sweep.expired : ~isOperator(s)}

Skipped == {s \in sweep.expired :
               \E j \in DOMAIN operatorAddresses.order :
                   j < sweep.i /\ operatorAddresses.order[j] = s}

(* Nothing expires or recovers during the sweep, and each removal hides at *)
(* most one element from it: the one that takes the removed one's place.   *)
SweepInv ==
    sweep.running =>
        /\ sweep.i >= 1
        /\ IsFiniteSet(sweep.expired)
        /\ \A s \in Signers : Expired(s) <=> s \in sweep.expired /\ isOperator(s)
        /\ Cardinality(Skipped) <= Cardinality(Removed)

-------------------------------------------------------------------------------
(* The elements of an array are finitely many.                             *)
LEMMA ElementsFinite ==
    ASSUME NEW S, NEW seq \in Seq(S)
    PROVE  IsFiniteSet(Elements(seq))
<1> DEFINE f == [i \in 1 .. Len(seq) |-> seq[i]]
<1>1. Len(seq) \in Nat /\ DOMAIN seq = 1 .. Len(seq)
  OBVIOUS
<1>2. f \in Surjection(1 .. Len(seq), Elements(seq))
  BY <1>1 DEF Surjection, Elements
<1>3. ExistsSurjection(1 .. Len(seq), Elements(seq))
  BY <1>2 DEF ExistsSurjection
<1> QED
  BY <1>1, <1>3, FS_NatSurjection

(* The sets of the sweep are finite.                                       *)
LEMMA SweepSetsFinite ==
    ASSUME IsFiniteSet(sweep.expired)
    PROVE  /\ IsFiniteSet(Removed) /\ Cardinality(Removed) \in Nat
           /\ IsFiniteSet(Skipped) /\ Cardinality(Skipped) \in Nat
<1>1. Removed \in SUBSET sweep.expired /\ Skipped \in SUBSET sweep.expired
  BY DEF Removed, Skipped
<1> QED
  BY <1>1, FS_Subset, FS_CardinalityType

(* The array's properties, as far as the loop needs them.                  *)
LEMMA ArrayFacts ==
    ASSUME IInv
    PROVE  /\ operatorAddresses.order \in Seq(Signers)
           /\ Len(operatorAddresses.order) \in Nat
           /\ DOMAIN operatorAddresses.order = 1 .. Len(operatorAddresses.order)
           /\ Distinct(operatorAddresses.order)
           /\ WellFormed(Signers, operatorAddresses)
           /\ sweep \in [running : BOOLEAN, i : Nat, expired : SUBSET Signers]
<1>1. /\ WellFormed(Signers, operatorAddresses)
      /\ sweep \in [running : BOOLEAN, i : Nat, expired : SUBSET Signers]
  BY InvariantParts DEF Parts
<1>2. operatorAddresses.order \in Seq(Signers) /\ Distinct(operatorAddresses.order)
  BY <1>1 DEF WellFormed, SetOf
<1> QED
  BY <1>1, <1>2

-------------------------------------------------------------------------------
(* The sweep begins with everything that has expired, none of it skipped.  *)
LEMMA BeginKeepsSweep ==
    ASSUME IInv, CleanupBegin
    PROVE  SweepInv'
<1>1. /\ sweep'.i = 1 /\ sweep'.expired = {s \in Signers : Expired(s)}
      /\ UNCHANGED <<now, operatorAddresses>>
  BY DEF CleanupBegin
<1>2. {s \in Signers : Expired(s)} \in SUBSET Elements(operatorAddresses.order)
  BY DEF Expired, CanUnregister, IsPaused, Contains, Elements
<1>3. IsFiniteSet(sweep'.expired)
  BY <1>1, <1>2, ArrayFacts, ElementsFinite, FS_Subset
<1>4. \A s \in Signers : Expired(s)' <=> Expired(s)
  BY <1>1 DEF Expired, Now, getCurrentEpochStartTimestamp, EpochStart, Epoch
<1>5. \A s \in Signers : Expired(s) => isOperator(s)'
  BY <1>1 DEF Expired, CanUnregister, IsPaused, isOperator
<1>6. \A s \in Signers : Expired(s)' <=> s \in sweep'.expired /\ isOperator(s)'
  BY <1>1, <1>4, <1>5
<1>7. Skipped' = {}
  <2>1. \A j \in DOMAIN operatorAddresses.order : ~(j < 1)
    BY ArrayFacts
  <2> QED
    BY <1>1, <2>1 DEF Skipped
<1>8. Cardinality(Skipped') = 0
  BY <1>7, FS_EmptySet
<1>9. Removed' \in SUBSET sweep'.expired
  BY DEF Removed
<1>10. Cardinality(Removed') \in Nat
  BY <1>3, <1>9, FS_Subset, FS_CardinalityType
<1> QED
  BY <1>1, <1>3, <1>6, <1>8, <1>10 DEF SweepInv

(* An iteration that removes an element skips at most the last one.        *)
LEMMA RemovalKeepsSweep ==
    ASSUME IInv, SweepInv, CleanupIteration, Expired(operatorAddresses.order[sweep.i])
    PROVE  SweepInv'
<1> DEFINE order == operatorAddresses.order
           n == Len(order)
           s == order[sweep.i]
<1>1. /\ sweep.running /\ sweep.i <= n /\ now' = now
      /\ operatorAddresses' = Unregister(operatorAddresses, s)
      /\ sweep' = [sweep EXCEPT !.i = NextIndex(TRUE)]
  BY DEF CleanupIteration
<1>2. /\ sweep.i \in Nat /\ sweep.i >= 1 /\ n \in Nat /\ n >= 1
      /\ sweep.i \in DOMAIN order /\ DOMAIN order = 1 .. n
      /\ s \in Signers /\ n \in DOMAIN order
      /\ sweep.expired \subseteq Signers
  BY <1>1, ArrayFacts DEF SweepInv
<1>3. /\ sweep'.i = sweep.i + 1 /\ sweep'.expired = sweep.expired
      /\ sweep'.running = sweep.running
  BY <1>1, ArrayFacts DEF NextIndex
<1>4. /\ Contains(operatorAddresses, s) /\ s \in sweep.expired
      /\ IsFiniteSet(sweep.expired)
      /\ Cardinality(Skipped) <= Cardinality(Removed)
      /\ \A x \in Signers : Expired(x) <=> x \in sweep.expired /\ isOperator(x)
  BY <1>1, <1>2 DEF SweepInv, isOperator
<1>5. /\ \A x \in Signers : isOperator(x)' <=> (x # s /\ isOperator(x))
      /\ \A x \in Signers \ {s} : operatorAddresses'.status[x] = operatorAddresses.status[x]
  <2>1. WellFormed(Signers, operatorAddresses)
    BY ArrayFacts
  <2> DEFINE new == Unregister(operatorAddresses, s)
  <2>2. /\ \A x \in Signers : Contains(new, x) <=> (x # s /\ Contains(operatorAddresses, x))
        /\ \A x \in Signers \ {s} : new.status[x] = operatorAddresses.status[x]
    <3> HIDE DEF s
    <3> QED
      BY <1>2, <1>4, <2>1, UnregisterFacts
  <2> QED
    BY <1>1, <2>2 DEF isOperator
<1>6. \A x \in Signers : Expired(x)' <=> x # s /\ Expired(x)
  BY <1>1, <1>5
  DEF Expired, CanUnregister, IsPaused, PeriodPassed, isOperator, Now,
      getCurrentEpochStartTimestamp, EpochStart, Epoch
<1>7. \A x \in Signers : Expired(x)' <=> x \in sweep'.expired /\ isOperator(x)'
  BY <1>3, <1>4, <1>5, <1>6
<1>8. Removed' = Removed \cup {s} /\ s \notin Removed
  BY <1>2, <1>3, <1>4, <1>5 DEF Removed, isOperator
<1>9. Skipped' \in SUBSET (Skipped \cup {order[n]})
  <2> SUFFICES ASSUME NEW j \in DOMAIN operatorAddresses'.order, j < sweep'.i,
                      operatorAddresses'.order[j] \in sweep'.expired
               PROVE  operatorAddresses'.order[j] \in Skipped \cup {order[n]}
    BY DEF Skipped
  <2>1. operatorAddresses'.order =
          [k \in 1 .. n - 1 |-> IF order[k] = s THEN order[n] ELSE order[k]]
    BY <1>1 DEF Unregister, SwapPop
  <2>2. j \in 1 .. n - 1 /\ j \in DOMAIN order
    BY <1>2, <2>1
  <2>3. CASE j < sweep.i
    <3>1. order[j] # s
      BY <1>2, <2>2, <2>3, ArrayFacts DEF Distinct
    <3> QED
      BY <1>3, <2>1, <2>2, <2>3, <3>1 DEF Skipped
  <2>4. CASE j = sweep.i
    BY <2>1, <2>2, <2>4
  <2> QED
    BY <1>2, <1>3, <2>2, <2>3, <2>4
<1>10. /\ Cardinality(Skipped \cup {order[n]}) <= Cardinality(Skipped) + 1
       /\ Cardinality(Removed') = Cardinality(Removed) + 1
       /\ IsFiniteSet(Skipped \cup {order[n]})
       /\ Cardinality(Skipped) \in Nat /\ Cardinality(Removed) \in Nat
  <2>1. /\ IsFiniteSet(Removed) /\ Cardinality(Removed) \in Nat
        /\ IsFiniteSet(Skipped) /\ Cardinality(Skipped) \in Nat
    BY <1>4, SweepSetsFinite
  <2>2. Cardinality(Removed \cup {s}) = Cardinality(Removed) + 1
    BY <1>8, <2>1, FS_AddElement
  <2>3. /\ IsFiniteSet(Skipped \cup {order[n]})
        /\ Cardinality(Skipped \cup {order[n]}) =
             IF order[n] \in Skipped THEN Cardinality(Skipped) ELSE Cardinality(Skipped) + 1
    BY <2>1, FS_AddElement
  <2> QED
    BY <1>8, <2>1, <2>2, <2>3
<1>11. /\ Cardinality(Skipped') <= Cardinality(Skipped \cup {order[n]})
       /\ Cardinality(Skipped') \in Nat /\ Cardinality(Skipped \cup {order[n]}) \in Nat
  BY <1>9, <1>10, FS_Subset, FS_CardinalityType
<1>12. Cardinality(Skipped') <= Cardinality(Removed')
  BY <1>4, <1>10, <1>11
<1> QED
  BY <1>2, <1>3, <1>4, <1>7, <1>12 DEF SweepInv

(* One that removes nothing skips nothing: what it passes has not expired. *)
LEMMA PassKeepsSweep ==
    ASSUME IInv, SweepInv, CleanupIteration, ~Expired(operatorAddresses.order[sweep.i])
    PROVE  SweepInv'
<1> DEFINE order == operatorAddresses.order
<1>1. /\ sweep.running /\ sweep.i <= Len(order)
      /\ sweep' = [sweep EXCEPT !.i = NextIndex(FALSE)]
      /\ UNCHANGED <<now, operatorAddresses>>
  BY DEF CleanupIteration
<1>2. /\ sweep.i \in Nat /\ sweep.i >= 1 /\ sweep.i \in DOMAIN order
      /\ DOMAIN order = 1 .. Len(order) /\ Len(order) \in Nat
      /\ order[sweep.i] \in Signers
  BY <1>1, ArrayFacts DEF SweepInv
<1>3. /\ sweep'.i = sweep.i + 1 /\ sweep'.expired = sweep.expired
      /\ sweep'.running = sweep.running
  BY <1>1, ArrayFacts DEF NextIndex
<1>4. order[sweep.i] \notin sweep.expired
  BY <1>1, <1>2 DEF SweepInv, isOperator, Contains
<1>5. Skipped' = Skipped
  <2>1. \A j \in DOMAIN order : j < sweep.i + 1 <=> j < sweep.i \/ j = sweep.i
    BY <1>2
  <2> QED
    BY <1>1, <1>3, <1>4, <2>1 DEF Skipped
<1>6. Removed' = Removed
  BY <1>1, <1>3 DEF Removed, isOperator
<1>7. \A x \in Signers : Expired(x)' <=> Expired(x)
  BY <1>1 DEF Expired, Now, getCurrentEpochStartTimestamp, EpochStart, Epoch
<1>8. \A x \in Signers : isOperator(x)' <=> isOperator(x)
  BY <1>1 DEF isOperator
<1>9. \A x \in Signers : Expired(x)' <=> x \in sweep'.expired /\ isOperator(x)'
  BY <1>1, <1>3, <1>7, <1>8 DEF SweepInv
<1>10. Cardinality(Skipped) <= Cardinality(Removed) /\ IsFiniteSet(sweep.expired)
  BY <1>1 DEF SweepInv
<1>11. IsFiniteSet(sweep'.expired) /\ sweep'.i >= 1
  BY <1>2, <1>3, <1>10
<1>12. Cardinality(Skipped') <= Cardinality(Removed')
  BY <1>5, <1>6, <1>10
<1> QED
  BY <1>9, <1>11, <1>12 DEF SweepInv

(* No other step takes place while the sweep runs.                         *)
LEMMA SweepInvStep == IInv /\ SweepInv /\ [Next]_vars => SweepInv'
<1> SUFFICES ASSUME IInv, SweepInv, [Next]_vars PROVE SweepInv'
  OBVIOUS
<1>1. CASE CleanupBegin
  BY <1>1, BeginKeepsSweep
<1>2. CASE CleanupIteration
  BY <1>2, RemovalKeepsSweep, PassKeepsSweep
<1>3. CASE UNCHANGED vars
  <2>1. \A x \in Signers : (Expired(x)' <=> Expired(x)) /\ (isOperator(x)' <=> isOperator(x))
    BY <1>3 DEF vars, registryVars, Expired, isOperator, Now,
                getCurrentEpochStartTimestamp, EpochStart, Epoch
  <2>2. Skipped' = Skipped /\ Removed' = Removed /\ sweep' = sweep
    BY <1>3 DEF vars, registryVars, Skipped, Removed, isOperator
  <2> QED
    BY <2>1, <2>2 DEF SweepInv
<1>4. CASE ~(CleanupBegin \/ CleanupIteration) /\ Next
  <2>1. ~sweep'.running
    BY <1>4 DEF Next, Cleanup, CleanupEnd, NoSweep, Tick, registryVars, registerOperator,
                pauseOperator, unpauseOperator, deregisterOperator,
                updateOperatorRpcEndpoint, updateRestakingMiddleware
  <2> QED
    BY <2>1 DEF SweepInv
<1> QED
  BY <1>1, <1>2, <1>3, <1>4

(* Every call of cleanup() removes at least half of what had expired       *)
(* (CleanupHalvesExpired), whatever the order of the array: finitely many  *)
(* calls remove all of it, although one may not.                           *)
THEOREM CleanupRemovesHalf == Spec => CleanupHalvesExpired
<1>1. Init => SweepInv
  BY DEF Init, NoSweep, SweepInv
<1>2. IInv /\ SweepInv /\ [Next]_vars =>
        [sweep.running /\ ~sweep'.running =>
           2 * Cardinality({s \in sweep.expired : isOperator(s)})
              <= Cardinality(sweep.expired)]_vars
  <2> SUFFICES ASSUME IInv, SweepInv, Next, sweep.running, ~sweep'.running
               PROVE  2 * Cardinality({s \in sweep.expired : isOperator(s)})
                        <= Cardinality(sweep.expired)
    OBVIOUS
  <2> DEFINE E == sweep.expired
             Left == {s \in E : isOperator(s)}
  <2>1. CleanupEnd
    BY ArrayFacts
    DEF Next, Cleanup, CleanupBegin, CleanupIteration, Tick, registryVars, registerOperator,
        pauseOperator, unpauseOperator, deregisterOperator,
        updateOperatorRpcEndpoint, updateRestakingMiddleware
  <2>2. \A j \in DOMAIN operatorAddresses.order : j < sweep.i
    BY <2>1, ArrayFacts DEF CleanupEnd
  <2>3. Left \in SUBSET Skipped
    BY <2>2 DEF Skipped, isOperator, Contains
  <2>4. IsFiniteSet(E) /\ Cardinality(Skipped) <= Cardinality(Removed)
    BY DEF SweepInv
  <2>5. /\ Cardinality(Left) <= Cardinality(Skipped) /\ Cardinality(Left) \in Nat
        /\ Cardinality(Skipped) \in Nat /\ Cardinality(Removed) \in Nat
    BY <2>3, <2>4, SweepSetsFinite, FS_Subset, FS_CardinalityType
  <2>6. Removed = E \ Left /\ E \cap Left = Left
    BY DEF Removed
  <2>7. Cardinality(Removed) = Cardinality(E) - Cardinality(Left) /\ Cardinality(E) \in Nat
    BY <2>4, <2>6, FS_Difference, FS_CardinalityType
  <2> QED
    BY <2>4, <2>5, <2>7
<1> QED
  BY <1>1, <1>2, SpecInvariant, SweepInvStep, PTL DEF Spec, CleanupHalvesExpired
===============================================================================
