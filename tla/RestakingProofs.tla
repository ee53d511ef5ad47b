---------------------------- MODULE RestakingProofs ----------------------------
(***************************************************************************)
(* Theorems about the contracts as deployed, for any operators, vaults,    *)
(* strategies and managers: behind the middlewares the registry behaves as *)
(* OperatorsRegistry says, so that everything proved of it holds there,    *)
(* and less happens than it allows.  Then the whitelists.                  *)
(***************************************************************************)
EXTENDS Restaking, OperatorLifecycleProofs, FiniteSetTheorems, WellFoundedInduction

(* A step of the deployed contracts, seen from the registry: one that      *)
(* needs no unpauseOperator, or none at all.                               *)
LEMMA RestakingStep == [RestakingNext]_restakingVars => [OneWayRegistryNext]_vars
<1> SUFFICES ASSUME [RestakingNext]_restakingVars PROVE [OneWayRegistryNext]_vars
  OBVIOUS
<1>1. CASE SymbioticStep
  BY <1>1, SymbioticAssumption
  DEF SymbioticStep, SymbioticRegister, SymbioticUpdateRpc, SymbioticDeregister,
      whitelistVault, removeVault, pauseVault, unpauseVault, OneWayRegistryNext
<1>2. CASE EigenLayerStep
  <2>1. ASSUME NEW s \in Signers, NEW rpc \in Rpcs,
               registerOperatorToAVS(s, rpc) \/ EigenLayerUpdateRpc(s, rpc)
        PROVE  OneWayRegistryNext
    BY <2>1, EigenLayerAssumption
    DEF registerOperatorToAVS, EigenLayerUpdateRpc, OneWayRegistryNext
  <2>2. ASSUME NEW s \in Signers, deregisterOperatorFromAVS(s)
        PROVE  OneWayRegistryNext
    BY <2>2, EigenLayerAssumption DEF deregisterOperatorFromAVS, OneWayRegistryNext
  <2>3. ASSUME NEW m \in AllocationManagers, NEW s \in Signers, NEW rpc \in Rpcs,
               registerOperatorCallback(m, s, rpc)
        PROVE  OneWayRegistryNext
    BY <2>3, EigenLayerAssumption DEF registerOperatorCallback, OneWayRegistryNext
  <2>4. ASSUME NEW m \in AllocationManagers, NEW s \in Signers, NEW last \in BOOLEAN,
               deregisterOperatorCallback(m, s, last)
        PROVE  OneWayRegistryNext \/ UNCHANGED vars
    BY <2>4, EigenLayerAssumption DEF deregisterOperatorCallback, OneWayRegistryNext
  <2>5. ASSUME NEW m \in AllocationManagers, updateAllocationManagerAddress(m)
        PROVE  UNCHANGED vars
    BY <2>5 DEF updateAllocationManagerAddress
  <2>6. ASSUME NEW a \in Strategies,
               \/ whitelistStrategy(a) \/ pauseStrategy(a)
               \/ unpauseStrategy(a) \/ removeStrategy(a)
        PROVE  UNCHANGED vars
    BY <2>6 DEF whitelistStrategy, pauseStrategy, unpauseStrategy, removeStrategy
  <2> QED
    BY <1>2, <2>1, <2>2, <2>3, <2>4, <2>5, <2>6 DEF EigenLayerStep
<1>3. CASE RegistryStep
  BY <1>3 DEF RegistryStep, OneWayRegistryNext
<1>4. CASE UNCHANGED restakingVars
  BY <1>4 DEF restakingVars
<1> QED
  BY <1>1, <1>2, <1>3, <1>4 DEF RestakingNext

(* What a registry step without unpauseOperator is to the whole registry.  *)
LEMMA OneWayIsNext == [OneWayRegistryNext]_vars => [Next]_vars
BY DEF OneWayRegistryNext, Next

(* Composed with both middlewares, the registry is the OperatorsRegistry   *)
(* of which the theorems speak: each of them holds of the deployment.      *)
THEOREM DeploymentImplementsRegistry == RestakingSpec => Spec
<1>1. RestakingInit => Init
  BY DEF RestakingInit
<1> QED
  BY <1>1, RestakingStep, OneWayIsNext, PTL DEF RestakingSpec, Spec

(* Deployed, a paused operator comes back only by leaving and joining      *)
(* again, in a later epoch.                                                *)
THEOREM DeploymentIsOneWay ==
    ASSUME EPOCH_DURATION > 1 PROVE RestakingSpec => PausedComesBackOnlyByLeaving
<1>1. RestakingInit => Init
  BY DEF RestakingInit
<1>2. Init => Lifecycle!Init /\ EnabledInPast
  BY InitRefined
<1>3. IInv /\ IInv' /\ EnabledInPast /\ [OneWayRegistryNext]_vars
        => [Lifecycle!OneWayNext]_(Lifecycle!lifecycleVars) /\ EnabledInPast'
  BY StepOneWayRefined, EnabledStep, OneWayIsNext DEF LInv, OneWayRefined
<1> QED
  BY <1>1, <1>2, <1>3, RestakingStep, DeploymentImplementsRegistry, SpecInvariant, PTL
  DEF RestakingSpec, PausedComesBackOnlyByLeaving, Lifecycle!OneWaySpec

-------------------------------------------------------------------------------
(* The whitelists.  A whitelist is sound when it is a well formed set and  *)
(* every pause in it lies before the current epoch.                        *)
SoundWhitelist(S, set, start) ==
    /\ WellFormed(S, set)
    /\ \A a \in S : IsPaused(set, a) => set.status[a].disabled < start

(* What the owner can make of a whitelist in one transaction.              *)
WhitelistStep(S, set, new) ==
    \/ \E a \in S : CanRegister(set, a) /\ new = Register(set, Now, a)
    \/ \E a \in S : CanPause(set, a) /\ new = Pause(set, Now - 1, a)
    \/ \E a \in S : /\ CanUnpause(set, Now, EPOCH_DURATION, a)
                     /\ new = Unpause(set, Now, a)
    \/ \E a \in S : /\ CanUnregister(set, Now - 1, EPOCH_DURATION, a)
                     /\ new = Unregister(set, a)

(* Whatever the owner does, the whitelist stays sound.                     *)
LEMMA WhitelistStepSound ==
    ASSUME IInv, NEW S, NEW set, NEW new, SoundWhitelist(S, set, Now),
           WhitelistStep(S, set, new)
    PROVE  SoundWhitelist(S, new, Now)
<1>1. /\ Now \in Nat /\ Now > 1 /\ Now - 1 \in Nat
      /\ WellFormed(S, set)
  BY NowFacts DEF IInv, SoundWhitelist
<1>2. ASSUME NEW a \in S, CanRegister(set, a), new = Register(set, Now, a)
      PROVE  SoundWhitelist(S, new, Now)
  <2>1. /\ WellFormed(S, new)
        /\ \A b \in S : Contains(new, b) <=> (b = a \/ Contains(set, b))
        /\ new.status[a].disabled = 0
        /\ \A b \in S \ {a} : new.status[b] = set.status[b]
    <3>1. new.status[a] = [enabled |-> Now, disabled |-> 0]
      BY <1>1, <1>2, RegisterFacts
    <3> QED
      BY <1>1, <1>2, <3>1, RegisterFacts
  <2> QED
    BY <2>1 DEF SoundWhitelist, IsPaused
<1>3. ASSUME NEW a \in S, CanPause(set, a), new = Pause(set, Now - 1, a)
      PROVE  SoundWhitelist(S, new, Now)
  <2>1. /\ WellFormed(S, new)
        /\ \A b \in S : Contains(new, b) <=> Contains(set, b)
        /\ new.status[a].disabled = Now - 1
        /\ \A b \in S \ {a} : new.status[b] = set.status[b]
    <3>1. new.status[a] = [enabled |-> set.status[a].enabled, disabled |-> Now - 1]
      BY <1>1, <1>3, PauseFacts
    <3> QED
      BY <1>1, <1>3, <3>1, PauseFacts
  <2>2. new.status[a].disabled < Now
    BY <1>1, <2>1
  <2> QED
    BY <2>1, <2>2 DEF SoundWhitelist, IsPaused
<1>4. ASSUME NEW a \in S, CanUnpause(set, Now, EPOCH_DURATION, a),
             new = Unpause(set, Now, a)
      PROVE  SoundWhitelist(S, new, Now)
  <2>1. Contains(set, a)
    BY <1>4 DEF CanUnpause, IsPaused
  <2>2. /\ WellFormed(S, new)
        /\ \A b \in S : Contains(new, b) <=> Contains(set, b)
        /\ new.status[a].disabled = 0
        /\ \A b \in S \ {a} : new.status[b] = set.status[b]
    <3>1. new.status[a] = [enabled |-> Now, disabled |-> 0]
      BY <1>1, <1>4, <2>1, UnpauseFacts
    <3> QED
      BY <1>1, <1>4, <2>1, <3>1, UnpauseFacts
  <2> QED
    BY <2>2 DEF SoundWhitelist, IsPaused
<1>5. ASSUME NEW a \in S, CanUnregister(set, Now - 1, EPOCH_DURATION, a),
             new = Unregister(set, a)
      PROVE  SoundWhitelist(S, new, Now)
  <2>1. Contains(set, a)
    BY <1>5 DEF CanUnregister, IsPaused
  <2>2. /\ WellFormed(S, new)
        /\ \A b \in S : Contains(new, b) <=> (b # a /\ Contains(set, b))
        /\ \A b \in S \ {a} : new.status[b] = set.status[b]
    BY <1>1, <1>5, <2>1, UnregisterFacts
  <2> QED
    BY <2>2 DEF SoundWhitelist, IsPaused
<1> QED
  BY <1>2, <1>3, <1>4, <1>5 DEF WhitelistStep

(* A paused entry of a sound whitelist is inactive by both comparisons.    *)
LEMMA PausedInactiveInSound ==
    ASSUME NEW S, NEW set, NEW a \in S, Now \in Nat,
           SoundWhitelist(S, set, Now), IsPaused(set, a)
    PROVE  ~WasActiveAt(set, Now, a) /\ ~WasEnabledAt(set.status[a], Now)
<1>1. /\ set.status[a].disabled # 0 /\ set.status[a].disabled < Now
      /\ set.status[a].disabled \in Nat
  BY DEF SoundWhitelist, IsPaused, WellFormed, SetOf, Status
<1> QED
  BY <1>1 DEF WasActiveAt, WasEnabledAt

-------------------------------------------------------------------------------
(* The inductive invariant of the deployment.                              *)
RInv ==
    /\ LInv
    /\ now \in 0 .. MaxTime
    /\ SoundWhitelist(Vaults, vaultWhitelist, Now)
    /\ SoundWhitelist(Strategies, strategyWhitelist, Now)
    /\ avsOperators \subseteq EigenLayerOperators
    /\ allocationManager \in AllocationManagers
    /\ setOperators \in [AllocationManagers -> SUBSET EigenLayerOperators]

(* Nothing deployed yet.                                                   *)
LEMMA RestakingInitInvariant == RestakingInit => RInv
<1> SUFFICES ASSUME RestakingInit PROVE RInv
  OBVIOUS
<1>1. LInv
  BY InitInvariant, InitRefined DEF LInv, RestakingInit
<1>2. SoundWhitelist(Vaults, EmptySet(Vaults), Now)
      /\ SoundWhitelist(Strategies, EmptySet(Strategies), Now)
  BY EmptySetFacts DEF SoundWhitelist, IsPaused
<1>3. now \in 0 .. MaxTime
  BY TimeAssumption DEF RestakingInit, Init
<1> QED
  BY <1>1, <1>2, <1>3, EigenLayerAssumption DEF RInv, RestakingInit

(* Time moves the epoch forward only, and a pause stays behind it.         *)
LEMMA NowAdvances ==
    ASSUME IInv, IInv', [Next]_vars
    PROVE  Now \in Nat /\ Now' \in Nat /\ Now <= Now'
<1>1. /\ now \in Nat /\ now' \in Nat /\ START_TIMESTAMP <= now /\ now <= now'
  <2>1. now \in Nat /\ START_TIMESTAMP <= now
    BY TimeAssumption DEF IInv, TypeOK
  <2>2. now' = now \/ now' = now + 1
    BY OnlyTickMovesTime DEF vars
  <2> QED
    BY <2>1, <2>2
<1>2. Now' = EpochStart(now')
  BY DEF Now, getCurrentEpochStartTimestamp, EpochStart, Epoch
<1> QED
  BY <1>1, <1>2, EpochStartFacts DEF Now, getCurrentEpochStartTimestamp

(* A whitelist that nobody touches stays sound as time passes.             *)
LEMMA WhitelistAges ==
    ASSUME NEW S, NEW set, NEW t \in Nat, NEW u \in Nat, t <= u,
           SoundWhitelist(S, set, t)
    PROVE  SoundWhitelist(S, set, u)
<1>1. ASSUME NEW a \in S, IsPaused(set, a) PROVE set.status[a].disabled < u
  <2>1. set.status[a].disabled \in Nat /\ set.status[a].disabled < t
    BY <1>1 DEF SoundWhitelist, WellFormed, SetOf, Status
  <2> QED
    BY <2>1
<1> QED
  BY <1>1 DEF SoundWhitelist

(* The vaults change by the owner's four operations only, strategies too.  *)
LEMMA WhitelistsStepByStep ==
    ASSUME [RestakingNext]_restakingVars
    PROVE  /\ \/ vaultWhitelist' = vaultWhitelist
              \/ /\ WhitelistStep(Vaults, vaultWhitelist, vaultWhitelist')
                 /\ UNCHANGED vars
           /\ \/ strategyWhitelist' = strategyWhitelist
              \/ /\ WhitelistStep(Strategies, strategyWhitelist, strategyWhitelist')
                 /\ UNCHANGED vars
<1>1. CASE SymbioticStep /\ UNCHANGED eigenLayerVars
  <2>1. ASSUME NEW v \in Vaults,
               whitelistVault(v) \/ removeVault(v) \/ pauseVault(v) \/ unpauseVault(v)
        PROVE  WhitelistStep(Vaults, vaultWhitelist, vaultWhitelist') /\ UNCHANGED vars
    BY <2>1 DEF whitelistVault, removeVault, pauseVault, unpauseVault, WhitelistStep
  <2> QED
    BY <1>1, <2>1
    DEF SymbioticStep, SymbioticRegister, SymbioticUpdateRpc, SymbioticDeregister,
        eigenLayerVars
<1>2. CASE EigenLayerStep /\ UNCHANGED vaultWhitelist
  <2>1. ASSUME NEW a \in Strategies,
               \/ whitelistStrategy(a) \/ pauseStrategy(a)
               \/ unpauseStrategy(a) \/ removeStrategy(a)
        PROVE  /\ WhitelistStep(Strategies, strategyWhitelist, strategyWhitelist')
               /\ UNCHANGED vars
    BY <2>1
    DEF whitelistStrategy, pauseStrategy, unpauseStrategy, removeStrategy, WhitelistStep
  <2> QED
    BY <1>2, <2>1
    DEF EigenLayerStep, registerOperatorToAVS, EigenLayerUpdateRpc,
        deregisterOperatorFromAVS, registerOperatorCallback,
        deregisterOperatorCallback, updateAllocationManagerAddress, eigenLayerVars
<1>3. CASE UNCHANGED <<vaultWhitelist, eigenLayerVars>>
  BY <1>3 DEF eigenLayerVars
<1> QED
  BY <1>1, <1>2, <1>3 DEF RestakingNext, restakingVars

(* What EigenLayer records stays typed.                                    *)
LEMMA RecordsTyped ==
    ASSUME RInv, [RestakingNext]_restakingVars
    PROVE  /\ avsOperators' \subseteq EigenLayerOperators
           /\ allocationManager' \in AllocationManagers
           /\ setOperators' \in [AllocationManagers -> SUBSET EigenLayerOperators]
<1> USE DEF RInv
<1>1. CASE EigenLayerStep
  <2>1. ASSUME NEW m \in AllocationManagers, NEW s \in Signers,
               \/ \E rpc \in Rpcs : registerOperatorCallback(m, s, rpc)
               \/ \E last \in BOOLEAN : deregisterOperatorCallback(m, s, last)
        PROVE  /\ avsOperators' = avsOperators /\ allocationManager' = allocationManager
               /\ setOperators' \in [AllocationManagers -> SUBSET EigenLayerOperators]
    BY <2>1 DEF registerOperatorCallback, deregisterOperatorCallback
  <2>2. ASSUME NEW s \in Signers,
               \/ \E rpc \in Rpcs : registerOperatorToAVS(s, rpc)
               \/ deregisterOperatorFromAVS(s)
        PROVE  /\ avsOperators' \subseteq EigenLayerOperators
               /\ UNCHANGED <<allocationManager, setOperators>>
    BY <2>2 DEF registerOperatorToAVS, deregisterOperatorFromAVS
  <2>3. ASSUME NEW a \in Strategies,
               \/ whitelistStrategy(a) \/ pauseStrategy(a)
               \/ unpauseStrategy(a) \/ removeStrategy(a)
        PROVE  UNCHANGED <<avsOperators, allocationManager, setOperators>>
    BY <2>3 DEF whitelistStrategy, pauseStrategy, unpauseStrategy, removeStrategy
  <2>4. ASSUME NEW s \in Signers, NEW rpc \in Rpcs, EigenLayerUpdateRpc(s, rpc)
        PROVE  UNCHANGED <<avsOperators, allocationManager, setOperators>>
    BY <2>4 DEF EigenLayerUpdateRpc, eigenLayerVars
  <2>5. ASSUME NEW m \in AllocationManagers, updateAllocationManagerAddress(m)
        PROVE  /\ UNCHANGED <<avsOperators, setOperators>>
               /\ allocationManager' \in AllocationManagers
    BY <2>5 DEF updateAllocationManagerAddress
  <2> QED
    BY <1>1, <2>1, <2>2, <2>3, <2>4, <2>5 DEF EigenLayerStep
<1>2. CASE UNCHANGED eigenLayerVars
  BY <1>2 DEF eigenLayerVars
<1> QED
  BY <1>1, <1>2 DEF RestakingNext, restakingVars

(* The invariant of the deployment is inductive.                           *)
LEMMA RestakingInvariantStep ==
    ASSUME RInv, [RestakingNext]_restakingVars
    PROVE  RInv'
<1>1. [OneWayRegistryNext]_vars /\ [Next]_vars
  BY RestakingStep, OneWayIsNext
<1>2. IInv /\ IInv'
  BY <1>1, NextInvariant DEF RInv, LInv
<1>3. LInv'
  BY <1>1, <1>2, EnabledStep DEF RInv, LInv
<1>4. Now \in Nat /\ Now' \in Nat /\ Now <= Now'
  BY <1>1, <1>2, NowAdvances
<1>5. UNCHANGED vars => Now' = Now
  BY DEF vars, Now, getCurrentEpochStartTimestamp, EpochStart, Epoch
<1>6. SoundWhitelist(Vaults, vaultWhitelist', Now')
  <2>1. CASE vaultWhitelist' = vaultWhitelist
    BY <1>4, <2>1, WhitelistAges DEF RInv
  <2>2. CASE WhitelistStep(Vaults, vaultWhitelist, vaultWhitelist') /\ UNCHANGED vars
    <3>1. SoundWhitelist(Vaults, vaultWhitelist', Now)
      BY <1>2, <2>2, WhitelistStepSound DEF RInv
    <3> QED
      BY <1>5, <2>2, <3>1
  <2> QED
    BY <2>1, <2>2, WhitelistsStepByStep
<1>7. SoundWhitelist(Strategies, strategyWhitelist', Now')
  <2>1. CASE strategyWhitelist' = strategyWhitelist
    BY <1>4, <2>1, WhitelistAges DEF RInv
  <2>2. CASE WhitelistStep(Strategies, strategyWhitelist, strategyWhitelist') /\ UNCHANGED vars
    <3>1. SoundWhitelist(Strategies, strategyWhitelist', Now)
      BY <1>2, <2>2, WhitelistStepSound DEF RInv
    <3> QED
      BY <1>5, <2>2, <3>1
  <2> QED
    BY <2>1, <2>2, WhitelistsStepByStep
<1>8. now' \in 0 .. MaxTime
  <2>1. now' = now \/ (now < MaxTime /\ now' = now + 1)
    BY <1>1
    DEF Next, Cleanup, CleanupBegin, CleanupIteration, CleanupEnd, Tick,
        registerOperator, pauseOperator, unpauseOperator, deregisterOperator,
        updateOperatorRpcEndpoint, updateRestakingMiddleware, vars
  <2> QED
    BY <2>1, TimeAssumption DEF RInv
<1> QED
  BY <1>3, <1>6, <1>7, <1>8, RecordsTyped DEF RInv

(* It holds in every state of the deployment.                              *)
THEOREM DeploymentInvariant == RestakingSpec => []RInv
<1>1. RInv /\ [RestakingNext]_restakingVars => RInv'
  BY RestakingInvariantStep
<1> QED
  BY <1>1, RestakingInitInvariant, PTL DEF RestakingSpec

(* The deployment is well typed, with the whitelists of both middlewares   *)
(* and what EigenLayer records of operators.                               *)
THEOREM DeploymentTypeCorrect == RestakingSpec => []RestakingTypeOK
<1>1. RInv => RestakingTypeOK
  BY DEF RInv, LInv, IInv, RestakingTypeOK, SoundWhitelist, WellFormed, SetOf, Whitelist
<1> QED
  BY <1>1, DeploymentInvariant, PTL

(* A paused vault or strategy is inactive in all four views, from the      *)
(* epoch of its pause on.                                                  *)
THEOREM PausedEntriesStayInactive == RestakingSpec => []PausedEntriesAreInactive
<1>1. RInv => PausedEntriesAreInactive
  <2> SUFFICES ASSUME RInv PROVE PausedEntriesAreInactive
    OBVIOUS
  <2>1. Now \in Nat
    BY NowFacts DEF RInv, LInv, IInv
  <2>2. ASSUME NEW v \in Vaults, IsPaused(vaultWhitelist, v)
        PROVE  v \notin getActiveWhitelistedVaults /\ ~isVaultActive(v)
    BY <2>1, <2>2, PausedInactiveInSound
    DEF RInv, getActiveWhitelistedVaults, EnabledAt, isVaultActive
  <2>3. ASSUME NEW a \in Strategies, IsPaused(strategyWhitelist, a)
        PROVE  a \notin ActiveStrategiesAt(Now) /\ ~isStrategyActive(a)
    BY <2>1, <2>3, PausedInactiveInSound
    DEF RInv, ActiveStrategiesAt, WasEnabledAt, isStrategyActive
  <2> QED
    BY <2>2, <2>3 DEF PausedEntriesAreInactive
<1> QED
  BY <1>1, DeploymentInvariant, PTL

-------------------------------------------------------------------------------
(* An operator that cannot be paused is inactive already.                  *)
LEMMA CannotPauseInactive ==
    ASSUME LInv, NEW s \in Signers, ~CanPause(operatorAddresses, s)
    PROVE  ~isActiveOperator(s)
<1>1. CASE ~Contains(operatorAddresses, s)
  BY <1>1 DEF isActiveOperator, WasActiveAt
<1>2. CASE Contains(operatorAddresses, s)
  <2>1. IsPaused(operatorAddresses, s)
    BY <1>2 DEF LInv, EnabledInPast, CanPause, IsPaused
  <2>2. PhaseOf(s) = "paused"
    BY <2>1, PhaseMeaning DEF LInv, Meaning, IsPaused
  <2> QED
    BY <1>2, <2>2 DEF PhaseOf, isOperator
<1> QED
  BY <1>1, <1>2

(* One that a transaction pauses is inactive after it.                     *)
LEMMA PauseDeactivates ==
    ASSUME IInv, IInv', NEW sender, NEW s \in Signers, pauseOperator(sender, s)
    PROVE  ~isActiveOperator(s)'
<1> DEFINE new == Pause(operatorAddresses, PauseTime, s)
<1>1. /\ PauseTime \in Nat \ {0}
      /\ WellFormed(Signers, operatorAddresses)
      /\ CanPause(operatorAddresses, s)
  BY NowFacts, InvariantParts DEF IInv, Parts, pauseOperator
<1>2. /\ Contains(new, s)
      /\ new.status[s] = [enabled |-> operatorAddresses.status[s].enabled,
                          disabled |-> PauseTime]
  BY <1>1, PauseFacts DEF CanPause
<1>3. operatorAddresses' = new
  BY DEF pauseOperator
<1> HIDE DEF new
<1>4. PhaseOf(s)' = "paused"
  <2>1. Meaning(s)'
    BY PhaseMeaningNext
  <2> QED
    BY <1>1, <1>2, <1>3, <2>1 DEF Meaning
<1> QED
  BY <1>2, <1>3, <1>4 DEF PhaseOf, isOperator

(* Whoever leaves EigenLayer is inactive in the registry at once, as long  *)
(* as registry, middleware and manager know each other.                    *)
THEOREM LeavingDeactivates == RestakingSpec => LeavingEigenLayerDeactivates
<1>1. RInv /\ RInv' /\ [RestakingNext]_restakingVars =>
        \A s \in Signers :
           LeavesEigenLayer(s) /\ onlyMiddleware(EigenLayerAddress)
              => ~isActiveOperator(s)'
  <2> SUFFICES ASSUME RInv, RInv', [RestakingNext]_restakingVars, NEW s \in Signers,
                      LeavesEigenLayer(s), onlyMiddleware(EigenLayerAddress)
               PROVE  ~isActiveOperator(s)'
    OBVIOUS
  <2>1. EigenLayerStep
    BY DEF RestakingNext, restakingVars, eigenLayerVars, LeavesEigenLayer
  <2>2. CASE pauseOperator(EigenLayerAddress, s)
    BY <2>2, PauseDeactivates DEF RInv, LInv
  <2>3. CASE ~CanPause(operatorAddresses, s) /\ UNCHANGED vars
    <3>1. ~isActiveOperator(s)
      BY <2>3, CannotPauseInactive DEF RInv
    <3> QED
      BY <2>3, <3>1
      DEF isActiveOperator, WasActiveAt, Now, getCurrentEpochStartTimestamp,
          EpochStart, Epoch, vars, registryVars
  <2>4. ASSUME NEW b \in Signers, deregisterOperatorFromAVS(b)
        PROVE  pauseOperator(EigenLayerAddress, s)
    BY <2>4 DEF deregisterOperatorFromAVS, LeavesEigenLayer
  <2>5. ASSUME NEW m \in AllocationManagers, NEW b \in Signers, NEW last \in BOOLEAN,
               deregisterOperatorCallback(m, b, last)
        PROVE  \/ pauseOperator(EigenLayerAddress, s)
               \/ ~CanPause(operatorAddresses, s) /\ UNCHANGED vars
    <3>1. b = s /\ onlyAllocationManager(m)
      BY <2>5 DEF deregisterOperatorCallback, LeavesEigenLayer, RInv
    <3> QED
      BY <2>5, <3>1 DEF deregisterOperatorCallback, PauseReverts
  <2>6. ~ \/ \E b \in Signers, rpc \in Rpcs :
               registerOperatorToAVS(b, rpc) \/ EigenLayerUpdateRpc(b, rpc)
          \/ \E m \in AllocationManagers, b \in Signers, rpc \in Rpcs :
               registerOperatorCallback(m, b, rpc)
          \/ \E m \in AllocationManagers : updateAllocationManagerAddress(m)
          \/ \E a \in Strategies :
               \/ whitelistStrategy(a) \/ pauseStrategy(a)
               \/ unpauseStrategy(a) \/ removeStrategy(a)
    BY DEF LeavesEigenLayer, RInv, registerOperatorToAVS, EigenLayerUpdateRpc,
           registerOperatorCallback, updateAllocationManagerAddress, whitelistStrategy,
           pauseStrategy, unpauseStrategy, removeStrategy, eigenLayerVars
  <2> QED
    BY <2>1, <2>2, <2>3, <2>4, <2>5, <2>6 DEF EigenLayerStep
<1> QED
  BY <1>1, DeploymentInvariant, PTL DEF RestakingSpec, LeavingEigenLayerDeactivates

-------------------------------------------------------------------------------
(* Stake.  What a whitelist enumerates is what it contains.                *)
LEMMA EnumeratedIsContained ==
    ASSUME NEW set, NEW a
    PROVE  a \in {set.order[i] : i \in DOMAIN set.order} <=> Contains(set, a)
BY DEF Contains

(* The sum, over a set, of what each element weighs for s at some time.    *)
SumOf(w, s, at, S) == MapThenSumSet(LAMBDA x : w[x][s][at], S)

(* What counts for an operator's collaterals in a token.                   *)
VaultsOf(token) == {v \in getActiveWhitelistedVaults : VaultCollateral[v] = token}
StrategiesOf(token) == {a \in ActiveStrategiesAt(Now) : StrategyToken[a] = token}

CollateralsAreSums ==
    \A s \in Signers, token \in Tokens :
       /\ VaultCollaterals(s, token) = SumOf(VaultStake, s, now, VaultsOf(token))
       /\ StrategyCollaterals(s, token)
             = SumOf(StrategyStake, s, now, StrategiesOf(token))

(* The views add up what each vault and each strategy holds at present.    *)
LEMMA CollateralsSummed == CollateralsAreSums
BY DEF CollateralsAreSums, VaultCollaterals, StakeInVaults, stake,
       StrategyCollaterals, StakeInStrategies, SumOf, VaultsOf, StrategiesOf

(* So they do after any step.                                              *)
LEMMA CollateralsSummedNext == CollateralsAreSums'
BY CollateralsSummed, PTL

(* Of the owner's operations one takes an entry away, after its pause.     *)
LEMMA RemovalIsUnregister ==
    ASSUME IInv, NEW S, NEW set, NEW new, SoundWhitelist(S, set, Now),
           WhitelistStep(S, set, new),
           NEW v \in S, Contains(set, v), ~Contains(new, v)
    PROVE  IsPaused(set, v) /\ new = Unregister(set, v)
<1>1. WellFormed(S, set) /\ Now \in Nat /\ Now - 1 \in Nat
  BY NowFacts DEF SoundWhitelist, IInv
<1>2. PICK a \in S : CanUnregister(set, Now - 1, EPOCH_DURATION, a)
                     /\ new = Unregister(set, a)
  <2>1. ASSUME NEW b \in S, CanRegister(set, b), new = Register(set, Now, b)
        PROVE  FALSE
    BY <1>1, <2>1, RegisterFacts
  <2>2. ASSUME NEW b \in S, CanPause(set, b), new = Pause(set, Now - 1, b)
        PROVE  FALSE
    BY <1>1, <2>2, PauseFacts
  <2>3. ASSUME NEW b \in S, CanUnpause(set, Now, EPOCH_DURATION, b),
               new = Unpause(set, Now, b)
        PROVE  FALSE
    BY <1>1, <2>3, UnpauseFacts DEF CanUnpause, IsPaused
  <2> QED
    BY <2>1, <2>2, <2>3 DEF WhitelistStep
<1>3. IsPaused(set, a) /\ Contains(set, a)
  BY <1>2 DEF CanUnregister, IsPaused
<1>4. v = a
  BY <1>1, <1>2, <1>3, UnregisterFacts
<1> QED
  BY <1>2, <1>3, <1>4

(* What is enabled at a time after its pause, the removal leaves enabled.  *)
LEMMA RemovalKeepsEnabled ==
    ASSUME IInv, NEW S, NEW set, NEW new, SoundWhitelist(S, set, Now),
           WhitelistStep(S, set, new),
           NEW v \in S, Contains(set, v), ~Contains(new, v),
           NEW ts \in Nat, set.status[v].disabled < ts
    PROVE  EnabledAt(new, ts) = EnabledAt(set, ts)
<1>1. IsPaused(set, v) /\ new = Unregister(set, v) /\ WellFormed(S, set)
  BY RemovalIsUnregister DEF SoundWhitelist
<1>2. /\ WellFormed(S, new)
      /\ \A b \in S : Contains(new, b) <=> (b # v /\ Contains(set, b))
      /\ \A b \in S \ {v} : new.status[b] = set.status[b]
  BY <1>1, UnregisterFacts
<1>3. ~WasEnabledAt(set.status[v], ts)
  <2>1. set.status[v].disabled # 0 /\ set.status[v].disabled \in Nat
    BY <1>1 DEF IsPaused, WellFormed, SetOf, Status
  <2> QED
    BY <2>1 DEF WasEnabledAt
<1>4. ASSUME NEW b PROVE /\ Contains(set, b) => b \in S
                         /\ Contains(new, b) => b \in S
  BY <1>1, <1>2 DEF WellFormed, SetOf, Contains
<1>5. ASSUME NEW b PROVE b \in EnabledAt(new, ts) <=> b \in EnabledAt(set, ts)
  <2>1. b \in EnabledAt(new, ts) <=> Contains(new, b) /\ WasEnabledAt(new.status[b], ts)
    BY EnumeratedIsContained DEF EnabledAt
  <2>2. b \in EnabledAt(set, ts) <=> Contains(set, b) /\ WasEnabledAt(set.status[b], ts)
    BY EnumeratedIsContained DEF EnabledAt
  <2> QED
    BY <1>2, <1>3, <1>4, <2>1, <2>2
<1> QED
  BY <1>5

(* Removing a vault or a strategy changes no operator's collaterals.       *)
THEOREM RemovalKeepsAllCollaterals == RestakingSpec => RemovalKeepsCollaterals
<1> DEFINE Removed(S, set, new) == \E a \in S : Contains(set, a) /\ ~Contains(new, a)
<1>1. ASSUME RInv, NEW S, NEW set, NEW new, SoundWhitelist(S, set, Now),
             WhitelistStep(S, set, new), Removed(S, set, new)
      PROVE  EnabledAt(new, Now) = EnabledAt(set, Now)
  <2>1. IInv /\ Now \in Nat
    BY <1>1, NowFacts DEF RInv, LInv, IInv
  <2>2. PICK a \in S : Contains(set, a) /\ ~Contains(new, a)
    BY <1>1
  <2>3. set.status[a].disabled < Now
    BY <1>1, <2>1, <2>2, RemovalIsUnregister DEF SoundWhitelist
  <2> HIDE DEF Removed
  <2> QED
    BY <1>1, <2>1, <2>2, <2>3, RemovalKeepsEnabled
<1>2. ASSUME NEW set PROVE
        {a \in {set.order[i] : i \in DOMAIN set.order} :
            LET status == set.status[a] IN
              /\ status.enabled # 0 /\ status.enabled <= Now
              /\ status.disabled = 0 \/ status.disabled >= Now} = EnabledAt(set, Now)
  BY DEF EnabledAt, WasEnabledAt
<1>3. ActiveStrategiesAt(Now) = EnabledAt(strategyWhitelist, Now)
  BY <1>2 DEF ActiveStrategiesAt
<1>4. ASSUME RInv, [RestakingNext]_restakingVars,
             Removed(Vaults, vaultWhitelist, vaultWhitelist'),
             NEW s \in Signers, NEW token \in Tokens
      PROVE  VaultCollaterals(s, token)' = VaultCollaterals(s, token)
  <2>1. WhitelistStep(Vaults, vaultWhitelist, vaultWhitelist') /\ UNCHANGED vars
    BY <1>4, WhitelistsStepByStep
  <2>2. EnabledAt(vaultWhitelist', Now) = EnabledAt(vaultWhitelist, Now)
    BY <1>1, <1>4, <2>1 DEF RInv
  <2>3. Now' = Now /\ now' = now
    BY <2>1 DEF vars, Now, getCurrentEpochStartTimestamp, EpochStart, Epoch
  <2>4. getActiveWhitelistedVaults' = getActiveWhitelistedVaults
    BY <2>2, <2>3 DEF getActiveWhitelistedVaults
  <2>5. VaultsOf(token)' = VaultsOf(token)
    BY <2>4 DEF VaultsOf
  <2> QED
    BY <2>3, <2>5, CollateralsSummed, CollateralsSummedNext DEF CollateralsAreSums
<1>5. ASSUME RInv, [RestakingNext]_restakingVars,
             Removed(Strategies, strategyWhitelist, strategyWhitelist'),
             NEW s \in Signers, NEW token \in Tokens
      PROVE  StrategyCollaterals(s, token)' = StrategyCollaterals(s, token)
  <2>1. WhitelistStep(Strategies, strategyWhitelist, strategyWhitelist') /\ UNCHANGED vars
    BY <1>5, WhitelistsStepByStep
  <2>2. EnabledAt(strategyWhitelist', Now) = EnabledAt(strategyWhitelist, Now)
    BY <1>1, <1>5, <2>1 DEF RInv
  <2>3. Now' = Now /\ now' = now
    BY <2>1 DEF vars, Now, getCurrentEpochStartTimestamp, EpochStart, Epoch
  <2>4. ActiveStrategiesAt(Now)' = EnabledAt(strategyWhitelist', Now')
    BY DEF ActiveStrategiesAt, EnabledAt, WasEnabledAt
  <2>5. ActiveStrategiesAt(Now)' = ActiveStrategiesAt(Now)
    BY <1>3, <2>2, <2>3, <2>4
  <2>6. StrategiesOf(token)' = StrategiesOf(token)
    BY <2>5 DEF StrategiesOf
  <2> QED
    BY <2>3, <2>6, CollateralsSummed, CollateralsSummedNext DEF CollateralsAreSums
<1> HIDE DEF Removed
<1>6. RInv /\ [RestakingNext]_restakingVars =>
        \A s \in Signers, token \in Tokens :
          /\ Removed(Vaults, vaultWhitelist, vaultWhitelist')
               => VaultCollaterals(s, token)' = VaultCollaterals(s, token)
          /\ Removed(Strategies, strategyWhitelist, strategyWhitelist')
               => StrategyCollaterals(s, token)' = StrategyCollaterals(s, token)
  BY <1>4, <1>5
<1>7. RInv /\ [RestakingNext]_restakingVars =>
        \A s \in Signers, token \in Tokens :
         /\ (\E v \in Vaults : Contains(vaultWhitelist, v) /\ ~Contains(vaultWhitelist, v)')
              => VaultCollaterals(s, token)' = VaultCollaterals(s, token)
         /\ (\E a \in Strategies : Contains(strategyWhitelist, a) /\ ~Contains(strategyWhitelist, a)')
              => StrategyCollaterals(s, token)' = StrategyCollaterals(s, token)
  BY <1>6 DEF Removed
<1> QED
  BY <1>7, DeploymentInvariant, PTL DEF RestakingSpec, RemovalKeepsCollaterals

(* A set of naturals that is not empty has a least element.                *)
LEMMA LeastExists ==
    ASSUME NEW T, T \subseteq Nat, T # {}
    PROVE  \E x \in T : \A y \in T : x <= y
<1>1. PICK x \in T : \A y \in T : ~(<<y, x>> \in OpToRel(<, Nat))
  BY WFMin, NatLessThanWellFounded
<1>2. ASSUME NEW y \in T PROVE x <= y
  <2>1. x \in Nat /\ y \in Nat
    BY <1>1, <1>2
  <2>2. <<y, x>> \in OpToRel(<, Nat) <=> y < x
    BY <2>1 DEF OpToRel
  <2>3. ~(y < x)
    BY <1>1, <1>2, <2>2
  <2> QED
    BY <2>1, <2>3
<1> QED
  BY <1>1, <1>2

(* Min of the community modules finds it.                                   *)
LEMMA MinInSet ==
    ASSUME NEW T, T \subseteq Nat, T # {}
    PROVE  Min(T) \in T
BY LeastExists DEF Min

(* The positions that can decide an operator's stake at a timestamp.       *)
Hits(set, token, ts) ==
    {i \in DOMAIN set.order :
        /\ set.order[i] \in EnabledAt(set, ts)
        /\ VaultCollateral[set.order[i]] = token}

(* Stake depends on those positions and on the vaults at them only.        *)
LEMMA StakeFollowsHits ==
    ASSUME NEW set, NEW new, NEW s, NEW token, NEW ts,
           DOMAIN set.order \subseteq Nat,
           Hits(new, token, ts) = Hits(set, token, ts),
           \A i \in DOMAIN set.order : new.order[i] = set.order[i]
    PROVE  StakeAt(new, s, token, ts) = StakeAt(set, s, token, ts)
<1>1. CASE Hits(set, token, ts) = {}
  BY <1>1 DEF StakeAt, Hits
<1>2. CASE Hits(set, token, ts) # {}
  <2>1. Hits(set, token, ts) \subseteq Nat
    BY DEF Hits
  <2>2. Min(Hits(set, token, ts)) \in Hits(set, token, ts)
    BY <1>2, <2>1, MinInSet, Zenon
  <2>3. Min(Hits(set, token, ts)) \in DOMAIN set.order
    BY <2>2 DEF Hits
  <2>4. StakeAt(set, s, token, ts) = stakeAt(set.order[Min(Hits(set, token, ts))], s, ts)
    BY <1>2 DEF StakeAt, Hits
  <2>5. StakeAt(new, s, token, ts) = stakeAt(new.order[Min(Hits(new, token, ts))], s, ts)
    BY <1>2 DEF StakeAt, Hits
  <2> QED
    BY <2>3, <2>4, <2>5
<1> QED
  BY <1>1, <1>2

(* Whitelisting a vault and pausing one leave stake at earlier times as it *)
(* was.                                                                    *)
LEMMA PastStakeKept ==
    ASSUME IInv, NEW S, NEW set, NEW new, SoundWhitelist(S, set, Now),
           WhitelistStep(S, set, new),
           \A v \in S : Contains(set, v) =>
               Contains(new, v) /\ (IsPaused(set, v) => IsPaused(new, v)),
           NEW s, NEW token, NEW ts \in Nat, ts < Now
    PROVE  StakeAt(new, s, token, ts) = StakeAt(set, s, token, ts)
<1>1. /\ WellFormed(S, set) /\ Now \in Nat /\ Now - 1 \in Nat
      /\ set.order \in Seq(S) /\ set.status \in [S -> Status]
      /\ DOMAIN set.order = 1 .. Len(set.order) /\ Len(set.order) \in Nat
  BY NowFacts DEF SoundWhitelist, IInv, WellFormed, SetOf
<1>2. \A i \in DOMAIN set.order : set.order[i] \in S /\ Contains(set, set.order[i])
  BY <1>1 DEF Contains
<1>3. ASSUME NEW a \in S, CanRegister(set, a), new = Register(set, Now, a)
      PROVE  StakeAt(new, s, token, ts) = StakeAt(set, s, token, ts)
  <2>1. /\ new.order = Append(set.order, a)
        /\ new.status[a] = [enabled |-> Now, disabled |-> 0]
        /\ \A b \in S \ {a} : new.status[b] = set.status[b]
    BY <1>1, <1>3, RegisterFacts DEF Register
  <2>2. /\ DOMAIN new.order = 1 .. (Len(set.order) + 1)
        /\ \A i \in DOMAIN set.order : new.order[i] = set.order[i]
        /\ new.order[Len(set.order) + 1] = a
    BY <1>1, <2>1
  <2>3. a \notin EnabledAt(new, ts)
    <3>1. new.status[a].enabled = Now /\ ~(Now <= ts)
      BY <1>1, <2>1
    <3> QED
      BY <3>1 DEF EnabledAt, WasEnabledAt
  <2>4. ASSUME NEW i \in DOMAIN set.order
        PROVE  new.order[i] \in EnabledAt(new, ts) <=> set.order[i] \in EnabledAt(set, ts)
    <3>1. set.order[i] # a /\ set.order[i] \in S /\ i \in DOMAIN new.order
      BY <1>1, <1>2, <1>3, <2>2 DEF CanRegister
    <3>2. /\ new.order[i] = set.order[i]
          /\ new.status[set.order[i]] = set.status[set.order[i]]
      BY <2>1, <2>2, <3>1
    <3>3. set.order[i] \in {new.order[j] : j \in DOMAIN new.order}
      BY <3>1, <3>2
    <3> QED
      BY <3>2, <3>3 DEF EnabledAt
  <2>5. Hits(new, token, ts) = Hits(set, token, ts)
    BY <1>1, <2>2, <2>3, <2>4 DEF Hits
  <2>6. DOMAIN set.order \subseteq Nat
    BY <1>1
  <2> QED
    BY <2>2, <2>5, <2>6, StakeFollowsHits
<1>4. ASSUME NEW a \in S, CanPause(set, a), new = Pause(set, Now - 1, a)
      PROVE  StakeAt(new, s, token, ts) = StakeAt(set, s, token, ts)
  <2>1. /\ new.order = set.order
        /\ new.status[a] = [enabled |-> set.status[a].enabled, disabled |-> Now - 1]
        /\ \A b \in S \ {a} : new.status[b] = set.status[b]
    BY <1>1, <1>4, PauseFacts DEF Pause
  <2>2. set.status[a].disabled = 0
    BY <1>4 DEF CanPause
  <2>3. ASSUME NEW b \in S
        PROVE  WasEnabledAt(new.status[b], ts) <=> WasEnabledAt(set.status[b], ts)
    BY <1>1, <2>1, <2>2 DEF WasEnabledAt
  <2>4. EnabledAt(new, ts) = EnabledAt(set, ts)
    BY <1>2, <2>1, <2>3 DEF EnabledAt
  <2>5. Hits(new, token, ts) = Hits(set, token, ts)
    BY <2>1, <2>4 DEF Hits
  <2> QED
    BY <1>1, <2>1, <2>5, StakeFollowsHits
<1>5. ASSUME NEW a \in S, CanUnpause(set, Now, EPOCH_DURATION, a),
             new = Unpause(set, Now, a)
      PROVE  FALSE
  <2>1. IsPaused(set, a) /\ Contains(set, a)
    BY <1>5 DEF CanUnpause, IsPaused
  <2>2. new.status[a] = [enabled |-> Now, disabled |-> 0]
    BY <1>1, <1>5, <2>1, UnpauseFacts
  <2> QED
    BY <2>1, <2>2 DEF IsPaused
<1>6. ASSUME NEW a \in S, CanUnregister(set, Now - 1, EPOCH_DURATION, a),
             new = Unregister(set, a)
      PROVE  FALSE
  <2>1. Contains(set, a)
    BY <1>6 DEF CanUnregister, IsPaused
  <2> QED
    BY <1>1, <1>6, <2>1, UnregisterFacts
<1> QED
  BY <1>3, <1>4, <1>5, <1>6 DEF WhitelistStep

(* Stake at an earlier time is history.                                    *)
THEOREM PastStakeStaysFixed == RestakingSpec => PastStakeIsFixed
<1> DEFINE Kept == \A v \in Vaults : Contains(vaultWhitelist, v) =>
                      /\ Contains(vaultWhitelist, v)'
                      /\ IsPaused(vaultWhitelist, v) => IsPaused(vaultWhitelist, v)'
           Fixed == \A s \in Signers, token \in Tokens, ts \in START_TIMESTAMP .. Now - 1 :
                      getOperatorStakeAt(s, token, ts)' = getOperatorStakeAt(s, token, ts)
<1>1. RInv /\ [RestakingNext]_restakingVars => (Kept => Fixed)
  <2> SUFFICES ASSUME RInv, [RestakingNext]_restakingVars, Kept,
                      NEW s \in Signers, NEW token \in Tokens,
                      NEW ts \in START_TIMESTAMP .. Now - 1
               PROVE  getOperatorStakeAt(s, token, ts)' = getOperatorStakeAt(s, token, ts)
    OBVIOUS
  <2>1. ts \in Nat /\ ts < Now
    BY NowFacts, TimeAssumption DEF RInv, LInv, IInv
  <2>2. CASE vaultWhitelist' = vaultWhitelist
    BY <2>2 DEF getOperatorStakeAt
  <2>3. CASE WhitelistStep(Vaults, vaultWhitelist, vaultWhitelist')
    <3>1. \A v \in Vaults : Contains(vaultWhitelist, v) =>
             /\ Contains(vaultWhitelist', v)
             /\ IsPaused(vaultWhitelist, v) => IsPaused(vaultWhitelist', v)
      OBVIOUS
    <3>2. StakeAt(vaultWhitelist', s, token, ts) = StakeAt(vaultWhitelist, s, token, ts)
      BY <2>1, <2>3, <3>1, PastStakeKept DEF RInv, LInv
    <3> QED
      BY <3>2 DEF getOperatorStakeAt
  <2> QED
    BY <2>2, <2>3, WhitelistsStepByStep
<1> QED
  BY <1>1, DeploymentInvariant, PTL DEF RestakingSpec, PastStakeIsFixed

(* Where one enabled vault holds the token, its stake is the operator's,   *)
(* wherever it stands in the whitelist.                                    *)
LEMMA SoleHolderDecides ==
    ASSUME NEW S, NEW set, WellFormed(S, set), NEW s, NEW token, NEW ts,
           \A u, v \in EnabledAt(set, ts) :
               VaultCollateral[u] = token /\ VaultCollateral[v] = token => u = v
    PROVE  /\ \A v \in EnabledAt(set, ts) :
                 VaultCollateral[v] = token
                   => StakeAt(set, s, token, ts) = stakeAt(v, s, ts)
           /\ (~ \E v \in EnabledAt(set, ts) : VaultCollateral[v] = token)
                 => StakeAt(set, s, token, ts) = 0
<1> DEFINE hits == Hits(set, token, ts)
<1>1. hits \subseteq Nat
  BY DEF Hits, WellFormed, SetOf
<1>2. ASSUME NEW v \in EnabledAt(set, ts), VaultCollateral[v] = token
      PROVE  StakeAt(set, s, token, ts) = stakeAt(v, s, ts)
  <2>1. PICK i \in DOMAIN set.order : set.order[i] = v
    BY <1>2 DEF EnabledAt
  <2>2. i \in hits
    BY <1>2, <2>1 DEF Hits
  <2>3. Min(hits) \in hits
    <3> HIDE DEF hits
    <3> QED
      BY <1>1, <2>2, MinInSet
  <2>4. set.order[Min(hits)] = v
    BY <1>2, <2>3 DEF Hits
  <2>5. StakeAt(set, s, token, ts) = stakeAt(set.order[Min(hits)], s, ts)
    BY <2>2 DEF StakeAt, Hits
  <2> QED
    BY <2>4, <2>5
<1>3. ASSUME ~ \E v \in EnabledAt(set, ts) : VaultCollateral[v] = token
      PROVE  StakeAt(set, s, token, ts) = 0
  BY <1>3 DEF StakeAt
<1> QED
  BY <1>2, <1>3

(* Removing a vault reorders the whitelist, which changes an operator's    *)
(* stake only where several enabled vaults hold the token.                 *)
THEOREM RemovalKeepsSoleStake == RestakingSpec => RemovalKeepsStake
<1> DEFINE Kept(v) ==
             Contains(vaultWhitelist, v) /\ ~Contains(vaultWhitelist, v)' =>
               \A s \in Signers, token \in Tokens,
                  ts \in vaultWhitelist.status[v].disabled + 1 .. Now :
                 OneVaultHolds(token, ts) =>
                   getOperatorStakeAt(s, token, ts)' = getOperatorStakeAt(s, token, ts)
<1>1. RInv /\ [RestakingNext]_restakingVars => \A v \in Vaults : Kept(v)
  <2> SUFFICES ASSUME RInv, [RestakingNext]_restakingVars, NEW v \in Vaults,
                      Contains(vaultWhitelist, v), ~Contains(vaultWhitelist, v)',
                      NEW s \in Signers, NEW token \in Tokens,
                      NEW ts \in vaultWhitelist.status[v].disabled + 1 .. Now,
                      OneVaultHolds(token, ts)
               PROVE  getOperatorStakeAt(s, token, ts)' = getOperatorStakeAt(s, token, ts)
    OBVIOUS
  <2> DEFINE set == vaultWhitelist
             new == vaultWhitelist'
  <2>1. IInv /\ Now \in Nat /\ SoundWhitelist(Vaults, set, Now) /\ WellFormed(Vaults, set)
    BY NowFacts DEF RInv, LInv, IInv, SoundWhitelist
  <2>2. Contains(set, v) /\ ~Contains(new, v)
    BY DEF Contains
  <2>3. WhitelistStep(Vaults, set, new)
    BY <2>2, WhitelistsStepByStep
  <2>4. set.status[v].disabled \in Nat /\ ts \in Nat /\ set.status[v].disabled < ts
    BY <2>1 DEF WellFormed, SetOf, Status
  <2> HIDE DEF set, new
  <2>5. EnabledAt(new, ts) = EnabledAt(set, ts)
    BY <2>1, <2>2, <2>3, <2>4, RemovalKeepsEnabled
  <2>6. WellFormed(Vaults, new)
    BY <2>1, <2>2, <2>3, RemovalIsUnregister, UnregisterFacts
  <2>7. \A u, w \in EnabledAt(set, ts) :
            VaultCollateral[u] = token /\ VaultCollateral[w] = token => u = w
    BY DEF OneVaultHolds, set
  <2>8. StakeAt(new, s, token, ts) = StakeAt(set, s, token, ts)
    <3>1. CASE \E u \in EnabledAt(set, ts) : VaultCollateral[u] = token
      <4>1. PICK u \in EnabledAt(set, ts) : VaultCollateral[u] = token
        BY <3>1
      <4>2. StakeAt(set, s, token, ts) = stakeAt(u, s, ts)
        BY <2>1, <2>7, <4>1, SoleHolderDecides
      <4>3. StakeAt(new, s, token, ts) = stakeAt(u, s, ts)
        BY <2>5, <2>6, <2>7, <4>1, SoleHolderDecides
      <4> QED
        BY <4>2, <4>3
    <3>2. CASE ~ \E u \in EnabledAt(set, ts) : VaultCollateral[u] = token
      BY <2>1, <2>5, <2>6, <2>7, <3>2, SoleHolderDecides
    <3> QED
      BY <3>1, <3>2
  <2> QED
    BY <2>8 DEF getOperatorStakeAt, set, new
<1> QED
  BY <1>1, DeploymentInvariant, PTL DEF RestakingSpec, RemovalKeepsStake

-------------------------------------------------------------------------------
(* The order in which the fold of the community modules adds up a sum.     *)
Pick(t) == CHOOSE x \in t : TRUE
Sums(g, w, s, at, C) ==
    g = [t \in C |-> IF t = {} THEN 0 ELSE w[Pick(t)][s][at] + g[t \ {Pick(t)}]]
UpTo(S, n) == {t \in SUBSET S : Cardinality(t) <= n}

LEMMA SumIsFold ==
    ASSUME NEW w, NEW s, NEW at, NEW S
    PROVE  SumOf(w, s, at, S) = (CHOOSE g : Sums(g, w, s, at, SUBSET S))[S]
BY DEF SumOf, Sums, Pick, MapThenSumSet, MapThenFoldSet

(* Taking the picked element away makes a finite set one smaller.          *)
LEMMA PickRemoved ==
    ASSUME NEW t, IsFiniteSet(t), t # {}
    PROVE  /\ Pick(t) \in t
           /\ IsFiniteSet(t \ {Pick(t)})
           /\ Cardinality(t) \in Nat /\ Cardinality(t) > 0
           /\ Cardinality(t \ {Pick(t)}) = Cardinality(t) - 1
<1>1. Pick(t) \in t
  BY DEF Pick
<1>2. Cardinality(t) \in Nat /\ Cardinality(t) # 0
  BY FS_CardinalityType, FS_EmptySet
<1> QED
  BY <1>1, <1>2, FS_RemoveElement

(* The recursion of the fold has a solution on a finite set: on its        *)
(* subsets up to each size, by induction on the size.                      *)
LEMMA SumsExist ==
    ASSUME NEW w, NEW s, NEW at, NEW S, IsFiniteSet(S)
    PROVE  \E g : Sums(g, w, s, at, SUBSET S)
<1> DEFINE Bad == {n \in Nat : ~ \E g : Sums(g, w, s, at, UpTo(S, n))}
<1>1. ASSUME NEW t \in SUBSET S PROVE IsFiniteSet(t) /\ Cardinality(t) \in Nat
  BY FS_Subset, FS_CardinalityType
<1>2. Bad = {}
  <2> SUFFICES ASSUME Bad # {} PROVE FALSE
    OBVIOUS
  <2>1. PICK n \in Bad : \A m \in Bad : n <= m
    BY LeastExists
  <2>2. n \in Nat /\ ~ \E g : Sums(g, w, s, at, UpTo(S, n))
    BY <2>1
  <2>3. CASE n = 0
    <3> DEFINE g == [t \in UpTo(S, n) |-> 0]
    <3>1. ASSUME NEW t \in UpTo(S, n) PROVE t = {}
      BY <1>1, <2>3, FS_EmptySet DEF UpTo
    <3>2. Sums(g, w, s, at, UpTo(S, n))
      BY <3>1 DEF Sums
    <3> QED
      BY <2>2, <3>2
  <2>4. CASE n > 0
    <3>1. n - 1 \in Nat /\ n - 1 \notin Bad
      BY <2>1, <2>2, <2>4
    <3>2. PICK h : Sums(h, w, s, at, UpTo(S, n - 1))
      BY <3>1
    <3> DEFINE g == [t \in UpTo(S, n) |->
                       IF t = {} THEN 0 ELSE w[Pick(t)][s][at] + h[t \ {Pick(t)}]]
    <3>3. ASSUME NEW t \in UpTo(S, n - 1) PROVE t \in UpTo(S, n) /\ g[t] = h[t]
      <4>1. t \in UpTo(S, n)
        BY <1>1, <2>2 DEF UpTo
      <4>2. h[t] = IF t = {} THEN 0 ELSE w[Pick(t)][s][at] + h[t \ {Pick(t)}]
        BY <3>2 DEF Sums
      <4> QED
        BY <4>1, <4>2
    <3>4. ASSUME NEW t \in UpTo(S, n), t # {} PROVE t \ {Pick(t)} \in UpTo(S, n - 1)
      <4>1. t \in SUBSET S /\ Cardinality(t) <= n
        BY DEF UpTo
      <4> QED
        BY <1>1, <2>2, <3>4, <4>1, PickRemoved DEF UpTo
    <3>5. g = [t \in UpTo(S, n) |->
                 IF t = {} THEN 0 ELSE w[Pick(t)][s][at] + g[t \ {Pick(t)}]]
      <4> HIDE DEF g
      <4>1. ASSUME NEW t \in UpTo(S, n)
            PROVE  g[t] = IF t = {} THEN 0 ELSE w[Pick(t)][s][at] + g[t \ {Pick(t)}]
        BY <3>3, <3>4 DEF g
      <4>2. g = [t \in UpTo(S, n) |-> g[t]]
        BY DEF g
      <4> QED
        BY <4>1, <4>2
    <3> HIDE DEF g
    <3>6. Sums(g, w, s, at, UpTo(S, n))
      BY <3>5 DEF Sums
    <3> QED
      BY <2>2, <3>6
  <2> QED
    BY <2>2, <2>3, <2>4
<1>3. Cardinality(S) \in Nat /\ UpTo(S, Cardinality(S)) = SUBSET S
  BY FS_Subset, FS_CardinalityType DEF UpTo
<1>4. Cardinality(S) \notin Bad
  BY <1>2
<1>5. \E g : Sums(g, w, s, at, UpTo(S, Cardinality(S)))
  BY <1>3, <1>4
<1> QED
  BY <1>3, <1>5

(* A sum of naturals is a natural, and no less than any of its terms.      *)
LEMMA SumBoundsTerms ==
    ASSUME NEW w, NEW s, NEW at, NEW S, IsFiniteSet(S), \A x \in S : w[x][s][at] \in Nat
    PROVE  /\ SumOf(w, s, at, S) \in Nat
           /\ \A x \in S : w[x][s][at] <= SumOf(w, s, at, S)
<1> DEFINE g == CHOOSE h : Sums(h, w, s, at, SUBSET S)
           Good(t) == g[t] \in Nat /\ \A x \in t : w[x][s][at] <= g[t]
           Bad == {n \in Nat : \E t \in SUBSET S : Cardinality(t) = n /\ ~Good(t)}
<1>1. Sums(g, w, s, at, SUBSET S)
  BY SumsExist
<1> HIDE DEF g
<1>2. ASSUME NEW t \in SUBSET S
      PROVE  /\ g[t] = IF t = {} THEN 0 ELSE w[Pick(t)][s][at] + g[t \ {Pick(t)}]
             /\ IsFiniteSet(t) /\ Cardinality(t) \in Nat
  BY <1>1, FS_Subset, FS_CardinalityType DEF Sums
<1>3. Bad = {}
  <2> SUFFICES ASSUME Bad # {} PROVE FALSE
    OBVIOUS
  <2>1. PICK n \in Bad : \A m \in Bad : n <= m
    BY LeastExists
  <2>2. PICK t \in SUBSET S : Cardinality(t) = n /\ ~Good(t)
    BY <2>1
  <2>3. n \in Nat /\ \A v \in SUBSET S : Cardinality(v) \in Nat /\ Cardinality(v) < n => Good(v)
    <3>1. ASSUME NEW v \in SUBSET S, Cardinality(v) \in Nat, Cardinality(v) < n, ~Good(v)
          PROVE  FALSE
      <4>1. Cardinality(v) \in Bad
        BY <3>1
      <4>2. n \in Nat /\ n <= Cardinality(v)
        BY <2>1, <4>1
      <4> QED
        BY <3>1, <4>2
    <3> HIDE DEF Good
    <3> QED
      BY <2>1, <3>1
  <2>4. t # {}
    <3>1. g[{}] = 0
      BY <1>2
    <3>2. Good({})
      BY <3>1
    <3> HIDE DEF Good
    <3> QED
      BY <2>2, <3>2
  <2> DEFINE u == t \ {Pick(t)}
  <2>5. u \in SUBSET S /\ Pick(t) \in t /\ Good(u)
    <3>1. /\ u \in SUBSET S /\ Pick(t) \in t
          /\ Cardinality(u) \in Nat /\ Cardinality(u) < n
      <4>1. IsFiniteSet(t) /\ IsFiniteSet(u)
        BY <1>2
      <4> HIDE DEF Good
      <4> QED
        BY <2>2, <2>3, <2>4, <4>1, PickRemoved, FS_CardinalityType
    <3> HIDE DEF Good, u
    <3> QED
      BY <2>3, <3>1
  <2>6. g[t] = w[Pick(t)][s][at] + g[u] /\ w[Pick(t)][s][at] \in Nat
    BY <1>2, <2>4, <2>5
  <2> HIDE DEF u
  <2>7. ASSUME NEW x \in t PROVE w[x][s][at] <= g[t]
    <3>1. w[x][s][at] \in Nat /\ g[u] \in Nat
      BY <2>5
    <3>2. CASE x = Pick(t)
      BY <2>6, <3>1, <3>2
    <3>3. CASE x \in u
      <4>1. w[x][s][at] <= g[u]
        BY <2>5, <3>3
      <4> QED
        BY <2>6, <3>1, <4>1
    <3> QED
      BY <3>2, <3>3 DEF u
  <2> QED
    BY <2>2, <2>5, <2>6, <2>7
<1>4. Good(S)
  <2>1. Cardinality(S) \in Nat /\ Cardinality(S) \notin Bad
    BY <1>3, FS_CardinalityType
  <2> QED
    BY <2>1
<1>5. SumOf(w, s, at, S) = g[S]
  BY SumIsFold DEF g
<1> QED
  BY <1>4, <1>5

(* A sequence enumerates finitely many elements.                           *)
LEMMA EnumeratedFinite ==
    ASSUME NEW S, NEW seq \in Seq(S)
    PROVE  IsFiniteSet({seq[i] : i \in DOMAIN seq})
<1> DEFINE f == [i \in 1 .. Len(seq) |-> seq[i]]
<1>1. Len(seq) \in Nat /\ DOMAIN seq = 1 .. Len(seq)
  OBVIOUS
<1>2. f \in Surjection(1 .. Len(seq), {seq[i] : i \in DOMAIN seq})
  BY <1>1 DEF Surjection
<1>3. ExistsSurjection(1 .. Len(seq), {seq[i] : i \in DOMAIN seq})
  BY <1>2 DEF ExistsSurjection
<1> QED
  BY <1>1, <1>3, FS_NatSurjection

(* The epoch began at a time of the clock.                                 *)
LEMMA EpochStartIsPast ==
    ASSUME RInv
    PROVE  Now \in 0 .. MaxTime
<1>1. now \in Nat /\ START_TIMESTAMP <= now /\ now <= MaxTime
  BY TimeAssumption DEF RInv, LInv, IInv, TypeOK
<1>2. EpochStart(now) <= now
  <2> DEFINE d == now - START_TIMESTAMP
  <2>1. d \in Nat /\ now = START_TIMESTAMP + d
    BY <1>1, TimeAssumption
  <2>2. (d \div EPOCH_DURATION) * EPOCH_DURATION <= d
    BY <2>1, TimeAssumption
  <2> QED
    BY <2>1, <2>2, TimeAssumption DEF EpochStart, Epoch
<1>3. Now \in Nat
  BY NowFacts DEF RInv, LInv, IInv
<1> QED
  BY <1>1, <1>2, <1>3, TimeAssumption DEF Now, getCurrentEpochStartTimestamp

(* What one view says an operator has staked in a token, by what the first *)
(* vault with it held when the epoch began, exceeds what the other says it *)
(* has there, by what all vaults with it hold at present, only when one of *)
(* them lost stake in between.                                             *)
THEOREM StakeExceedsOnlyByLoss == RestakingSpec => []ExcessStakeWasLost
<1>1. ASSUME RInv, NEW s \in Signers, NEW token \in Tokens,
             getOperatorStakeAt(s, token, Now) > VaultCollaterals(s, token)
      PROVE  \E v \in getActiveWhitelistedVaults :
                VaultCollateral[v] = token /\ stake(v, s) < stakeAt(v, s, Now)
  <2> DEFINE Counted == {v \in getActiveWhitelistedVaults : VaultCollateral[v] = token}
             order   == vaultWhitelist.order
             hits    == Hits(vaultWhitelist, token, Now)
  <2>1. order \in Seq(Vaults) /\ DOMAIN order \subseteq Nat
    BY <1>1 DEF RInv, SoundWhitelist, WellFormed, SetOf
  <2>2. Counted \subseteq {order[i] : i \in DOMAIN order}
    BY DEF getActiveWhitelistedVaults, EnabledAt
  <2>3. IsFiniteSet(Counted)
    <3> HIDE DEF Counted
    <3>1. IsFiniteSet({order[i] : i \in DOMAIN order})
      BY <2>1, EnumeratedFinite
    <3>2. Counted \in SUBSET {order[i] : i \in DOMAIN order}
      BY <2>2
    <3> QED
      BY <3>1, <3>2, FS_Subset, Zenon
  <2>4. \A v \in Counted : stakeAt(v, s, Now) \in Nat /\ VaultStake[v][s][now] \in Nat
    <3>1. Counted \subseteq Vaults
      BY <2>1, <2>2
    <3>2. now \in 0 .. MaxTime /\ Now \in 0 .. MaxTime
      BY <1>1, EpochStartIsPast DEF RInv
    <3>3. ASSUME NEW v \in Counted
          PROVE  VaultStake[v][s] \in [0 .. MaxTime -> Nat]
      <4>1. VaultStake[v] \in [Signers -> [0 .. MaxTime -> Nat]]
        BY <3>1, SymbioticAssumption
      <4> QED
        BY <4>1
    <3> HIDE DEF Counted
    <3> QED
      BY <3>2, <3>3 DEF stakeAt
  <2>5. VaultCollaterals(s, token) = SumOf(VaultStake, s, now, Counted)
    BY DEF VaultCollaterals, StakeInVaults, stake, SumOf
  <2> HIDE DEF Counted
  <2>6. /\ VaultCollaterals(s, token) \in Nat
        /\ \A v \in Counted : VaultStake[v][s][now] <= VaultCollaterals(s, token)
    BY <2>3, <2>4, <2>5, SumBoundsTerms
  <2>7. hits # {}
    <3>1. hits = {} => getOperatorStakeAt(s, token, Now) = 0
      BY DEF getOperatorStakeAt, StakeAt, Hits
    <3> QED
      BY <1>1, <2>6, <3>1
  <2>8. Min(hits) \in hits
    <3>1. hits \subseteq Nat
      BY <2>1 DEF Hits
    <3> HIDE DEF hits
    <3> QED
      BY <2>7, <3>1, MinInSet
  <2> DEFINE v == order[Min(hits)]
  <2>9. v \in Counted /\ VaultCollateral[v] = token /\ v \in getActiveWhitelistedVaults
    BY <2>8 DEF Hits, Counted, getActiveWhitelistedVaults
  <2>10. getOperatorStakeAt(s, token, Now) = stakeAt(v, s, Now)
    BY <2>7 DEF getOperatorStakeAt, StakeAt, Hits
  <2> HIDE DEF v
  <2>11. stake(v, s) < stakeAt(v, s, Now)
    <3>1. /\ stake(v, s) \in Nat /\ stakeAt(v, s, Now) \in Nat
          /\ stake(v, s) <= VaultCollaterals(s, token)
      BY <2>4, <2>6, <2>9 DEF stake
    <3> QED
      BY <1>1, <2>6, <2>10, <3>1
  <2> QED
    BY <2>9, <2>11
<1>2. RInv => ExcessStakeWasLost
  BY <1>1 DEF ExcessStakeWasLost
<1> QED
  BY <1>2, DeploymentInvariant, PTL
===============================================================================
