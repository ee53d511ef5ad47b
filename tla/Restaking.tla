------------------------------- MODULE Restaking -------------------------------
(***************************************************************************)
(* The contracts as they are deployed: the OperatorsRegistry with both     *)
(* middlewares in front of it.  Every call of an operator goes through a   *)
(* middleware, so that unpauseOperator and deregisterOperator, which no    *)
(* middleware calls, never happen: an operator leaves by cleanup() alone.  *)
(***************************************************************************)
EXTENDS SymbioticMiddleware, EigenLayerMiddleware

restakingVars == <<vars, vaultWhitelist, eigenLayerVars>>

RestakingTypeOK ==
    /\ TypeOK
    /\ vaultWhitelist \in Whitelist(Vaults)
    /\ strategyWhitelist \in Whitelist(Strategies)
    /\ avsOperators \subseteq EigenLayerOperators
    /\ allocationManager \in AllocationManagers
    /\ setOperators \in [AllocationManagers -> SUBSET EigenLayerOperators]

RestakingInit ==
    /\ Init
    /\ vaultWhitelist = EmptySet(Vaults)
    /\ strategyWhitelist = EmptySet(Strategies)
    /\ avsOperators = {}
    /\ allocationManager = FirstManager
    /\ setOperators = [m \in AllocationManagers |-> {}]

(* What anyone, the registry's owner and time do.                          *)
RegistryStep ==
    \/ Cleanup
    \/ \E p \in Protocols, m \in Middlewares : updateRestakingMiddleware(p, m)
    \/ Tick

RestakingNext ==
    \/ SymbioticStep /\ UNCHANGED eigenLayerVars
    \/ EigenLayerStep /\ UNCHANGED vaultWhitelist
    \/ RegistryStep /\ UNCHANGED <<vaultWhitelist, eigenLayerVars>>

RestakingSpec == RestakingInit /\ [][RestakingNext]_restakingVars

-------------------------------------------------------------------------------
(* A paused vault or strategy counts nowhere from the epoch of its pause,  *)
(* in neither of the two views of each middleware, which are computed by   *)
(* different code with different comparisons.                              *)
PausedEntriesAreInactive ==
    /\ \A v \in Vaults : IsPaused(vaultWhitelist, v) =>
           v \notin getActiveWhitelistedVaults /\ ~isVaultActive(v)
    /\ \A a \in Strategies : IsPaused(strategyWhitelist, a) =>
           a \notin ActiveStrategiesAt(Now) /\ ~isStrategyActive(a)

(* Stake at an earlier time is history: whitelisting and pausing vaults    *)
(* changes none of it.  (Unpausing and removing do: they forget when the   *)
(* vault was enabled.)                                                     *)
PastStakeIsFixed ==
    [][(\A v \in Vaults : Contains(vaultWhitelist, v) =>
            /\ Contains(vaultWhitelist, v)'
            /\ IsPaused(vaultWhitelist, v) => IsPaused(vaultWhitelist, v)')
       => \A s \in Signers, token \in Tokens, ts \in START_TIMESTAMP .. Now - 1 :
             getOperatorStakeAt(s, token, ts)' = getOperatorStakeAt(s, token, ts)]_restakingVars

(* Removing a vault or a strategy changes no operator's collaterals, which *)
(* it stopped counting for when it was paused.                             *)
RemovalKeepsCollaterals ==
    [][\A s \in Signers, token \in Tokens :
         /\ (\E v \in Vaults : Contains(vaultWhitelist, v) /\ ~Contains(vaultWhitelist, v)')
              => VaultCollaterals(s, token)' = VaultCollaterals(s, token)
         /\ (\E a \in Strategies : Contains(strategyWhitelist, a) /\ ~Contains(strategyWhitelist, a)')
              => StrategyCollaterals(s, token)' = StrategyCollaterals(s, token)]_restakingVars

(* An operator that leaves EigenLayer, by itself or by a callback that may *)
(* fail unnoticed, is inactive in the registry at once, as long as the     *)
(* registry takes calls from this middleware, and the middleware from the  *)
(* manager that it leaves.                                                 *)
LeavesEigenLayer(s) ==
    \/ s \in avsOperators \ avsOperators'
    \/ \E m \in AllocationManagers :
           onlyAllocationManager(m) /\ s \in setOperators[m] \ setOperators'[m]

LeavingEigenLayerDeactivates ==
    [][\A s \in Signers :
         LeavesEigenLayer(s) /\ onlyMiddleware(EigenLayerAddress)
            => ~isActiveOperator(s)']_restakingVars

(* Deployed, the registry is a one-way machine: an operator that its       *)
(* middleware or a callback paused never comes back but by leaving and     *)
(* joining again, since no middleware passes unpauseOperator on, although  *)
(* the registry has it; a callback that fails, a pause by the other        *)
(* middleware and the replacement of a middleware change nothing in that.  *)
PausedComesBackOnlyByLeaving == Lifecycle!OneWaySpec

(* getOperatorStakeAt and getOperatorCollaterals look at the same vaults,  *)
(* one at what its first vault held when the epoch began, the other at     *)
(* what all hold at present.  When the stake of an operator nonetheless    *)
(* exceeds its collaterals, some active vault has lost stake of it within  *)
(* the epoch, by a withdrawal or a slash.                                  *)
ExcessStakeWasLost ==
    \A s \in Signers, token \in Tokens :
        getOperatorStakeAt(s, token, Now) > VaultCollaterals(s, token) =>
            \E v \in getActiveWhitelistedVaults :
                VaultCollateral[v] = token /\ stake(v, s) < stakeAt(v, s, Now)

(* The first enabled vault of a token decides an operator's stake, and     *)
(* removing a vault reorders the others.  The stake changes by that, at a  *)
(* time the removed vault no longer counted at, only where several enabled *)
(* vaults hold the token.                                                  *)
OneVaultHolds(token, ts) ==
    \A u, v \in EnabledAt(vaultWhitelist, ts) :
        VaultCollateral[u] = token /\ VaultCollateral[v] = token => u = v

RemovalKeepsStake ==
    [][\A v \in Vaults : Contains(vaultWhitelist, v) /\ ~Contains(vaultWhitelist, v)' =>
         \A s \in Signers, token \in Tokens, ts \in vaultWhitelist.status[v].disabled + 1 .. Now :
            OneVaultHolds(token, ts) =>
                getOperatorStakeAt(s, token, ts)' = getOperatorStakeAt(s, token, ts)]_restakingVars
===============================================================================
