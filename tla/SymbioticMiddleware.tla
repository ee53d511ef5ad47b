-------------------------- MODULE SymbioticMiddleware --------------------------
(***************************************************************************)
(* SymbioticMiddlewareV1: the entry points through which operators of      *)
(* Symbiotic use the OperatorsRegistry, the whitelist of vaults, and the   *)
(* views that turn it into stake.                                          *)
(***************************************************************************)
EXTENDS OperatorsRegistry, FiniteSetsExt

CONSTANTS
    SymbioticAddress,   \* the contract, one of the Middlewares
    SymbioticOperators, \* entities of Symbiotic opted in to the network
    Vaults,
    ValidVaults,        \* entities of the vault registry, and initialized
    VaultCollateral,    \* the token a vault holds
    VaultStake,         \* what an operator has in it, at each time, as its
                        \* delegator knows: it grows with delegations and
                        \* drops with withdrawals and slashes
    Tokens

ASSUME SymbioticAssumption ==
    /\ SymbioticAddress \in Middlewares
    /\ SymbioticOperators \subseteq Signers \ {ZeroAddress}
    /\ ValidVaults \subseteq Vaults
    /\ VaultCollateral \in [Vaults -> Tokens]
    /\ VaultStake \in [Vaults -> [Signers -> [0 .. MaxTime -> Nat]]]

VARIABLE vaultWhitelist \* _vaultWhitelist, a PauseableSet

Whitelist(Entries) == [order : Seq(Entries), status : [Entries -> Status]]

(* _wasEnabledAt, the same in the registry and in both middlewares: unlike *)
(* WasActiveAt, an element counts from the timestamp it was enabled at.    *)
WasEnabledAt(status, ts) ==
    /\ status.enabled # 0 /\ status.enabled <= ts
    /\ status.disabled = 0 \/ status.disabled >= ts

EnabledAt(set, ts) == {a \in {set.order[i] : i \in DOMAIN set.order} :
                          WasEnabledAt(set.status[a], ts)}

-------------------------------------------------------------------------------
(* Views                                                                   *)

getActiveWhitelistedVaults == EnabledAt(vaultWhitelist, Now)

isVaultActive(v) == WasActiveAt(vaultWhitelist, Now, v)

(* The two questions asked of a vault's delegator: the stake at a time that *)
(* has passed, and the stake at present.                                   *)
stakeAt(v, s, ts) == VaultStake[v][s][ts]

stake(v, s) == VaultStake[v][s][now]

(* What an operator has, at present, in some of the vaults, in one token.  *)
StakeInVaults(vs, s, token) ==
    MapThenSumSet(LAMBDA v : stake(v, s),
                  {v \in vs : VaultCollateral[v] = token})

(* getOperatorCollaterals, added up for one token.                         *)
VaultCollaterals(s, token) ==
    StakeInVaults(getActiveWhitelistedVaults, s, token)

-------------------------------------------------------------------------------
(* Plausible bugs, one operator each.                                      *)
Mut_removeVault(v) ==
    /\ ~sweep.running
    /\ Contains(vaultWhitelist, v)
    /\ vaultWhitelist' = Unregister(vaultWhitelist, v)
    /\ UNCHANGED vars

Mut_StakeAt(set, s, token, ts) ==
    LET hits == {i \in DOMAIN set.order : VaultCollateral[set.order[i]] = token}
    IN  IF hits = {} THEN 0 ELSE stakeAt(set.order[Min(hits)], s, ts)

Mut_pauseVault(v) ==
    /\ ~sweep.running
    /\ CanPause(vaultWhitelist, v)
    /\ vaultWhitelist' = Pause(vaultWhitelist, Now - EPOCH_DURATION - 1, v)
    /\ UNCHANGED vars

-------------------------------------------------------------------------------
(* The first enabled vault, in the order of the whitelist, that holds the  *)
(* collateral decides, by its stake at that time.                          *)
StakeAt(set, s, token, ts) ==
    LET hits == {i \in DOMAIN set.order :
                    /\ set.order[i] \in EnabledAt(set, ts)
                    /\ VaultCollateral[set.order[i]] = token}
    IN  IF hits = {} THEN 0 ELSE stakeAt(set.order[Min(hits)], s, ts)

getOperatorStakeAt(s, token, ts) == StakeAt(vaultWhitelist, s, token, ts)

-------------------------------------------------------------------------------
(* Operators, each in its own name                                         *)

SymbioticRegister(s, rpc) ==
    /\ s \in SymbioticOperators
    /\ registerOperator(SymbioticAddress, s, rpc)
    /\ UNCHANGED vaultWhitelist

(* deregisterOperator() only pauses, and asks nothing of the caller.       *)
SymbioticDeregister(s) ==
    /\ s # ZeroAddress
    /\ pauseOperator(SymbioticAddress, s)
    /\ UNCHANGED vaultWhitelist

SymbioticUpdateRpc(s, rpc) ==
    /\ s # ZeroAddress
    /\ updateOperatorRpcEndpoint(SymbioticAddress, s, rpc)
    /\ UNCHANGED vaultWhitelist

-------------------------------------------------------------------------------
(* The owner                                                               *)

whitelistVault(v) ==
    /\ ~sweep.running
    /\ v \in ValidVaults
    /\ CanRegister(vaultWhitelist, v)
    /\ vaultWhitelist' = Register(vaultWhitelist, Now, v)
    /\ UNCHANGED vars

removeVault(v) ==
    /\ ~sweep.running
    /\ CanUnregister(vaultWhitelist, Now - 1, EPOCH_DURATION, v)
    /\ vaultWhitelist' = Unregister(vaultWhitelist, v)
    /\ UNCHANGED vars

pauseVault(v) ==
    /\ ~sweep.running
    /\ CanPause(vaultWhitelist, v)
    /\ vaultWhitelist' = Pause(vaultWhitelist, Now - 1, v)
    /\ UNCHANGED vars

unpauseVault(v) ==
    /\ ~sweep.running
    /\ CanUnpause(vaultWhitelist, Now, EPOCH_DURATION, v)
    /\ vaultWhitelist' = Unpause(vaultWhitelist, Now, v)
    /\ UNCHANGED vars

SymbioticStep ==
    \/ \E s \in Signers, rpc \in Rpcs :
           SymbioticRegister(s, rpc) \/ SymbioticUpdateRpc(s, rpc)
    \/ \E s \in Signers : SymbioticDeregister(s)
    \/ \E v \in Vaults :
           whitelistVault(v) \/ removeVault(v) \/ pauseVault(v) \/ unpauseVault(v)
===============================================================================
