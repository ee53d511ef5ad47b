------------------------- MODULE EigenLayerMiddleware -------------------------
(***************************************************************************)
(* EigenLayerMiddlewareV3: the entry points through which operators of     *)
(* EigenLayer use the OperatorsRegistry, by themselves (AVS directory) or  *)
(* by callbacks of the AllocationManager, and the whitelist of strategies  *)
(* with its stake views.                                                   *)
(*                                                                         *)
(* EigenLayer's own records, of who is registered to this AVS, are         *)
(* external: they are kept as far as the middleware's calls depend on them *)
(* or are caused by them.                                                  *)
(***************************************************************************)
EXTENDS OperatorsRegistry, FiniteSetsExt

CONSTANTS
    EigenLayerAddress,   \* the contract, one of the Middlewares
    EigenLayerOperators, \* operators of the DelegationManager
    AllocationManagers,  \* deployments of EigenLayer's AllocationManager
    FirstManager,        \* the one the middleware is initialized with
    Strategies,
    StrategyToken,       \* the underlying token of a strategy
    StrategyStake        \* an operator's shares in it, in that token, at
                         \* each time

ASSUME EigenLayerAssumption ==
    /\ EigenLayerAddress \in Middlewares
    /\ EigenLayerOperators \subseteq Signers \ {ZeroAddress}
    /\ FirstManager \in AllocationManagers
    /\ StrategyStake \in [Strategies -> [Signers -> [0 .. MaxTime -> Nat]]]

VARIABLES
    strategyWhitelist, \* _strategyWhitelist, a PauseableSet
    avsOperators,      \* operators registered in the AVSDirectory
    allocationManager, \* ALLOCATION_MANAGER
    setOperators       \* by manager, operators registered to any operator set

eigenLayerVars == <<strategyWhitelist, avsOperators, allocationManager, setOperators>>

(* _getActiveStrategiesAt                                                  *)
ActiveStrategiesAt(ts) ==
    {a \in {strategyWhitelist.order[i] : i \in DOMAIN strategyWhitelist.order} :
        LET status == strategyWhitelist.status[a] IN
          /\ status.enabled # 0 /\ status.enabled <= ts
          /\ status.disabled = 0 \/ status.disabled >= ts}

isStrategyActive(a) == WasActiveAt(strategyWhitelist, Now, a)

(* getOperatorCollaterals, added up for one token; getOperatorStake sums   *)
(* the same strategies.  Both read the shares of the present.              *)
StakeInStrategies(as, s, token) ==
    MapThenSumSet(LAMBDA a : StrategyStake[a][s][now],
                  {a \in as : StrategyToken[a] = token})

StrategyCollaterals(s, token) ==
    StakeInStrategies(ActiveStrategiesAt(Now), s, token)

-------------------------------------------------------------------------------
(* Plausible bugs, one operator each.                                      *)
Mut_pauseStrategy(a) ==
    /\ ~sweep.running
    /\ CanPause(strategyWhitelist, a)
    /\ strategyWhitelist' = Pause(strategyWhitelist, Now, a)
    /\ UNCHANGED <<vars, avsOperators, allocationManager, setOperators>>

Mut_deregisterOperatorFromAVS(s) ==
    /\ s \in EigenLayerOperators \cap avsOperators
    /\ ~sweep.running
    /\ avsOperators' = avsOperators \ {s}
    /\ UNCHANGED <<vars, strategyWhitelist, allocationManager, setOperators>>

-------------------------------------------------------------------------------
(* Operators, before the slashing upgrade of EigenLayer                    *)

registerOperatorToAVS(s, rpc) ==
    /\ s \in EigenLayerOperators \ avsOperators
    /\ registerOperator(EigenLayerAddress, s, rpc)
    /\ avsOperators' = avsOperators \cup {s}
    /\ UNCHANGED <<strategyWhitelist, allocationManager, setOperators>>

(* The directory and the registry change together or not at all.           *)
deregisterOperatorFromAVS(s) ==
    /\ s \in EigenLayerOperators \cap avsOperators
    /\ pauseOperator(EigenLayerAddress, s)
    /\ avsOperators' = avsOperators \ {s}
    /\ UNCHANGED <<strategyWhitelist, allocationManager, setOperators>>

EigenLayerUpdateRpc(s, rpc) ==
    /\ s # ZeroAddress
    /\ updateOperatorRpcEndpoint(EigenLayerAddress, s, rpc)
    /\ UNCHANGED eigenLayerVars

(* After the upgrade: callbacks of the AllocationManager, for one or more  *)
(* operator sets at a time.  Another manager than the current one, as one  *)
(* that was replaced, is refused (onlyAllocationManager).  A registration  *)
(* that is refused fails; when the other callback reverts, the operator    *)
(* leaves its sets all the same, the last ones or not.                     *)
onlyAllocationManager(m) == m = allocationManager

registerOperatorCallback(m, s, rpc) ==
    /\ s \in EigenLayerOperators
    /\ onlyAllocationManager(m)
    /\ registerOperator(EigenLayerAddress, s, rpc)
    /\ setOperators' = [setOperators EXCEPT ![m] = @ \cup {s}]
    /\ UNCHANGED <<strategyWhitelist, avsOperators, allocationManager>>

PauseReverts(m, s) ==
    \/ ~onlyAllocationManager(m)
    \/ ~onlyMiddleware(EigenLayerAddress)
    \/ ~CanPause(operatorAddresses, s)

deregisterOperatorCallback(m, s, last) ==
    /\ s \in setOperators[m]
    /\ ~sweep.running
    /\ setOperators' = IF last THEN [setOperators EXCEPT ![m] = @ \ {s}] ELSE setOperators
    /\ \/ onlyAllocationManager(m) /\ pauseOperator(EigenLayerAddress, s)
       \/ PauseReverts(m, s) /\ UNCHANGED vars
    /\ UNCHANGED <<strategyWhitelist, avsOperators, allocationManager>>

-------------------------------------------------------------------------------
(* The owner                                                               *)

whitelistStrategy(a) ==
    /\ ~sweep.running
    /\ CanRegister(strategyWhitelist, a)
    /\ strategyWhitelist' = Register(strategyWhitelist, Now, a)
    /\ UNCHANGED <<vars, avsOperators, allocationManager, setOperators>>

pauseStrategy(a) ==
    /\ ~sweep.running
    /\ CanPause(strategyWhitelist, a)
    /\ strategyWhitelist' = Pause(strategyWhitelist, Now - 1, a)
    /\ UNCHANGED <<vars, avsOperators, allocationManager, setOperators>>

unpauseStrategy(a) ==
    /\ ~sweep.running
    /\ CanUnpause(strategyWhitelist, Now, EPOCH_DURATION, a)
    /\ strategyWhitelist' = Unpause(strategyWhitelist, Now, a)
    /\ UNCHANGED <<vars, avsOperators, allocationManager, setOperators>>

removeStrategy(a) ==
    /\ ~sweep.running
    /\ CanUnregister(strategyWhitelist, Now - 1, EPOCH_DURATION, a)
    /\ strategyWhitelist' = Unregister(strategyWhitelist, a)
    /\ UNCHANGED <<vars, avsOperators, allocationManager, setOperators>>

updateAllocationManagerAddress(m) ==
    /\ ~sweep.running
    /\ allocationManager' = m
    /\ UNCHANGED <<vars, strategyWhitelist, avsOperators, setOperators>>

EigenLayerStep ==
    \/ \E s \in Signers, rpc \in Rpcs :
           \/ registerOperatorToAVS(s, rpc)
           \/ EigenLayerUpdateRpc(s, rpc)
    \/ \E s \in Signers : deregisterOperatorFromAVS(s)
    \/ \E m \in AllocationManagers, s \in Signers :
           \/ \E rpc \in Rpcs : registerOperatorCallback(m, s, rpc)
           \/ \E last \in BOOLEAN : deregisterOperatorCallback(m, s, last)
    \/ \E m \in AllocationManagers : updateAllocationManagerAddress(m)
    \/ \E a \in Strategies :
           \/ whitelistStrategy(a) \/ pauseStrategy(a)
           \/ unpauseStrategy(a) \/ removeStrategy(a)
===============================================================================
