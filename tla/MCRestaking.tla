------------------------------ MODULE MCRestaking ------------------------------
(* Two epochs, an operator of both protocols, three vaults that hold the   *)
(* same token, one strategy.  The operator's stake in a vault changes in   *)
(* the middle of an epoch and between epochs, up and down.                 *)
EXTENDS Restaking, TLC

CONSTANTS s1, v1, v2, v3, a1, weth, am1, am2

MCVaultCollateral == [v \in Vaults |-> weth]

MCVaultStake == [v \in Vaults |-> [s \in Signers |-> [ts \in 0 .. MaxTime |->
                    CASE s # s1 -> 0
                      [] v = v1 -> IF ts <= 4 THEN 1 ELSE 2
                      [] v = v2 -> IF ts <= 4 THEN 2 ELSE IF ts = 5 THEN 1 ELSE 3
                      [] v = v3 -> 4]]]

MCStrategyToken == [a \in {a1} |-> weth]

MCStrategyStake == [a \in {a1} |-> [s \in Signers |-> [ts \in 0 .. MaxTime |->
                       IF s # s1 THEN 0 ELSE IF ts <= 4 THEN 1 ELSE 2]]]

(* The manager is replaced while no vault is whitelisted: the two have     *)
(* nothing to do with each other.  Nor has the order of three vaults with  *)
(* the operator and the strategy.                                          *)
MCOneAtATime ==
    /\ \/ vaultWhitelist.order = <<>>
       \/ allocationManager = am1 /\ setOperators[am2] = {}
    /\ \/ ~Contains(vaultWhitelist, v3)
       \/ /\ operatorAddresses.order = <<>> /\ ~sweep.running
          /\ strategyWhitelist.order = <<>>
          /\ avsOperators = {} /\ setOperators[am1] = {}
          /\ \A p \in Protocols : middleware[p] = NoMiddleware
===============================================================================
