-------------------------------- MODULE MCSyncer --------------------------------
(* Three validators of two operators over epochs of two slots: v1 proposes  *)
(* in several epochs, so that it is synced again, v3 has no operator.       *)
EXTENDS Syncer

CONSTANTS v1, v2, v3, o1, o2

MCDuties == [e \in 0 .. MaxEpoch + 1 |->
                CASE e % 4 = 1 -> {v1}
                  [] e % 4 = 2 -> {v2}
                  [] e % 4 = 3 -> {v3}
                  [] OTHER -> IF e = 4 THEN {v1, v3} ELSE {}]

(* A draft that leaves a proposer out and names another in its place.      *)
MCDrafts == [e \in 0 .. MaxEpoch + 1 |-> {{}, {v2}}]

MCSourceOperator ==
    [v \in {v1, v2, v3} |-> CASE v = v1 -> o1 [] v = v2 -> o2 [] v = v3 -> NoOperator]
===============================================================================
