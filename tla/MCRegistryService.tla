--------------------------- MODULE MCRegistryService ---------------------------
(* Three validators, two epochs of one slot: the syncer registers v1 with   *)
(* o1, v2 only through the API, v3 is not active.                           *)
EXTENDS RegistryService, TLC

CONSTANTS v1, v2, v3, o1, o2, r1, r2, r3

MCDuties == [e \in 0 .. MaxEpoch + 1 |->
                CASE e = 2 -> {v1, v2} [] e = 3 -> {v3} [] OTHER -> {}]

(* No drafts: the syncer's own runs have them.                              *)
MCDrafts == [e \in 0 .. MaxEpoch + 1 |-> {}]

MCSourceOperator ==
    [v \in {v1, v2, v3} |-> IF v = v1 THEN o1 ELSE NoOperator]

ACall(kind, pubkeys, signatures, operator, e) ==
    [kind |-> kind, pubkeys |-> pubkeys, signatures |-> signatures,
     operator |-> operator, epoch |-> e]

Read(kind) == ACall(kind, <<v1>>, 0, o1, 1)

(* Batches with a signature missing, with a validator that is not active,  *)
(* and with one that is named twice.                                       *)
MCWrites == {ACall("register", <<v1, v2>>, 2, o2, 0),
             ACall("register", <<v2, v1>>, 1, o1, 0),
             ACall("register", <<v2, v3>>, 2, o1, 0),
             ACall("register", <<v2, v2>>, 2, o1, 0),
             ACall("deregister", <<v2>>, 1, o1, 0)}

MCReads == {Read("registrations"), Read("by_indices"), Read("validator"),
            Read("lookahead")}

MCCalls == MCWrites \cup MCReads

(* Fewer of each, for the runs whose other parts are larger.               *)
MCLiveCalls == {ACall("register", <<v1, v2>>, 2, o2, 0), Read("registrations"),
                Read("lookahead"), Read("operator")}

MCFarCalls == {ACall("lookahead", <<>>, 0, o1, MaxEpoch + 2), Read("registrations")}

MCSqlCalls == {ACall("register", <<v1, v2>>, 2, o2, 0),
               ACall("register", <<v2>>, 1, o1, 0),
               ACall("deregister", <<v2, v1>>, 2, o1, 0),
               Read("registrations"), Read("validators")}

MCSymmetry == Permutations(Requests)
===============================================================================
