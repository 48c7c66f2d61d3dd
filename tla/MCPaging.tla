------------------------------ MODULE MCPaging ------------------------------
(* Instances of EventPaging for TLC.                                       *)
EXTENDS EventPaging, TLC

CONSTANTS e1, e2, e3, e4

OneType == {"user.signup"}
AllSignups == [e \in Event |-> "user.signup"]
DefaultAndTwo == {0, 2}

(* Events are told apart by created_at only.                               *)
SymmetricEvents == Permutations(Event)
=============================================================================
