----------------------------- MODULE MCCatalog -----------------------------
(* Instances of Catalog for TLC.                                           *)
EXTENDS Catalog, TLC

CONSTANTS u1, u2, p1, o1, o2, i1, i2

TwoUsers == {u1, u2}
OneProduct == {p1}
TwoOrders == {o1, o2}
TwoItems == {i1, i2}
TwoNames == {"alice", "bob"}
TwoEmails == {"a@x", "b@x"}
OneStatus == {"completed"}
ZeroAndOne == {0, 1}

(* Interchangeable identifiers.                                            *)
Interchangeable ==
  Permutations(TwoUsers) \cup Permutations(TwoOrders) \cup Permutations(TwoItems)
=============================================================================
