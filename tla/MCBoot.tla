------------------------------- MODULE MCBoot -------------------------------
(* Instances of Boot for TLC.                                              *)
EXTENDS Boot, TLC

CONSTANTS m1, m2, e1, e2

Symmetric ==
  {p @@ q : p \in Permutations(Run), q \in Permutations(Event)}
=============================================================================
