------------------------- MODULE MCServerLifecycle -------------------------
(* Instances of ServerLifecycle for TLC.                                   *)
EXTENDS ServerLifecycle, TLC

CONSTANTS r1, r2

TwoRPCs == {r1, r2}
OneStuck == {r1}
NoneStuck == {}
NoHang == {}
=============================================================================
