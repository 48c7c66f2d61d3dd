CONSTANTS
  r1 = r1
  r2 = r2
  RPCs <- TwoRPCs
  Stuck <- OneStuck
  Hangs <- NoHang
SPECIFICATION FairSpec
INVARIANTS TypeOK PollerGoneFirst GracefulCutsNothing
PROPERTIES ShutdownCompletes
CHECK_DEADLOCK FALSE
