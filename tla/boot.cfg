CONSTANTS
  m1 = m1
  m2 = m2
  e1 = e1
  e2 = e2
  Run = {m1, m2}
  Event = {e1, e2}
  PollLimit = 1
  MAX_RETRIES = 4
  Timeout = 9
  Pause = 2
  MaxChanges = 2
SPECIFICATION Spec
SYMMETRY Symmetric
INVARIANTS
  TypeOK
  WaitBounded
  SchemaOfOneRun
  NoGapAtStart
PROPERTIES
  GivesUpInVain
  NeverRepaired
CHECK_DEADLOCK FALSE
