SPECIFICATION OrderSpec
CONSTANTS
  Event = {e1, e2}
  EventType = {orders}
  TypeOf <- OneTopic
  PollLimit = 1
  MaxInFlight = 2
  RpcLimits = {1}
  ClientStatuses = {"pending", "failed"}
  Disruptions = {"query", "connect", "listen", "publish", "crash", "shutdown"}
  MaxBoots = 2
  MaxDrops = 1
SYMMETRY Interchangeable
CHECK_DEADLOCK FALSE
INVARIANTS
  TypeOK
  NoSilentGap
  CompletedWasPublished
  BoundedDuplicates
  FifoPerTopic
PROPERTY
  ImplementsAtLeastOnce
