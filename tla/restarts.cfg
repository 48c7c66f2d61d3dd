SPECIFICATION OrderSpec
CONSTANTS
  Event = {e1, e2, e3}
  EventType = {orders}
  TypeOf <- OneTopic
  PollLimit = 3
  MaxInFlight = 2
  RpcLimits = {}
  ClientStatuses = {}
  Disruptions = {"connect", "listen", "crash", "shutdown"}
  MaxBoots = 2
  MaxDrops = 1
SYMMETRY Interchangeable
CHECK_DEADLOCK FALSE
INVARIANTS
  HoldsAllPending
  BoundedDuplicates
  FifoPerTopic
  ShutdownFailsNoEvent
