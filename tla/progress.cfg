SPECIFICATION FairSpec
CONSTANTS
  Event = {e1, e2}
  EventType = {orders}
  TypeOf <- OneTopic
  PollLimit = 1
  MaxInFlight = 2
  RpcLimits = {1}
  ClientStatuses = {"pending"}
  Disruptions = {"connect", "query", "publish", "crash", "shutdown"}
  MaxBoots = 1
  MaxDrops = 1
CHECK_DEADLOCK FALSE
PROPERTY
  EventuallyHandled ShutdownEnds
