SPECIFICATION Spec
CONSTANTS
  Event = {e1}
  EventType = {orders}
  TypeOf <- OneTopic
  PollLimit = 1
  MaxInFlight = 1
  RpcLimits = {}
  ClientStatuses = {}
  Disruptions = {"connect"}
  MaxBoots = 1
  MaxDrops = 1
CHECK_DEADLOCK FALSE
INVARIANT
  SurvivesFailedReconnect
