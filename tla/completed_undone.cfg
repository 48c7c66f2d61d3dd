SPECIFICATION Spec
CONSTANTS
  Event = {e1}
  EventType = {orders}
  TypeOf <- OneTopic
  PollLimit = 1
  MaxInFlight = 1
  RpcLimits = {}
  ClientStatuses = {}
  Disruptions = {"publish"}
  MaxBoots = 1
  MaxDrops = 0
CHECK_DEADLOCK FALSE
PROPERTIES
  CompletedIsFinal
