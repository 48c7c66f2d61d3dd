CONSTANTS
  e1 = e1
  e2 = e2
  e3 = e3
  e4 = e4
  Event = {e1, e2, e3, e4}
  EventType <- OneType
  TypeOf <- AllSignups
  MaxInFlight = 2
  RpcLimits = {1}
  ClientStatuses = {"completed"}
  Requested <- DefaultAndTwo
  DefaultLimit = 1
SPECIFICATION Spec
SYMMETRY SymmetricEvents
INVARIANTS
  TypeOK
  NothingMissed
  RepeatsBounded
  MissesShow
CHECK_DEADLOCK FALSE
