CONSTANTS
  e1 = e1
  e2 = e2
  orders = orders
  users = users
  Event = {e1, e2}
  EventType = {orders, users}
  TypeOf <- TwoTopics
  Replica = {r1, r2}
  PollLimit = 1
  MaxInFlight = 1
  RpcLimits = {1}
  ClientStatuses = {"pending"}
  Disruptions = {"query", "publish", "crash"}
  MaxBoots = 2
  MaxDrops = 1
SYMMETRY SymmetricReplicas
SPECIFICATION Spec
INVARIANTS
  TypeOK
  LocksAreSelects
  SkippedAreHeld
  DuplicatesBounded
PROPERTIES
  ImplementsAtLeastOnce
CHECK_DEADLOCK FALSE
