CONSTANTS
  c1 = c1
  c2 = c2
  u1 = u1
  u2 = u2
  p1 = p1
  p2 = p2
  o1 = o1
  o2 = o2
  i1 = i1
  i2 = i2
  e1 = e1
  e2 = e2
  NULL = NULL
  Malformed = Malformed
  Client = {c1}
  Users = {u1, u2}
  Products = {p1}
  Orders = {o1}
  Items = {i1}
  Event = {e1}
  EventType <- DemoTypes
  TypeOf <- AllSignups
  Usernames <- DemoNames
  Emails <- DemoEmails
  Statuses <- DemoStatuses
  Quantities <- DemoQuantities
  Stocks <- DemoStocks
  Limits = {1}
  ClientStatuses = {"processing"}
  OthersAsk <- Meddling
  MaxLost = 2
SPECIFICATION FairSpec
INVARIANTS
  TypeOK
  NothingLeftBehind
  ReadsOwnWrites
  ExitZeroPublished
PROPERTIES
  ClientEnds
CHECK_DEADLOCK FALSE
