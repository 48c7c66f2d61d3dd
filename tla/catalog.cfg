CONSTANTS
  u1 = u1
  u2 = u2
  p1 = p1
  o1 = o1
  o2 = o2
  i1 = i1
  i2 = i2
  NULL = NULL
  Users <- TwoUsers
  Products <- OneProduct
  Orders <- TwoOrders
  Items <- TwoItems
  Usernames <- TwoNames
  Emails <- TwoEmails
  Statuses <- OneStatus
  Quantities <- ZeroAndOne
  Stocks <- ZeroAndOne
SPECIFICATION Spec
SYMMETRY Interchangeable
INVARIANTS TypeOK NoOrphans ConfirmedOnce
CHECK_DEADLOCK FALSE
