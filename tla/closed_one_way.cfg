SPECIFICATION Spec
CONSTANTS
  o1 = o1
  Orders = {o1}
  Items = {1}
  OrderOf <- OneOrder
  Codes = {c1}
  NoCode = NoCode
  Events <- PaidOnce
  MaxAttempts = 1
  Outcomes = {"ok", "unavailable"}
  Faults = {}
INVARIANT ClosedOneWay
CHECK_DEADLOCK FALSE
