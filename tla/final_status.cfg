SPECIFICATION Spec
CONSTANTS
  o1 = o1
  Orders = {o1}
  Items = {1}
  OrderOf <- OneOrder
  Codes = {c1}
  NoCode = NoCode
  Events <- PaidOnce
  MaxAttempts = 2
  Outcomes = {"ok", "out_of_stock"}
  Faults = {}
INVARIANT FinalStatusMatchesItems
CHECK_DEADLOCK FALSE
