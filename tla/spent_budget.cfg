SPECIFICATION Spec
CONSTANTS
  o1 = o1
  Orders = {o1}
  Items = {1}
  OrderOf <- OneOrder
  Codes = {c1}
  NoCode = NoCode
  Events <- PaidOnce
  MaxAttempts = 1
  Outcomes = {"unknown"}
  Faults = {}
INVARIANT SpentBudgetIsRefunded
CHECK_DEADLOCK FALSE
