SPECIFICATION FairSpec
CONSTANTS
  o1 = o1
  Orders = {o1}
  Items = {1}
  OrderOf <- OneOrder
  Codes = {c1}
  NoCode = NoCode
  Events <- PaidOnce
  MaxAttempts = 1
  Outcomes = {"ok"}
  Faults = {"crash"}
PROPERTY PaidOrderFinishes
CHECK_DEADLOCK FALSE
