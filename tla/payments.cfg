SPECIFICATION Spec
CONSTANTS
  o1 = o1
  Orders = {o1}
  Items = {1}
  OrderOf <- OneOrder
  Codes = {c1}
  NoCode = NoCode
  Events <- ManyNotifications
  MaxAttempts = 2
  Outcomes = {"ok", "unknown"}
  Faults = {"raise"}
INVARIANTS NothingBeforePayment PaymentMatchesEvents PaidIsQueued
PROPERTIES OrphansInProviderOrder
CHECK_DEADLOCK FALSE
