SPECIFICATION FairSpec
CONSTANTS
  o1 = o1
  Orders = {o1}
  Items = {1}
  OrderOf <- OneOrder
  Codes = {c1}
  NoCode = NoCode
  Events <- PaidAndFailed
  MaxAttempts = 2
  Outcomes = {"ok", "throttled", "unknown", "unavailable", "out_of_stock", "failed"}
  Faults = {"crash"}
INVARIANTS TypeOK BooksMatchItems HistoryOfItems
PROPERTIES PaidOrderFinishesOrJobDied OrphansAreDecided ClosedItemStays
CHECK_DEADLOCK FALSE
