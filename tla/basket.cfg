SPECIFICATION Spec
CONSTANTS
  o1 = o1
  Orders = {o1}
  Items = {1, 2}
  OrderOf <- OneOrder
  Codes = {c1, c2}
  NoCode = NoCode
  Events <- PaidOnce
  MaxAttempts = 2
  Outcomes = {"ok", "out_of_stock", "unavailable"}
  Faults = {}
  Price <- Prices
INVARIANTS HistoryOfOrders DebtMatchesItems ReportTellsTheTruth BooksMatchItems NoCodeTwice FinalOrderIsClosed DueRefundIsScheduled ClosedOrderIsFinal
PROPERTIES FinalOrderStays RefundSticks PromiseKept
CHECK_DEADLOCK FALSE
