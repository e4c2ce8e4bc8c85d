CONSTANTS
  Items = {1, 2}
  Closers = {"refunds"}
  MaxClock = 1
  MaxPasses = 2
SPECIFICATION Spec
INVARIANTS TypeOK SliceAgrees PresentIsExact
PROPERTIES PastIsFixed
CHECK_DEADLOCK FALSE
