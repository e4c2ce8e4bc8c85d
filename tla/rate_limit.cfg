SPECIFICATION Spec
CONSTANTS
  Workers = {w1, w2, w3}
  Token = 2
  Refill = 1
  Capacity = 2
  Limit = 3
  Span = 4
  Delay = 2
  MaxClock = 7
SYMMETRY AnyOrder
INVARIANTS RateTypeOK TakesFitTheBucket SupplierHasRoom
