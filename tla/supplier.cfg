SPECIFICATION Spec
CONSTANTS
  a1 = a1
  a2 = a2
  ax = ax
  b1 = b1
  Codes = {a1, a2, ax, b1}
  SoldBy <- Pools
  RightSku = {a1, a2, b1}
  MaxCalls = 2
  MaxTalks = 2
  Worlds <- AllWorlds
SYMMETRY AlikeKeys
INVARIANTS TypeOK OneCodePerItem AcceptedIsOurs CodesCanBeFound
PROPERTIES PurchaseKept
