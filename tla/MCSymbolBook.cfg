CONSTANTS
  o1 = o1
  o2 = o2
  o3 = o3
  OrderIds   <- MCOrderIds
  Prices     <- MCPrices
  MaxQty = 2
  QtyMod = 8
  Depth = 2
SPECIFICATION Spec
INVARIANTS
  TypeOK
  LadderMatchesOrders
  TopIsBest
