\* The same calls where two orders can add up to QtyMod shares.
CONSTANTS
  o1 = o1
  o2 = o2
  o3 = o3
  OrderIds   <- MCOrderIds
  Prices     <- MCPrices
  MaxQty = 2
  QtyMod = 4
  Depth = 2
SPECIFICATION Spec
INVARIANT InvariantsOk
