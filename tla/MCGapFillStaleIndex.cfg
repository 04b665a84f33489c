CONSTANTS
  locA = locA
  Locates  <- MCLocates
  SymbolOf <- MCSymbolOf
  OrderIds <- MCOrderIds
  Prices   <- MCPrices
  Lots     <- MCLots
  ReduceTypes <- MCReduceTypes
  MaxMessages = 4
  QtyMod = 16
  SyntheticBase = 100
  MaxQty = 2
  Depth = 1
SPECIFICATION Spec
INVARIANT CaughtUpMeansEqual
