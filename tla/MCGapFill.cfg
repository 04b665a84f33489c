CONSTANTS
  locA = locA
  locB = locB
  Locates  <- MCLocates
  SymbolOf <- MCSymbolOf
  OrderIds <- MCOrderIds
  Prices   <- MCPrices
  Lots     <- MCLots
  ReduceTypes <- MCReduceTypes
  MaxMessages = 3
  QtyMod = 16
  SyntheticBase = 100
  MaxQty = 2
  Depth = 1
SPECIFICATION Spec
SYMMETRY LocateSymmetry
INVARIANTS
  TypeOK
  GeneratorMirrorsShadow
  ShadowRoutesExactly
  ResyncConverges
  InOrderFeedIsExact
PROPERTY CursorNeverBack
