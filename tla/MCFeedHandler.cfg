CONSTANTS
  locA = locA
  locB = locB
  symA = symA
  symB = symB
  Locates  <- MCLocates
  Symbols  <- MCSymbols
  Frame    <- MCFrame
  SymbolOf <- MCSymbolOf
  SnapshotLadders <- MCSnapshotLadders
  OrderIds <- MCOrderIds
  Prices   <- MCPrices
  MaxQty = 3
  QtyMod = 32
  SyntheticBase = 100
  Depth = 2
SPECIFICATION Spec
INVARIANTS
  TypeOK
  NoSilentSkip
  SkipAccountingIsExact
  BooksMatchOrders
PROPERTIES
  UsedOnceInOrder
  ImplementsSequencedFeed
