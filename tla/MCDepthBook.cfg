CONSTANTS
  symA = symA
  symB = symB
  o1 = o1
  o2 = o2
  Symbols  <- MCSymbols
  OrderIds <- MCOrderIds
  Prices   <- MCPrices
  MaxQty = 2
  QtyMod = 8
  Depth = 1
SPECIFICATION Spec
INVARIANTS
  TypeOK
  ConsumerIsCurrent
  RoutingIsExact
  BooksMatchOrders
