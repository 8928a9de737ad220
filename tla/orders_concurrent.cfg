SPECIFICATION Spec
CONSTANTS
  apple = apple
  bread = bread
  Products = {apple, bread}
  Orders = {o1, o2}
  Handlers = {h1, h2}
  NoOrder = NoOrder
  Carts <- MCCarts
  InitialStock <- MCStock
  MaxUsage = 1
  Moves = {"payment_failed", "in-progress", "paid"}
  BatchSize = 1
  MaxInFlight = 2
CHECK_DEADLOCK FALSE
SYMMETRY Symmetric
INVARIANTS
  TypeOK
  StockWithinBounds
  NoOversell
  CouponCountsOrders
PROPERTIES
  RowsNeverReactivate
  LedgerSpec
