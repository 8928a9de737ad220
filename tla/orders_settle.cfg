SPECIFICATION FairSpec
CONSTANTS
  apple = apple
  bread = bread
  Products = {apple, bread}
  Orders = {o1, o2}
  Handlers = {h1, h2}
  NoOrder = NoOrder
  Carts <- MCCarts
  InitialStock <- MCStock
  MaxUsage = 1
  Moves = {}
  BatchSize = 4
  MaxInFlight = 3
CHECK_DEADLOCK FALSE
INVARIANTS
  RowsSettleTogether
  SettledOrdersHoldNothing
PROPERTIES
  ReservationsSettle
