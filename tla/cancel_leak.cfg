SPECIFICATION FairSpec
CONSTANTS
  apple = apple
  bread = bread
  Products = {apple, bread}
  Orders = {o1}
  Handlers = {h1}
  NoOrder = NoOrder
  Carts <- MCCarts
  InitialStock <- MCStock
  MaxUsage = 1
  Moves = {"cancelled"}
  BatchSize = 4
  MaxInFlight = 2
CHECK_DEADLOCK FALSE
PROPERTY ReservationsSettle
