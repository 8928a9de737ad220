SPECIFICATION Spec
CONSTANTS
  apple = apple
  bread = bread
  Products = {apple, bread}
  Orders = {o1}
  Handlers = {h1, h2}
  NoOrder = NoOrder
  Carts <- MCCarts
  InitialStock <- MCStock
  MaxUsage = 1
  Moves = {}
  BatchSize = 4
  MaxInFlight = 2
CHECK_DEADLOCK FALSE
INVARIANT PaidOrdersAreBacked
