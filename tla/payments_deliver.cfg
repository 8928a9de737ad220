SPECIFICATION PayFairSpec
CONSTANTS
  apple = apple
  Products = {apple}
  Orders = {o1}
  Handlers = {h1, h2}
  NoOrder = NoOrder
  Carts <- PayCarts
  InitialStock <- PayStock
  MaxUsage = 1
  Moves = {"payment_failed", "cancelled", "paid"}
  BatchSize = 4
  MaxInFlight = 2
  EventTypes = {"succeeded", "failed", "canceled"}
CHECK_DEADLOCK FALSE
PROPERTY DeliveriesEnd
