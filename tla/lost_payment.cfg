SPECIFICATION PaySpec
CONSTANTS
  apple = apple
  Products = {apple}
  Orders = {o1}
  Handlers = {h1}
  NoOrder = NoOrder
  Carts <- PayCarts
  InitialStock <- PayStock
  MaxUsage = 1
  Moves = {"payment_failed", "cancelled"}
  BatchSize = 4
  MaxInFlight = 1
  EventTypes = {"succeeded"}
CHECK_DEADLOCK FALSE
INVARIANT AckedIsApplied
