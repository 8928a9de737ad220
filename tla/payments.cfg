SPECIFICATION PaySpec
CONSTANTS
  apple = apple
  Products = {apple}
  Orders = {o1}
  Handlers = {h1, h2}
  NoOrder = NoOrder
  Carts <- PayCarts
  InitialStock <- PayStock
  MaxUsage = 1
  Moves = {"payment_failed", "cancelled", "pending_payment"}
  BatchSize = 4
  MaxInFlight = 2
  EventTypes = {"succeeded", "failed", "canceled", "other"}
CHECK_DEADLOCK FALSE
SYMMETRY Symmetric
INVARIANTS
  PaidMeansCharged
  EventHandledOnce
PROPERTIES
  OrdersSpec
