SPECIFICATION Spec
CONSTANTS
  apple = apple
  bread = bread
  Products = {apple, bread}
  Orders = {o1, o2, o3}
  Handlers = {h1}
  NoOrder = NoOrder
  Carts <- MCCarts
  InitialStock <- MCStock
  MaxUsage = 1
  Moves = {"new", "pending_payment", "payment_failed", "in-progress", "done", "cancelled"}
  BatchSize = 1
  MaxInFlight = 1
CHECK_DEADLOCK FALSE
SYMMETRY Symmetric
INVARIANTS
  ReservedIsActive
  StockConserved
  PaidOrdersAreBacked
  CouponWithinLimit
PROPERTIES
  CancelledIsFinal
