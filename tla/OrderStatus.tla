------------------------------ MODULE OrderStatus ------------------------------
(***************************************************************************)
(* The order status machine of internal/order/model/order.go: the statuses *)
(* and the table that UpdateOrderStatus consults before it moves an order. *)
(***************************************************************************)

OrderStatuses == {"new", "pending_payment", "paid", "in-progress", "done",
                  "cancelled", "payment_failed"}

allowedTransitions ==
  [s \in OrderStatuses |->
     CASE s = "new"             -> {"in-progress", "cancelled"}
       [] s = "pending_payment" -> {"paid", "payment_failed", "cancelled"}
       [] s = "paid"            -> {"in-progress", "cancelled"}
       [] s = "in-progress"     -> {"done", "cancelled"}
       [] s = "payment_failed"  -> {"cancelled", "pending_payment"}
       [] OTHER                 -> {}]

\* A move to the status the order already has is always accepted.
CanTransitionTo(s, next) == s = next \/ next \in allowedTransitions[s]

================================================================================
