----------------------------- MODULE MCDbHandle -----------------------------
(* Three requests on one handle: a placement, a payment and a status move *)
EXTENDS DbHandle, TLC

CONSTANTS r1, r2, r3

MCOperationOf == r1 :> "PlaceOrder" @@ r2 :> "MarkOrderPaid" @@ r3 :> "UpdateOrderStatus"

MCOperationOf2 == r1 :> "PlaceOrder" @@ r2 :> "MarkOrderPaid"

=============================================================================
