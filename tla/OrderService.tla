------------------------------ MODULE OrderService ------------------------------
(***************************************************************************)
(* The order service (internal/order): orders, stock reservations, the     *)
(* product stock counters and one coupon, with every request split at its  *)
(* database reads.  A request reads rows, then writes in one transaction   *)
(* (or in one statement).  The stock statements are conditional UPDATEs    *)
(* that take the row lock and evaluate their condition on the locked row,  *)
(* and a transaction that fails leaves nothing behind, so the writes of a  *)
(* transaction are one atomic step at its commit; its reads take no lock   *)
(* and are steps of their own.  WithTransaction is taken to give each      *)
(* transaction a handle of its own.                                        *)
(*                                                                         *)
(* A definition marked [variant] is no part of the specification: it is    *)
(* the definition below it with a plausible mistake, kept to measure which *)
(* properties notice the mistake.                                          *)
(***************************************************************************)
EXTENDS OrderStatus, Integers, FiniteSets, FiniteSetsExt

CONSTANTS
  Orders,        \* order ids the run may create
  Products,
  Handlers,      \* request goroutines (HTTP, gRPC, webhook) that may overlap
  Carts,         \* the carts customers submit: units of each product
  InitialStock,  \* stock_quantity of each product at the start
  MaxUsage,      \* the coupon's max_usage, positive (0 would mean unlimited)
  Moves,         \* statuses that callers ask UpdateOrderStatus for
  BatchSize,     \* the sweeper's LIMIT (100 in main.go)
  MaxInFlight,   \* bound: requests and sweeps that may overlap; 1 means serial
  NoOrder        \* stands for the absence of an order

NoCart == [p \in Products |-> 0]

ASSUME OrderServiceAssumption ==
  /\ InitialStock \in [Products -> Nat]
  /\ Carts \subseteq [Products -> Nat] \ {NoCart}
  /\ MaxUsage \in Nat \ {0}
  /\ BatchSize \in Nat \ {0}
  /\ MaxInFlight \in Nat \ {0}
  /\ Moves \subseteq OrderStatuses
  /\ NoOrder \notin Orders

VARIABLES
  stock,       \* products.stock_quantity
  reserved,    \* products.reserved_quantity
  status,      \* orders.status, "none" before the row is created
  cart,        \* the order's lines: units of each product
  row,         \* stock_reservations.status of the order's row for a product
  overdue,     \* orders whose reservations have expires_at in the past
  used,        \* coupons.used_count
  discounted,  \* orders placed with the coupon
  call,        \* the request each handler is executing
  sweep        \* the reservations the sweeper has fetched and the order it is on

tables == <<stock, reserved, status, cart, row, used, discounted>>
vars == <<stock, reserved, status, cart, row, overdue, used, discounted, call, sweep>>

RowStatuses == {"none", "active", "committed", "released"}

CallSteps == {"idle", "place", "pay_find", "pay_write",
              "cancel_find", "cancel_write", "move"}

Calls == [at: CallSteps, order: Orders \cup {NoOrder}, rows: SUBSET Products,
          to: OrderStatuses, coupon: BOOLEAN]

Idle == [at |-> "idle", order |-> NoOrder, rows |-> {}, to |-> "new", coupon |-> FALSE]

Asleep == [batch |-> {}, order |-> NoOrder]

TypeOK ==
  /\ stock \in [Products -> Nat]
  /\ reserved \in [Products -> Nat]
  /\ status \in [Orders -> OrderStatuses \cup {"none"}]
  /\ cart \in [Orders -> [Products -> Nat]]
  /\ row \in [Orders -> [Products -> RowStatuses]]
  /\ overdue \in SUBSET Orders
  /\ used \in Nat
  /\ discounted \in SUBSET Orders
  /\ call \in [Handlers -> Calls]
  /\ sweep \in [batch: SUBSET (Orders \X Products), order: Orders \cup {NoOrder}]

Init ==
  /\ stock = InitialStock
  /\ reserved = NoCart
  /\ status = [o \in Orders |-> "none"]
  /\ cart = [o \in Orders |-> NoCart]
  /\ row = [o \in Orders |-> [p \in Products |-> "none"]]
  /\ overdue = {}
  /\ used = 0
  /\ discounted = {}
  /\ call = [h \in Handlers |-> Idle]
  /\ sweep = Asleep

--------------------------------------------------------------------------------
(* Rows and counters.                                                       *)

Placed(o) == status[o] # "none"

\* [variant] the query forgets its status condition
ActiveRowsUnfiltered(o) == {p \in Products : row[o][p] # "none"}

\* FindActiveByOrderID
ActiveRows(o) == {p \in Products : row[o][p] = "active"}

\* UpdateStatus writes the rows it is given whatever they hold by now.
SetRows(o, ps, s) ==
  row' = [row EXCEPT ![o] = [p \in Products |-> IF p \in ps THEN s ELSE row[o][p]]]

Minus(counter, o, ps) ==
  [p \in Products |-> IF p \in ps THEN counter[p] - cart[o][p] ELSE counter[p]]

\* [variant] the UPDATE has no condition
CanReleaseUnchecked(o, p) == TRUE

\* reserved_quantity >= qty, the condition of CommitReservation and ReleaseReservation.
CanRelease(o, p) == cart[o][p] <= reserved[p]

CanCommit(o, p) == CanRelease(o, p) /\ cart[o][p] <= stock[p]

Busy == {h \in Handlers : call[h] # Idle}

MayBegin ==
  Cardinality(Busy) + (IF sweep = Asleep THEN 0 ELSE 1) < MaxInFlight

Begin(h, c) ==
  /\ call[h] = Idle /\ MayBegin
  /\ call' = [call EXCEPT ![h] = c]

\* The request has found the order's active reservations.
Found(h, next) ==
  call' = [call EXCEPT ![h] = [@ EXCEPT !.at = next, !.rows = ActiveRows(call[h].order)]]

End(h) == call' = [call EXCEPT ![h] = Idle]

\* A failed statement, a cancelled context or a crash: the transaction rolls back,
\* and a placement whose product or coupon was refused on reading ends here too.
Fail(h) == /\ call[h] # Idle
           /\ End(h)
           /\ UNCHANGED <<tables, overdue, sweep>>

--------------------------------------------------------------------------------
(* PlaceOrder: products and coupon are read first, the rest is one           *)
(* transaction that creates the order, reserves every line, persists the     *)
(* reservations and bumps the coupon.                                        *)

\* [variant] off by one at the coupon's limit
PlaceReadOffByOne(h, o, coupon) ==
  /\ ~Placed(o) /\ \A g \in Handlers : call[g].order # o
  /\ coupon => used <= MaxUsage
  /\ Begin(h, [Idle EXCEPT !.at = "place", !.order = o, !.coupon = coupon])
  /\ UNCHANGED <<tables, overdue, sweep>>

PlaceRead(h, o, coupon) ==
  /\ ~Placed(o) /\ \A g \in Handlers : call[g].order # o   \* a fresh uuid
  /\ coupon => used < MaxUsage                             \* couponSvc.Apply
  /\ Begin(h, [Idle EXCEPT !.at = "place", !.order = o, !.coupon = coupon])
  /\ UNCHANGED <<tables, overdue, sweep>>

\* [variant] stock is compared without what is already reserved
ReservableIgnoringHeld(c) == \A p \in Products : c[p] <= stock[p]

\* ReserveStock: every line finds enough available units.
Reservable(c) == \A p \in Products : reserved[p] + c[p] <= stock[p]

PlaceCommit(h, c) ==
  LET o == call[h].order IN
  /\ call[h].at = "place"
  /\ Reservable(c)
  /\ reserved' = [p \in Products |-> reserved[p] + c[p]]
  /\ status' = [status EXCEPT ![o] = "pending_payment"]
  /\ cart' = [cart EXCEPT ![o] = c]
  /\ row' = [row EXCEPT ![o] = [p \in Products |-> IF c[p] > 0 THEN "active" ELSE "none"]]
  /\ used' = IF call[h].coupon THEN used + 1 ELSE used
  /\ discounted' = IF call[h].coupon THEN discounted \cup {o} ELSE discounted
  /\ End(h)
  /\ UNCHANGED <<stock, overdue, sweep>>

\* [variant] the coupon is bumped outside the transaction that rolls back
PlaceRejectKeepsCoupon(h, c) ==
  /\ call[h].at = "place"
  /\ ~Reservable(c)
  /\ used' = IF call[h].coupon THEN used + 1 ELSE used
  /\ End(h)
  /\ UNCHANGED <<stock, reserved, status, cart, row, discounted, overdue, sweep>>

PlaceReject(h, c) ==
  /\ call[h].at = "place"
  /\ ~Reservable(c)
  /\ End(h)
  /\ UNCHANGED <<tables, overdue, sweep>>

--------------------------------------------------------------------------------
(* MarkOrderPaid: the order is read before the transaction, its active       *)
(* reservations inside it.                                                   *)

\* [variant] only a paid order is refused
PayReadAnyUnpaid(h, o) ==
  /\ Placed(o)
  /\ status[o] # "paid"
  /\ Begin(h, [Idle EXCEPT !.at = "pay_find", !.order = o])
  /\ UNCHANGED <<tables, overdue, sweep>>

PayRead(h, o) ==
  /\ Placed(o)
  /\ status[o] \notin {"paid", "cancelled", "payment_failed"}
  /\ Begin(h, [Idle EXCEPT !.at = "pay_find", !.order = o])
  /\ UNCHANGED <<tables, overdue, sweep>>

PayFind(h) ==
  /\ call[h].at = "pay_find"
  /\ Found(h, "pay_write")
  /\ UNCHANGED <<tables, overdue, sweep>>

\* [variant] CommitReservation takes the units out of reserved_quantity only
PayCommitKeepsStock(h) ==
  LET o == call[h].order  ps == call[h].rows IN
  /\ call[h].at = "pay_write"
  /\ \A p \in ps : CanCommit(o, p)
  /\ reserved' = Minus(reserved, o, ps)
  /\ SetRows(o, ps, "committed")
  /\ status' = [status EXCEPT ![o] = "paid"]
  /\ End(h)
  /\ UNCHANGED <<stock, cart, overdue, used, discounted, sweep>>

PayCommit(h) ==
  LET o == call[h].order  ps == call[h].rows IN
  /\ call[h].at = "pay_write"
  /\ \A p \in ps : CanCommit(o, p)
  /\ stock' = Minus(stock, o, ps)
  /\ reserved' = Minus(reserved, o, ps)
  /\ SetRows(o, ps, "committed")
  /\ status' = [status EXCEPT ![o] = "paid"]
  /\ End(h)
  /\ UNCHANGED <<cart, overdue, used, discounted, sweep>>

PayReject(h) ==
  /\ call[h].at = "pay_write"
  /\ \E p \in call[h].rows : ~CanCommit(call[h].order, p)
  /\ End(h)
  /\ UNCHANGED <<tables, overdue, sweep>>

--------------------------------------------------------------------------------
(* CancelOrder by the buyer.                                                 *)

CancelRead(h, o) ==
  /\ Placed(o)
  /\ status[o] \notin {"done", "cancelled", "paid"}
  /\ Begin(h, [Idle EXCEPT !.at = "cancel_find", !.order = o])
  /\ UNCHANGED <<tables, overdue, sweep>>

CancelFind(h) ==
  /\ call[h].at = "cancel_find"
  /\ Found(h, "cancel_write")
  /\ UNCHANGED <<tables, overdue, sweep>>

CancelCommit(h) ==
  LET o == call[h].order  ps == call[h].rows IN
  /\ call[h].at = "cancel_write"
  /\ \A p \in ps : CanRelease(o, p)
  /\ reserved' = Minus(reserved, o, ps)
  /\ SetRows(o, ps, "released")
  /\ status' = [status EXCEPT ![o] = "cancelled"]
  /\ End(h)
  /\ UNCHANGED <<stock, cart, overdue, used, discounted, sweep>>

CancelReject(h) ==
  /\ call[h].at = "cancel_write"
  /\ \E p \in call[h].rows : ~CanRelease(call[h].order, p)
  /\ End(h)
  /\ UNCHANGED <<tables, overdue, sweep>>

--------------------------------------------------------------------------------
(* UpdateOrderStatus: the gate is checked on the row as read, and the whole  *)
(* row is saved back later.  Reservations are not touched.                   *)

MoveRead(h, o, s) ==
  /\ Placed(o)
  /\ CanTransitionTo(status[o], s)
  /\ Begin(h, [Idle EXCEPT !.at = "move", !.order = o, !.to = s])
  /\ UNCHANGED <<tables, overdue, sweep>>

MoveSave(h) ==
  /\ call[h].at = "move"
  /\ status' = [status EXCEPT ![call[h].order] = call[h].to]
  /\ End(h)
  /\ UNCHANGED <<stock, reserved, cart, row, overdue, used, discounted, sweep>>

--------------------------------------------------------------------------------
(* SweepExpiredReservations, run every minute by one goroutine: fetch at     *)
(* most BatchSize overdue active rows in no particular order, then one       *)
(* transaction per order found in the batch.                                 *)

\* The rows of an order share one expires_at, 15 minutes after it was placed.
Expire(o) ==
  /\ Placed(o) /\ o \notin overdue
  /\ overdue' = overdue \cup {o}
  /\ UNCHANGED <<tables, call, sweep>>

Due == {op \in overdue \X Products : row[op[1]][op[2]] = "active"}

\* [variant] a LIMIT that cuts the rows of an order apart
BatchesOfOne == {{op} : op \in Due}

Batches == IF Cardinality(Due) <= BatchSize THEN {Due} ELSE kSubset(BatchSize, Due)

Group(o) == {p \in Products : <<o, p>> \in sweep.batch}

Dropped(o) == [batch |-> {op \in sweep.batch : op[1] # o}, order |-> NoOrder]

SweepFetch ==
  /\ sweep = Asleep /\ MayBegin
  /\ Due # {}
  /\ \E b \in Batches : sweep' = [batch |-> b, order |-> NoOrder]
  /\ UNCHANGED <<tables, overdue, call>>

SweepRead(o) ==
  /\ sweep.order = NoOrder /\ Group(o) # {}
  /\ status[o] \in {"pending_payment", "new"}
  /\ sweep' = [sweep EXCEPT !.order = o]
  /\ UNCHANGED <<tables, overdue, call>>

SweepSkip(o) ==
  /\ sweep.order = NoOrder /\ Group(o) # {}
  /\ status[o] \notin {"pending_payment", "new"}
  /\ sweep' = Dropped(o)
  /\ UNCHANGED <<tables, overdue, call>>

\* A line whose counter is already drained is marked released all the same.
SweepWrite(o) ==
  /\ sweep.order = o /\ o # NoOrder
  /\ reserved' = Minus(reserved, o, {p \in Group(o) : CanRelease(o, p)})
  /\ SetRows(o, Group(o), "released")
  /\ status' = [status EXCEPT ![o] = "cancelled"]
  /\ sweep' = Dropped(o)
  /\ UNCHANGED <<stock, cart, overdue, used, discounted, call>>

\* [variant] a failed release is compensated by marking the rows active again
SweepFailRestores(o) ==
  /\ sweep.order = o /\ o # NoOrder
  /\ SetRows(o, Group(o), "active")
  /\ sweep' = Dropped(o)
  /\ UNCHANGED <<stock, reserved, status, cart, used, discounted, overdue, call>>

\* The order's transaction failed; the loop goes on with the next order.
SweepFail(o) ==
  /\ sweep.order = o /\ o # NoOrder
  /\ sweep' = Dropped(o)
  /\ UNCHANGED <<tables, overdue, call>>

--------------------------------------------------------------------------------
Place(h) == \/ \E o \in Orders, k \in BOOLEAN : PlaceRead(h, o, k)
            \/ \E c \in Carts : PlaceCommit(h, c) \/ PlaceReject(h, c)

MarkOrderPaid(h) == (\E o \in Orders : PayRead(h, o)) \/ PayFind(h) \/ PayCommit(h) \/ PayReject(h)

CancelOrder(h) ==
  (\E o \in Orders : CancelRead(h, o)) \/ CancelFind(h) \/ CancelCommit(h) \/ CancelReject(h)

UpdateOrderStatus(h) ==
  (\E o \in Orders, s \in Moves : MoveRead(h, o, s)) \/ MoveSave(h)

Sweep == SweepFetch \/ \E o \in Orders : SweepRead(o) \/ SweepSkip(o) \/ SweepWrite(o) \/ SweepFail(o)

Next == \/ \E h \in Handlers : Place(h) \/ MarkOrderPaid(h) \/ CancelOrder(h)
                               \/ UpdateOrderStatus(h) \/ Fail(h)
        \/ Sweep
        \/ \E o \in Orders : Expire(o)

Spec == Init /\ [][Next]_vars
================================================================================
