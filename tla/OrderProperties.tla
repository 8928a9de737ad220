---------------------------- MODULE OrderProperties ----------------------------
(***************************************************************************)
(* What the order service must keep true of orders, reservations and       *)
(* stock.  Which of these hold depends on what may overlap (MaxInFlight)   *)
(* and on which status moves callers ask for (Moves); README.md tells the  *)
(* runs apart.                                                             *)
(***************************************************************************)
EXTENDS OrderService

UnitsIn(p, s) ==
  SumFunctionOnSet([o \in Orders |-> cart[o][p]], {o \in Orders : row[o][p] = s})

(* The conditional UPDATEs keep 0 <= reserved <= stock for every product,   *)
(* whatever requests, retries and sweeps overlap: available stock is never  *)
(* negative.                                                                *)
StockWithinBounds == \A p \in Products : 0 <= reserved[p] /\ reserved[p] <= stock[p]

(* Units of reservations that were committed have really left the shelf:    *)
(* no overlap of payments, cancellations and sweeps sells a unit that does  *)
(* not exist.                                                               *)
NoOversell == \A p \in Products : stock[p] + UnitsIn(p, "committed") <= InitialStock[p]

(* used_count counts exactly the placed orders that carry the coupon: the   *)
(* increment is in the placing transaction and commits or rolls back with it.*)
CouponCountsOrders == used = Cardinality(discounted)

(* An order's reservations settle together: the transactions of             *)
(* MarkOrderPaid, CancelOrder and the sweeper each take all of an order's   *)
(* active rows or none (as long as the sweeper's LIMIT cuts no order).      *)
RowsSettleTogether ==
  \A o \in Orders : \A p, r \in Products :
    row[o][p] # "none" /\ row[o][r] # "none" => row[o][p] = row[o][r]

(* An order that was paid or cancelled holds no stock any more, even when   *)
(* payment, cancellation and expiry overlap (holds where no caller moves an *)
(* order with UpdateOrderStatus, which leaves reservations alone).          *)
SettledOrdersHoldNothing ==
  \A o \in Orders : status[o] \in {"paid", "cancelled"} => ActiveRows(o) = {}

(* MarkOrderPaid commits the reservations of the order it marks paid: every *)
(* unit of a paid order has been taken out of stock.                        *)
PaidOrdersAreBacked ==
  \A o \in Orders : status[o] = "paid" =>
    \A p \in Products : row[o][p] \in {"none", "committed"}

(* reserved_quantity is the number of units in active reservations, so no   *)
(* release or commit ever finds a drained counter.                          *)
ReservedIsActive == \A p \in Products : reserved[p] = UnitsIn(p, "active")

(* Stock on hand and units sold add up to what there was at the start: no   *)
(* sale is counted twice and none is given back by a late cancellation.     *)
StockConserved == \A p \in Products : stock[p] + UnitsIn(p, "committed") = InitialStock[p]

(* The coupon is granted at most max_usage times.                           *)
CouponWithinLimit == used <= MaxUsage

(* A reservation that was committed or released never holds stock again.    *)
RowsNeverReactivate ==
  [][\A o \in Orders, p \in Products :
       row[o][p] \in {"committed", "released"} => row'[o][p] # "active"]_vars

(* A cancelled order stays cancelled: its stock has been given back, so no  *)
(* later payment, status change or sweep may revive it.                     *)
CancelledIsFinal ==
  [][\A o \in Orders : status[o] = "cancelled" => status'[o] = "cancelled"]_vars

(* The stock counters behave as the abstract ledger of StockLedger.         *)
Ledger == INSTANCE StockLedger
            WITH free <- [p \in Products |-> stock[p] - reserved[p]],
                 held <- reserved,
                 sold <- [p \in Products |-> InitialStock[p] - stock[p]]

LedgerSpec == Ledger!Spec

--------------------------------------------------------------------------------
(* Fairness: time passes, the ticker fires, a request or a sweep that runs   *)
(* goes on to its next statement, and an order's release that is tried again *)
(* and again does not fail for ever.                                         *)
Fairness ==
  /\ \A o \in Orders : WF_vars(Expire(o)) /\ SF_vars(SweepWrite(o))
  /\ WF_vars(SweepFetch)
  /\ \A o \in Orders : WF_vars(SweepRead(o)) /\ WF_vars(SweepSkip(o))
  /\ \A h \in Handlers : WF_vars(PayFind(h) \/ PayCommit(h) \/ PayReject(h)
                                 \/ CancelFind(h) \/ CancelCommit(h) \/ CancelReject(h)
                                 \/ MoveSave(h))

FairSpec == Spec /\ Fairness

(* Stock held by an order is sold or released at last: a reservation past   *)
(* its TTL does not stay active for ever.                                   *)
ReservationsSettle ==
  \A o \in Orders, p \in Products : row[o][p] = "active" ~> row[o][p] # "active"
================================================================================
