------------------------------ MODULE LowStock ------------------------------
(***************************************************************************)
(* Low-stock warnings: MarkOrderPaid, after its transaction, looks at      *)
(* every product it sold and publishes an event for one that is low, on    *)
(* the bus of pkg/eventbus, which starts a goroutine per subscriber; the   *)
(* one that main subscribes logs a warning.  Meanwhile other orders and    *)
(* administrators move the same counters.                                  *)
(*                                                                         *)
(* A statement moves one unit of a product.                                *)
(***************************************************************************)
EXTENDS Requests

CONSTANTS Wares,
          Threshold, \* LowStockThreshold, 5 in the code
          MaxUnits   \* bound on the units of a product

ASSUME LowStockAssumption == Threshold \in Nat /\ MaxUnits \in Nat

VARIABLES
  units,   \* products.stock_quantity
  booked,  \* products.reserved_quantity
  toCheck, \* by handler: products sold in its transaction and not looked at since
  events,  \* goroutines of the subscriber: the product and availability they were given
  owed     \* products that a sale left low, and nobody has been warned of since

lowVars == <<units, booked, toCheck, events, owed, left>>

LowInit ==
    /\ units \in [Wares -> 0..MaxUnits]
    /\ booked = [w \in Wares |-> 0]
    /\ toCheck = [h \in Handlers |-> {}]
    /\ events = {}
    /\ owed = {}
    /\ left = MaxRequests

-----------------------------------------------------------------------------

Available(w) == units[w] - booked[w]

(* [variant] a product with exactly the threshold left is not low *)
BelowThreshold(n) == n < Threshold

IsLow(n) == n <= Threshold

(* What a sale owes is settled when the product is no longer low *)
StillOwed(S) == {w \in S : Available(w)' <= Threshold}

BookUnit(w) ==
    /\ NextRequest
    /\ Available(w) > 0
    /\ booked' = [booked EXCEPT ![w] = @ + 1]
    /\ UNCHANGED <<units, toCheck, events>>
    /\ owed' = StillOwed(owed)

GiveBackUnit(w) ==
    /\ NextRequest
    /\ booked[w] > 0
    /\ booked' = [booked EXCEPT ![w] = @ - 1]
    /\ UNCHANGED <<units, toCheck, events>>
    /\ owed' = StillOwed(owed)

AddUnit(w) ==
    /\ NextRequest
    /\ units[w] < MaxUnits
    /\ units' = [units EXCEPT ![w] = @ + 1]
    /\ UNCHANGED <<booked, toCheck, events>>
    /\ owed' = StillOwed(owed)

(* MarkOrderPaid's transaction commits the reservations of an order *)
SellUnits(h, S) ==
    /\ toCheck[h] = {}
    /\ NextRequest
    /\ \A w \in S : booked[w] > 0
    /\ units' = [w \in Wares |-> IF w \in S THEN units[w] - 1 ELSE units[w]]
    /\ booked' = [w \in Wares |-> IF w \in S THEN booked[w] - 1 ELSE booked[w]]
    /\ toCheck' = [toCheck EXCEPT ![h] = S]
    /\ owed' = StillOwed(owed \cup S)
    /\ UNCHANGED events

(* One product after the other is read, with what other requests made of it;
   Publish hands the event to a goroutine and returns *)
PublishLowStock(h) ==
    \E w \in toCheck[h] :
      /\ toCheck' = [toCheck EXCEPT ![h] = @ \ {w}]
      /\ events' = IF IsLow(Available(w)) THEN events \cup {<<w, Available(w)>>} ELSE events
      /\ UNCHANGED <<units, booked, owed, left>>

(* The product cannot be read, the client being gone for example: it is skipped *)
CheckFails(h) ==
    \E w \in toCheck[h] :
      /\ toCheck' = [toCheck EXCEPT ![h] = @ \ {w}]
      /\ owed' = owed \ {w}
      /\ UNCHANGED <<units, booked, events, left>>

(* The subscriber logs the warning *)
Warn(e) ==
    /\ e \in events
    /\ events' = events \ {e}
    /\ owed' = owed \ {e[1]}
    /\ UNCHANGED <<units, booked, toCheck, left>>

(* The process ends: sales are in the database, warnings are not *)
WarningsLost ==
    /\ NextRequest
    /\ toCheck' = [h \in Handlers |-> {}]
    /\ events' = {}
    /\ owed' = {}
    /\ UNCHANGED <<units, booked>>

LowNext ==
    \/ \E w \in Wares : BookUnit(w) \/ GiveBackUnit(w) \/ AddUnit(w)
    \/ \E h \in Handlers :
         \/ PublishLowStock(h) \/ CheckFails(h)
         \/ \E S \in (SUBSET Wares) \ {{}} : SellUnits(h, S)
    \/ \E w \in Wares, n \in 0..MaxUnits : Warn(<<w, n>>)
    \/ WarningsLost

(* A handler that sold goes on to the checks, and goroutines are scheduled *)
LowFairness ==
    /\ \A h \in Handlers : WF_lowVars(PublishLowStock(h))
    /\ \A w \in Wares, n \in 0..MaxUnits : WF_lowVars(Warn(<<w, n>>))

LowSpec == LowInit /\ [][LowNext]_lowVars /\ LowFairness

-----------------------------------------------------------------------------

(* A sale that leaves a product low is followed by a warning, whatever other
   requests do between the sale, the check and the warning, unless the product
   is no longer low, its check failed or the process ended
   (internal/order/service/order.go:278-304, pkg/eventbus/eventbus.go:68-77) *)
SalesAreWarnedOf == \A w \in Wares : w \in owed ~> w \notin owed

=============================================================================
