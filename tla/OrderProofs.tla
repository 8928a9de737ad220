----------------------------- MODULE OrderProofs ----------------------------
(*****************************************************************************)
(* Theorems about the orders: for any number of orders, products, coupons    *)
(* and servers, whatever they do at the same time.                           *)
(*****************************************************************************)
EXTENDS OrderProperties, SumProofs

(* A request past its first read has an order row id to work on.            *)
CallsHaveOrders == \A h \in Handlers : call[h].at # "idle" => call[h].order \in Orders

TypeInv == TypeOK /\ CallsHaveOrders

(* The initial state is well typed.                                          *)
LEMMA InitType == Init => TypeInv
  BY OrderServiceAssumption DEF Init, TypeInv, TypeOK, CallsHaveOrders, NoCart, Idle, Asleep,
     OrderStatuses, RowStatuses, Calls, CallSteps

(* Taking units that are there out of a counter leaves a natural number.    *)
LEMMA MinusType ==
  ASSUME NEW counter \in [Products -> Nat], NEW o \in Orders, NEW ps \in SUBSET Products,
         cart \in [Orders -> [Products -> Nat]],
         \A p \in ps : cart[o][p] <= counter[p]
  PROVE  /\ Minus(counter, o, ps) \in [Products -> Nat]
         /\ \A p \in Products : /\ p \in ps => Minus(counter, o, ps)[p] = counter[p] - cart[o][p]
                                /\ p \notin ps => Minus(counter, o, ps)[p] = counter[p]
  BY DEF Minus

(* Writing reservation rows keeps them well typed.                           *)
LEMMA SetRowsType ==
  ASSUME TypeOK, NEW o \in Orders, NEW ps, NEW s \in RowStatuses, SetRows(o, ps, s)
  PROVE  row' \in [Orders -> [Products -> RowStatuses]]
  BY DEF TypeOK, SetRows

(* A request that ends leaves the others well typed.                         *)
LEMMA EndType ==
  ASSUME TypeInv, NEW h \in Handlers, End(h)
  PROVE  /\ call' \in [Handlers -> Calls]
         /\ CallsHaveOrders'
  BY DEF TypeInv, TypeOK, CallsHaveOrders, End, Idle, Calls, CallSteps, OrderStatuses

(* A request that begins holds the id of an existing or a fresh order.      *)
LEMMA BeginType ==
  ASSUME TypeInv, NEW h \in Handlers, NEW c \in Calls, c.order \in Orders, Begin(h, c)
  PROVE  call' \in [Handlers -> Calls] /\ CallsHaveOrders'
  BY DEF TypeInv, TypeOK, CallsHaveOrders, Begin

(* So does a request that has found the active reservations of its order.    *)
LEMMA FoundType ==
  ASSUME TypeInv, NEW h \in Handlers, NEW next \in CallSteps, call[h].at # "idle", Found(h, next)
  PROVE  call' \in [Handlers -> Calls] /\ CallsHaveOrders'
<1> DEFINE c == [call[h] EXCEPT !.at = next, !.rows = ActiveRows(call[h].order)]
<1>1. c \in Calls /\ c.order = call[h].order
  <2>1. call[h] \in Calls /\ ActiveRows(call[h].order) \in SUBSET Products
    BY DEF TypeInv, TypeOK, ActiveRows
  <2> QED BY <2>1 DEF Calls
<1>2. c.order \in Orders
  BY <1>1 DEF TypeInv, CallsHaveOrders
<1>3. call' = [call EXCEPT ![h] = c]
  BY DEF Found
<1> HIDE DEF c
<1> QED BY <1>1, <1>2, <1>3 DEF TypeInv, TypeOK, CallsHaveOrders

(* Every step keeps the state well typed.                                    *)
LEMMA TypeStep == TypeInv /\ [Next]_vars => TypeInv'
<1> SUFFICES ASSUME TypeInv, [Next]_vars PROVE TypeInv'
  OBVIOUS
<1> USE DEF TypeInv
<1>1. ASSUME NEW h \in Handlers, NEW o \in Orders, NEW k \in BOOLEAN, PlaceRead(h, o, k)
      PROVE TypeInv'
  <2>1. [Idle EXCEPT !.at = "place", !.order = o, !.coupon = k] \in Calls
    BY DEF Idle, Calls, CallSteps, OrderStatuses
  <2> QED BY <1>1, <2>1, BeginType DEF PlaceRead, TypeOK, tables, Idle
<1>2. ASSUME NEW h \in Handlers, NEW c \in Carts, PlaceCommit(h, c) PROVE TypeInv'
  <2>1. call[h].order \in Orders
    BY <1>2 DEF PlaceCommit, CallsHaveOrders
  <2>2. /\ c \in [Products -> Nat]
        /\ row' \in [Orders -> [Products -> RowStatuses]]
    BY <1>2, <2>1, OrderServiceAssumption DEF PlaceCommit, TypeOK, RowStatuses
  <2>3. /\ status' \in [Orders -> OrderStatuses \cup {"none"}]
        /\ cart' \in [Orders -> [Products -> Nat]]
        /\ reserved' \in [Products -> Nat]
        /\ used' \in Nat /\ discounted' \in SUBSET Orders
    BY <1>2, <2>1, <2>2 DEF PlaceCommit, TypeOK, OrderStatuses
  <2> QED BY <1>2, <2>2, <2>3, EndType DEF PlaceCommit, TypeOK
<1>3. ASSUME NEW h \in Handlers, NEW c \in Carts, PlaceReject(h, c) PROVE TypeInv'
  BY <1>3, EndType DEF PlaceReject, TypeOK, tables
<1>4. ASSUME NEW h \in Handlers, NEW o \in Orders, PayRead(h, o) PROVE TypeInv'
  <2>1. [Idle EXCEPT !.at = "pay_find", !.order = o] \in Calls
    BY DEF Idle, Calls, CallSteps, OrderStatuses
  <2> QED BY <1>4, <2>1, BeginType DEF PayRead, TypeOK, tables, Idle
<1>5. ASSUME NEW h \in Handlers, PayFind(h) PROVE TypeInv'
  BY <1>5, FoundType DEF PayFind, TypeOK, tables, CallSteps
<1>6. ASSUME NEW h \in Handlers, PayCommit(h) PROVE TypeInv'
  <2>1. call[h].order \in Orders /\ call[h].rows \in SUBSET Products
    BY <1>6 DEF PayCommit, CallsHaveOrders, TypeOK, Calls
  <2>2. stock' \in [Products -> Nat] /\ reserved' \in [Products -> Nat]
    BY <1>6, <2>1, MinusType DEF PayCommit, CanCommit, CanRelease, TypeOK
  <2>3. row' \in [Orders -> [Products -> RowStatuses]]
    BY <1>6, <2>1, SetRowsType DEF PayCommit, RowStatuses
  <2>4. status' \in [Orders -> OrderStatuses \cup {"none"}]
    BY <1>6, <2>1 DEF PayCommit, TypeOK, OrderStatuses
  <2> QED BY <1>6, <2>2, <2>3, <2>4, EndType DEF PayCommit, TypeOK
<1>7. ASSUME NEW h \in Handlers, PayReject(h) PROVE TypeInv'
  BY <1>7, EndType DEF PayReject, TypeOK, tables
<1>8. ASSUME NEW h \in Handlers, NEW o \in Orders, CancelRead(h, o) PROVE TypeInv'
  <2>1. [Idle EXCEPT !.at = "cancel_find", !.order = o] \in Calls
    BY DEF Idle, Calls, CallSteps, OrderStatuses
  <2> QED BY <1>8, <2>1, BeginType DEF CancelRead, TypeOK, tables, Idle
<1>9. ASSUME NEW h \in Handlers, CancelFind(h) PROVE TypeInv'
  BY <1>9, FoundType DEF CancelFind, TypeOK, tables, CallSteps
<1>10. ASSUME NEW h \in Handlers, CancelCommit(h) PROVE TypeInv'
  <2>1. call[h].order \in Orders /\ call[h].rows \in SUBSET Products
    BY <1>10 DEF CancelCommit, CallsHaveOrders, TypeOK, Calls
  <2>2. reserved' \in [Products -> Nat]
    BY <1>10, <2>1, MinusType DEF CancelCommit, CanRelease, TypeOK
  <2>3. row' \in [Orders -> [Products -> RowStatuses]]
    BY <1>10, <2>1, SetRowsType DEF CancelCommit, RowStatuses
  <2>4. status' \in [Orders -> OrderStatuses \cup {"none"}]
    BY <1>10, <2>1 DEF CancelCommit, TypeOK, OrderStatuses
  <2> QED BY <1>10, <2>2, <2>3, <2>4, EndType DEF CancelCommit, TypeOK
<1>11. ASSUME NEW h \in Handlers, CancelReject(h) PROVE TypeInv'
  BY <1>11, EndType DEF CancelReject, TypeOK, tables
<1>12. ASSUME NEW h \in Handlers, NEW o \in Orders, NEW s \in Moves, MoveRead(h, o, s)
       PROVE TypeInv'
  <2>1. [Idle EXCEPT !.at = "move", !.order = o, !.to = s] \in Calls
    BY OrderServiceAssumption DEF Idle, Calls, CallSteps, OrderStatuses
  <2> QED BY <1>12, <2>1, BeginType DEF MoveRead, TypeOK, tables, Idle
<1>13. ASSUME NEW h \in Handlers, MoveSave(h) PROVE TypeInv'
  <2>1. call[h].order \in Orders /\ call[h].to \in OrderStatuses
    BY <1>13 DEF MoveSave, CallsHaveOrders, TypeOK, Calls
  <2> QED BY <1>13, <2>1, EndType DEF MoveSave, TypeOK
<1>14. ASSUME NEW h \in Handlers, Fail(h) PROVE TypeInv'
  BY <1>14, EndType DEF Fail, TypeOK, tables
<1>15. ASSUME NEW o \in Orders, Expire(o) PROVE TypeInv'
  BY <1>15 DEF Expire, TypeOK, CallsHaveOrders, tables
<1>16. ASSUME SweepFetch PROVE TypeInv'
  <2>1. \A b \in Batches : b \in SUBSET (Orders \X Products)
    BY DEF Batches, Due, kSubset, TypeOK
  <2> QED BY <1>16, <2>1 DEF SweepFetch, TypeOK, CallsHaveOrders, tables
<1>17. ASSUME NEW o \in Orders, SweepRead(o) PROVE TypeInv'
  BY <1>17 DEF SweepRead, TypeOK, CallsHaveOrders, tables
<1>18. ASSUME NEW o \in Orders, SweepSkip(o) PROVE TypeInv'
  BY <1>18 DEF SweepSkip, Dropped, TypeOK, CallsHaveOrders, tables
<1>19. ASSUME NEW o \in Orders, SweepWrite(o) PROVE TypeInv'
  <2>1. reserved' \in [Products -> Nat]
    <3> DEFINE fits == {p \in Group(o) : CanRelease(o, p)}
    <3>1. fits \in SUBSET Products /\ \A p \in fits : cart[o][p] <= reserved[p]
      BY DEF Group, CanRelease
    <3> QED BY <1>19, <3>1, MinusType DEF SweepWrite, TypeOK
  <2>2. row' \in [Orders -> [Products -> RowStatuses]]
    BY <1>19, SetRowsType DEF SweepWrite, RowStatuses
  <2>3. status' \in [Orders -> OrderStatuses \cup {"none"}]
    BY <1>19 DEF SweepWrite, TypeOK, OrderStatuses
  <2> QED BY <1>19, <2>1, <2>2, <2>3 DEF SweepWrite, Dropped, TypeOK, CallsHaveOrders
<1>20. ASSUME NEW o \in Orders, SweepFail(o) PROVE TypeInv'
  BY <1>20 DEF SweepFail, Dropped, TypeOK, CallsHaveOrders, tables
<1>21. CASE UNCHANGED vars
  BY <1>21 DEF vars, TypeOK, CallsHaveOrders
<1> QED
  BY <1>1, <1>2, <1>3, <1>4, <1>5, <1>6, <1>7, <1>8, <1>9, <1>10, <1>11, <1>12, <1>13,
     <1>14, <1>15, <1>16, <1>17, <1>18, <1>19, <1>20, <1>21
     DEF Next, Place, MarkOrderPaid, CancelOrder, UpdateOrderStatus, Sweep

(* Every state of the order service is well typed: in particular no         *)
(* overlap of requests drives a stock counter below zero.                   *)
THEOREM TypeCorrect == Spec => [](TypeOK /\ CallsHaveOrders)
  BY InitType, TypeStep, PTL DEF Spec, TypeInv

--------------------------------------------------------------------------------
(* Only five steps write the tables: the commits of the four transactions    *)
(* and the single save of UpdateOrderStatus.                                 *)
LEMMA WritingSteps ==
  ASSUME [Next]_vars
  PROVE  \/ \E h \in Handlers, c \in Carts : PlaceCommit(h, c)
         \/ \E h \in Handlers : PayCommit(h)
         \/ \E h \in Handlers : CancelCommit(h)
         \/ \E h \in Handlers : MoveSave(h)
         \/ \E o \in Orders : SweepWrite(o)
         \/ UNCHANGED tables
<1>1. ASSUME NEW h \in Handlers, Place(h)
      PROVE (\E c \in Carts : PlaceCommit(h, c)) \/ UNCHANGED tables
  BY <1>1 DEF Place, PlaceRead, PlaceReject
<1>2. ASSUME NEW h \in Handlers, MarkOrderPaid(h) PROVE PayCommit(h) \/ UNCHANGED tables
  BY <1>2 DEF MarkOrderPaid, PayRead, PayFind, PayReject
<1>3. ASSUME NEW h \in Handlers, CancelOrder(h) PROVE CancelCommit(h) \/ UNCHANGED tables
  BY <1>3 DEF CancelOrder, CancelRead, CancelFind, CancelReject
<1>4. ASSUME NEW h \in Handlers, UpdateOrderStatus(h) PROVE MoveSave(h) \/ UNCHANGED tables
  BY <1>4 DEF UpdateOrderStatus, MoveRead
<1>5. ASSUME NEW h \in Handlers, Fail(h) PROVE UNCHANGED tables
  BY <1>5 DEF Fail
<1>6. ASSUME Sweep PROVE (\E o \in Orders : SweepWrite(o)) \/ UNCHANGED tables
  BY <1>6 DEF Sweep, SweepFetch, SweepRead, SweepSkip, SweepFail
<1>7. ASSUME NEW o \in Orders, Expire(o) PROVE UNCHANGED tables
  BY <1>7 DEF Expire
<1>8. CASE UNCHANGED vars
  BY <1>8 DEF vars, tables
<1> QED BY <1>1, <1>2, <1>3, <1>4, <1>5, <1>6, <1>7, <1>8 DEF Next

(* The three ways in which a step may change the counters.                   *)
Holds == /\ stock' = stock
         /\ \A p \in Products : reserved[p] <= reserved'[p] /\ reserved'[p] <= stock[p]

GivesBack == /\ stock' = stock
             /\ \A p \in Products : reserved'[p] <= reserved[p]

Sells == \A p \in Products : /\ stock'[p] <= stock[p]
                            /\ stock[p] - stock'[p] = reserved[p] - reserved'[p]

(* A step reserves units, gives reserved units back, or sells reserved units;*)
(* it does nothing else to the two counters.                                 *)
LEMMA CounterSteps == TypeInv /\ [Next]_vars => Holds \/ GivesBack \/ Sells
<1> SUFFICES ASSUME TypeInv, [Next]_vars PROVE Holds \/ GivesBack \/ Sells
  OBVIOUS
<1> USE DEF TypeInv
<1>1. ASSUME NEW h \in Handlers, NEW c \in Carts, PlaceCommit(h, c) PROVE Holds
  <2>1. c \in [Products -> Nat]
    BY OrderServiceAssumption
  <2> QED BY <1>1, <2>1 DEF PlaceCommit, Reservable, Holds, TypeOK
<1>2. ASSUME NEW h \in Handlers, PayCommit(h) PROVE Sells
  <2> DEFINE o == call[h].order  ps == call[h].rows
  <2>1. o \in Orders /\ ps \in SUBSET Products
    BY <1>2 DEF PayCommit, CallsHaveOrders, TypeOK, Calls
  <2>2. /\ stock' = Minus(stock, o, ps) /\ reserved' = Minus(reserved, o, ps)
        /\ \A p \in ps : cart[o][p] <= reserved[p] /\ cart[o][p] <= stock[p]
    BY <1>2 DEF PayCommit, CanCommit, CanRelease
  <2> HIDE DEF o, ps
  <2> QED BY <2>1, <2>2 DEF Minus, Sells, TypeOK
<1>3. ASSUME NEW o \in Orders, NEW ps \in SUBSET Products, stock' = stock,
             reserved' = Minus(reserved, o, ps)
      PROVE  GivesBack
  BY <1>3 DEF Minus, GivesBack, TypeOK
<1>4. ASSUME NEW h \in Handlers, CancelCommit(h) PROVE GivesBack
  <2>1. call[h].order \in Orders /\ call[h].rows \in SUBSET Products
    BY <1>4 DEF CancelCommit, CallsHaveOrders, TypeOK, Calls
  <2> QED BY <1>3, <1>4, <2>1 DEF CancelCommit
<1>5. ASSUME NEW o \in Orders, SweepWrite(o) PROVE GivesBack
  BY <1>3, <1>5 DEF SweepWrite, Group
<1>6. ASSUME UNCHANGED <<stock, reserved>> PROVE GivesBack
  BY <1>6 DEF GivesBack, TypeOK
<1> QED BY <1>1, <1>2, <1>4, <1>5, <1>6, WritingSteps DEF tables, MoveSave

(* Each of the three keeps 0 <= reserved <= stock.                           *)
LEMMA BoundsStep == TypeInv /\ StockWithinBounds /\ [Next]_vars => StockWithinBounds'
  BY CounterSteps, TypeStep DEF TypeInv, TypeOK, StockWithinBounds, Holds, GivesBack, Sells

(* However requests, retries and sweeps overlap, and whatever statuses       *)
(* callers set, no product's reserved units are negative or exceed its stock.*)
THEOREM StockIsBounded == Spec => []StockWithinBounds
<1>1. Init => StockWithinBounds
  BY OrderServiceAssumption DEF Init, StockWithinBounds, NoCart
<1> QED BY <1>1, InitType, TypeStep, BoundsStep, PTL DEF Spec

--------------------------------------------------------------------------------
(* The counters implement the ledger of units.                               *)

(* The initial counters are those of a fresh ledger.                         *)
LEMMA LedgerInit == Init => Ledger!Init
  BY OrderServiceAssumption DEF Init, Ledger!Init, NoCart

(* The stock never grows above what there was: nothing restocks it here.     *)
StockNotAbove == \A p \in Products : stock[p] <= InitialStock[p]

(* No step adds to the stock on hand.                                        *)
LEMMA NotAboveStep == TypeInv /\ StockNotAbove /\ [Next]_vars => StockNotAbove'
  BY CounterSteps, TypeStep, OrderServiceAssumption
     DEF TypeInv, TypeOK, StockNotAbove, Holds, GivesBack, Sells

(* The units that leave the shelf with a sale, those of one product.         *)
LEMMA SaleArithmetic ==
  ASSUME NEW s \in Nat, NEW t \in Nat, NEW r \in Nat, NEW q \in Nat, NEW i \in Nat,
         t <= s, s - t = r - q
  PROVE  /\ t - q = s - r
         /\ i - t >= i - s
         /\ (i - t) + q = (i - s) + r
  OBVIOUS

(* Every step is a step of the ledger, or moves no unit.                     *)
LEMMA LedgerStep ==
  TypeInv /\ StockWithinBounds /\ StockNotAbove /\ [Next]_vars => [Ledger!Next]_(Ledger!ledger)
<1> SUFFICES ASSUME TypeInv, StockWithinBounds, StockNotAbove, [Next]_vars
             PROVE  Ledger!Next
  OBVIOUS
<1>1. TypeInv' /\ StockWithinBounds' /\ StockNotAbove'
  BY TypeStep, BoundsStep, NotAboveStep
<1>2. Ledger!LedgerTypeOK'
  BY <1>1, OrderServiceAssumption
     DEF Ledger!LedgerTypeOK, TypeInv, TypeOK, StockWithinBounds, StockNotAbove
<1>3. ASSUME Holds PROVE Ledger!Hold
  BY <1>1, <1>3, OrderServiceAssumption DEF Holds, Ledger!Hold, TypeInv, TypeOK
<1>4. ASSUME GivesBack PROVE Ledger!GiveBack
  BY <1>1, <1>4, OrderServiceAssumption DEF GivesBack, Ledger!GiveBack, TypeInv, TypeOK
<1>5. ASSUME Sells PROVE Ledger!Sell
  <2>1. ASSUME NEW p \in Products
        PROVE  /\ stock'[p] - reserved'[p] = stock[p] - reserved[p]
               /\ InitialStock[p] - stock'[p] >= InitialStock[p] - stock[p]
               /\ (InitialStock[p] - stock'[p]) + reserved'[p]
                    = (InitialStock[p] - stock[p]) + reserved[p]
    <3>1. /\ stock[p] \in Nat /\ stock'[p] \in Nat /\ InitialStock[p] \in Nat
          /\ reserved[p] \in Nat /\ reserved'[p] \in Nat
      BY <1>1, OrderServiceAssumption DEF TypeInv, TypeOK
    <3>2. stock'[p] <= stock[p] /\ stock[p] - stock'[p] = reserved[p] - reserved'[p]
      BY <1>5 DEF Sells
    <3> QED BY <3>1, <3>2, SaleArithmetic
  <2>2. [p \in Products |-> stock'[p] - reserved'[p]] = [p \in Products |-> stock[p] - reserved[p]]
    BY <2>1
  <2> QED BY <2>1, <2>2 DEF Ledger!Sell
<1> QED BY <1>2, <1>3, <1>4, <1>5, CounterSteps DEF Ledger!Next

(* The order service implements StockLedger: every one of its steps holds    *)
(* free units, gives held ones back or sells held ones, or moves no unit.    *)
THEOREM ServiceImplementsLedger == Spec => LedgerSpec
<1>1. Init => StockWithinBounds /\ StockNotAbove
  BY OrderServiceAssumption DEF Init, StockWithinBounds, StockNotAbove, NoCart
<1> QED
  BY <1>1, InitType, TypeStep, BoundsStep, NotAboveStep, LedgerInit, LedgerStep, PTL
     DEF Spec, LedgerSpec, Ledger!Spec

-----------------------------------------------------------------------------

Lines(o) == {p \in Products : cart[o][p] > 0}

(* Requests in flight never share a fresh order id, and everything that is  *)
(* not a placement works on an order whose row exists.                      *)
PlacedApart ==
  /\ \A o \in Orders : ~Placed(o) => Lines(o) = {}
  /\ \A o \in Orders, p \in Products : row[o][p] = "none" <=> p \notin Lines(o)
  /\ \A h \in Handlers : call[h].at = "place" =>
       /\ ~Placed(call[h].order)
       /\ \A g \in Handlers \ {h} : call[g].order # call[h].order
  /\ \A h \in Handlers : call[h].at \notin {"idle", "place"} => Placed(call[h].order)
  /\ \A h \in Handlers : call[h].at \in {"pay_write", "cancel_write"} =>
       call[h].rows \subseteq Lines(call[h].order)
  /\ \A o \in Orders : Group(o) \subseteq Lines(o)
  /\ \A o \in Orders : sweep.order = o => Placed(o)

ApartInv == TypeInv /\ PlacedApart

--------------------------------------------------------------------------------
(* The kinds of steps, by what they do to requests, sweep and tables.        *)

BeginsOn(h, o, at) ==
  /\ Placed(o)
  /\ \E c \in Calls : c.at = at /\ c.order = o /\ call' = [call EXCEPT ![h] = c]
  /\ UNCHANGED <<tables, overdue, sweep>>

Finds(h, next) ==
  /\ call[h].at \notin {"idle", "place"}
  /\ Found(h, next)
  /\ UNCHANGED <<tables, overdue, sweep>>

GivesUp(h) == End(h) /\ UNCHANGED <<tables, overdue, sweep>>

DropsGroup(o) == sweep' = Dropped(o) /\ UNCHANGED <<tables, overdue, call>>

(* The steps of Next, grouped by what they write.                            *)
LEMMA StepCases ==
  ASSUME TypeInv, [Next]_vars
  PROVE  \/ \E h \in Handlers, o \in Orders, k \in BOOLEAN : PlaceRead(h, o, k)
         \/ \E h \in Handlers, o \in Orders, at \in {"pay_find", "cancel_find"} : BeginsOn(h, o, at)
         \/ \E h \in Handlers, o \in Orders, s \in Moves : MoveRead(h, o, s)
         \/ \E h \in Handlers, next \in {"pay_write", "cancel_write"} : Finds(h, next)
         \/ \E h \in Handlers : GivesUp(h)
         \/ \E h \in Handlers, c \in Carts : PlaceCommit(h, c)
         \/ \E h \in Handlers : PayCommit(h)
         \/ \E h \in Handlers : CancelCommit(h)
         \/ \E h \in Handlers : MoveSave(h)
         \/ SweepFetch
         \/ \E o \in Orders : SweepRead(o)
         \/ \E o \in Orders : DropsGroup(o)
         \/ \E o \in Orders : SweepWrite(o)
         \/ UNCHANGED <<tables, call, sweep>>
<1>1. ASSUME NEW h \in Handlers, Place(h)
      PROVE  \/ \E o \in Orders, k \in BOOLEAN : PlaceRead(h, o, k)
             \/ \E c \in Carts : PlaceCommit(h, c)
             \/ GivesUp(h)
  BY <1>1 DEF Place, PlaceReject, GivesUp
<1>2. ASSUME NEW h \in Handlers, NEW o \in Orders, PayRead(h, o) PROVE BeginsOn(h, o, "pay_find")
  <2> DEFINE c == [Idle EXCEPT !.at = "pay_find", !.order = o]
  <2>1. c \in Calls /\ c.at = "pay_find" /\ c.order = o
    BY DEF Idle, Calls, CallSteps, OrderStatuses
  <2>2. Placed(o) /\ call' = [call EXCEPT ![h] = c] /\ UNCHANGED <<tables, overdue, sweep>>
    BY <1>2 DEF PayRead, Begin
  <2> QED BY <2>1, <2>2 DEF BeginsOn
<1>3. ASSUME NEW h \in Handlers, NEW o \in Orders, CancelRead(h, o)
      PROVE BeginsOn(h, o, "cancel_find")
  <2> DEFINE c == [Idle EXCEPT !.at = "cancel_find", !.order = o]
  <2>1. c \in Calls /\ c.at = "cancel_find" /\ c.order = o
    BY DEF Idle, Calls, CallSteps, OrderStatuses
  <2>2. Placed(o) /\ call' = [call EXCEPT ![h] = c] /\ UNCHANGED <<tables, overdue, sweep>>
    BY <1>3 DEF CancelRead, Begin
  <2> QED BY <2>1, <2>2 DEF BeginsOn
<1>4. ASSUME NEW h \in Handlers, MarkOrderPaid(h)
      PROVE  \/ \E o \in Orders : BeginsOn(h, o, "pay_find")
             \/ Finds(h, "pay_write")
             \/ PayCommit(h)
             \/ GivesUp(h)
  BY <1>2, <1>4 DEF MarkOrderPaid, PayFind, PayReject, Finds, GivesUp
<1>5. ASSUME NEW h \in Handlers, CancelOrder(h)
      PROVE  \/ \E o \in Orders : BeginsOn(h, o, "cancel_find")
             \/ Finds(h, "cancel_write")
             \/ CancelCommit(h)
             \/ GivesUp(h)
  BY <1>3, <1>5 DEF CancelOrder, CancelFind, CancelReject, Finds, GivesUp
<1>6. ASSUME NEW h \in Handlers, UpdateOrderStatus(h)
      PROVE (\E o \in Orders, s \in Moves : MoveRead(h, o, s)) \/ MoveSave(h)
  BY <1>6 DEF UpdateOrderStatus
<1>7. ASSUME NEW h \in Handlers, Fail(h) PROVE GivesUp(h)
  BY <1>7 DEF Fail, GivesUp
<1>8. ASSUME Sweep
      PROVE  \/ SweepFetch
             \/ \E o \in Orders : SweepRead(o) \/ DropsGroup(o) \/ SweepWrite(o)
  BY <1>8 DEF Sweep, SweepSkip, SweepFail, DropsGroup
<1>9. ASSUME NEW o \in Orders, Expire(o) PROVE UNCHANGED <<tables, call, sweep>>
  BY <1>9 DEF Expire
<1>10. CASE UNCHANGED vars
  BY <1>10 DEF vars, tables
<1> QED BY <1>1, <1>4, <1>5, <1>6, <1>7, <1>8, <1>9, <1>10 DEF Next

--------------------------------------------------------------------------------
(* Writing the rows of an order that has some leaves lines and row existence *)
(* as they were.                                                             *)
LEMMA SettleKeepsLines ==
  ASSUME TypeInv, PlacedApart, NEW o \in Orders, Placed(o), NEW ps \in SUBSET Products,
         NEW s \in RowStatuses \ {"none"}, NEW t \in OrderStatuses,
         ps \subseteq Lines(o),
         SetRows(o, ps, s), status' = [status EXCEPT ![o] = t], cart' = cart
  PROVE  /\ \A q \in Orders : Placed(q)' <=> Placed(q)
         /\ \A q \in Orders : Lines(q)' = Lines(q)
         /\ \A q \in Orders, p \in Products : row'[q][p] = "none" <=> row[q][p] = "none"
<1>1. \A q \in Orders : Placed(q)' <=> Placed(q)
  BY DEF Placed, TypeInv, TypeOK, OrderStatuses
<1>2. \A q \in Orders : Lines(q)' = Lines(q)
  BY DEF Lines
<1>3. \A q \in Orders, p \in Products : row'[q][p] = "none" <=> row[q][p] = "none"
  BY DEF SetRows, PlacedApart, TypeInv, TypeOK, Lines
<1> QED BY <1>1, <1>2, <1>3

(* A request that ends frees its handler and touches no other.               *)
LEMMA EndApart ==
  ASSUME TypeInv, PlacedApart, NEW h \in Handlers, End(h)
  PROVE  /\ call'[h] = Idle
         /\ \A g \in Handlers \ {h} : call'[g] = call[g]
  BY DEF End, TypeInv, TypeOK

(* Dropping an order from the batch leaves the other orders of it.           *)
LEMMA DroppedGroup ==
  ASSUME TypeInv, NEW o \in Orders, sweep' = Dropped(o)
  PROVE  /\ Group(o)' = {}
         /\ \A q \in Orders \ {o} : Group(q)' = Group(q)
         /\ sweep.order' = NoOrder
  BY DEF Dropped, Group, TypeInv, TypeOK

(* A request that ends, or a sweep that drops a group, disturbs nothing when *)
(* lines and row existence stay.                                             *)
LEMMA ApartKept ==
  ASSUME ApartInv,
         \A q \in Orders : Placed(q)' <=> Placed(q),
         \A q \in Orders : Lines(q)' = Lines(q),
         \A q \in Orders, p \in Products : row'[q][p] = "none" <=> row[q][p] = "none",
         \A g \in Handlers : call'[g] = call[g] \/ call'[g] = Idle,
         \A q \in Orders : Group(q)' \subseteq Group(q),
         sweep.order' \in {sweep.order, NoOrder}
  PROVE  PlacedApart'
<1> USE DEF ApartInv, PlacedApart
<1>1. ASSUME NEW g \in Handlers, call'[g].at # "idle"
      PROVE  call'[g] = call[g] /\ call[g].order \in Orders
  BY <1>1 DEF TypeInv, CallsHaveOrders, Idle
<1>2. ASSUME NEW g \in Handlers, call'[g].at = "place"
      PROVE  /\ ~Placed(call[g].order)'
             /\ \A f \in Handlers \ {g} : call'[f].order # call'[g].order
  <2>1. call'[g] = call[g] /\ call[g].order \in Orders
    BY <1>1, <1>2
  <2>2. ~Placed(call[g].order)'
    BY <1>2, <2>1 DEF Placed
  <2>3. ASSUME NEW f \in Handlers \ {g} PROVE call'[f].order # call'[g].order
    BY <1>2, <2>1, OrderServiceAssumption DEF Idle
  <2> QED BY <2>2, <2>3
<1>3. ASSUME NEW g \in Handlers, call'[g].at \notin {"idle", "place"}
      PROVE  Placed(call[g].order)'
  BY <1>1, <1>3 DEF Placed
<1>4. ASSUME NEW g \in Handlers, call'[g].at \in {"pay_write", "cancel_write"}
      PROVE  (call[g].rows \subseteq Lines(call[g].order))'
  <2>1. call'[g] = call[g] /\ call[g].order \in Orders
    BY <1>1, <1>4
  <2>2. call[g].rows \subseteq Lines(call[g].order)
    BY <1>4, <2>1
  <2>3. Lines(call[g].order)' = Lines(call[g].order)
    BY <2>1 DEF Lines
  <2> QED BY <2>1, <2>2, <2>3
<1>5. ASSUME NEW o \in Orders, sweep.order' = o PROVE Placed(o)'
  BY <1>5, OrderServiceAssumption
<1> QED BY <1>1, <1>2, <1>3, <1>4, <1>5

(* A request that starts or goes on, with the tables as they were.           *)
LEMMA ApartCalls ==
  ASSUME ApartInv, UNCHANGED <<tables, sweep>>, NEW h \in Handlers, NEW c \in Calls,
         call' = [call EXCEPT ![h] = c],
         c.at # "place", c.order \in Orders, Placed(c.order),
         c.at \in {"pay_write", "cancel_write"} => c.rows \subseteq Lines(c.order)
  PROVE  PlacedApart'
<1> USE DEF ApartInv, PlacedApart
<1>1. /\ call'[h] = c
      /\ \A g \in Handlers \ {h} : call'[g] = call[g]
  BY DEF TypeInv, TypeOK
<1>2. UNCHANGED <<status, cart, row, sweep>>
  BY DEF tables
<1>3. ASSUME NEW g \in Handlers, call'[g].at = "place"
      PROVE  /\ ~Placed(call[g].order)'
             /\ \A f \in Handlers \ {g} : call'[f].order # call'[g].order
  BY <1>1, <1>2, <1>3 DEF Placed
<1>4. ASSUME NEW g \in Handlers, call'[g].at \notin {"idle", "place"}
      PROVE  Placed(call[g].order)'
  BY <1>1, <1>2, <1>4 DEF Placed
<1>5. ASSUME NEW g \in Handlers, call'[g].at \in {"pay_write", "cancel_write"}
      PROVE  (call[g].rows \subseteq Lines(call[g].order))'
  BY <1>1, <1>2, <1>5 DEF Lines
<1> QED BY <1>2, <1>3, <1>4, <1>5 DEF Placed, Lines, Group

(* Every step keeps a request that places an order apart from all others.    *)
LEMMA ApartStep == ApartInv /\ [Next]_vars => PlacedApart'
<1> SUFFICES ASSUME ApartInv, [Next]_vars PROVE PlacedApart'
  OBVIOUS
<1>a. TypeInv /\ PlacedApart
  BY DEF ApartInv
<1>1. ASSUME NEW h \in Handlers, NEW o \in Orders, NEW k \in BOOLEAN, PlaceRead(h, o, k)
      PROVE  PlacedApart'
  <2> DEFINE c == [Idle EXCEPT !.at = "place", !.order = o, !.coupon = k]
  <2>1. c.at = "place" /\ c.order = o
    BY DEF Idle
  <2>2. /\ call'[h] = c
        /\ \A g \in Handlers \ {h} : call'[g] = call[g] /\ call[g].order # o
        /\ UNCHANGED <<status, cart, row, sweep>>
        /\ ~Placed(o)
    BY <1>1, <1>a DEF PlaceRead, Begin, TypeInv, TypeOK, tables
  <2> HIDE DEF c
  <2> QED BY <1>a, <2>1, <2>2 DEF PlacedApart, Placed, Lines, Group
<1>2. ASSUME NEW h \in Handlers, NEW o \in Orders, NEW at \in {"pay_find", "cancel_find"},
             BeginsOn(h, o, at)
      PROVE  PlacedApart'
  BY <1>2, ApartCalls DEF BeginsOn
<1>3. ASSUME NEW h \in Handlers, NEW o \in Orders, NEW s \in Moves, MoveRead(h, o, s)
      PROVE  PlacedApart'
  <2> DEFINE c == [Idle EXCEPT !.at = "move", !.order = o, !.to = s]
  <2>1. c \in Calls /\ c.at = "move" /\ c.order = o
    BY OrderServiceAssumption DEF Idle, Calls, CallSteps, OrderStatuses
  <2>2. Placed(o) /\ call' = [call EXCEPT ![h] = c] /\ UNCHANGED <<tables, sweep>>
    BY <1>3 DEF MoveRead, Begin
  <2> HIDE DEF c
  <2> QED BY <2>1, <2>2, ApartCalls
<1>4. ASSUME NEW h \in Handlers, NEW next \in {"pay_write", "cancel_write"}, Finds(h, next)
      PROVE  PlacedApart'
  <2> DEFINE c == [call[h] EXCEPT !.at = next, !.rows = ActiveRows(call[h].order)]
  <2>1. call[h] \in Calls /\ call[h].order \in Orders /\ Placed(call[h].order)
    BY <1>4, <1>a DEF Finds, TypeInv, TypeOK, CallsHaveOrders, PlacedApart
  <2>2. ActiveRows(call[h].order) \in SUBSET Products
    BY DEF ActiveRows
  <2>3. /\ c \in Calls /\ c.at = next /\ c.order = call[h].order
        /\ c.rows = ActiveRows(call[h].order)
    BY <2>1, <2>2 DEF Calls, CallSteps
  <2>4. ActiveRows(call[h].order) \subseteq Lines(call[h].order)
    BY <1>a, <2>1 DEF PlacedApart, ActiveRows
  <2>5. call' = [call EXCEPT ![h] = c] /\ UNCHANGED <<tables, sweep>>
    BY <1>4 DEF Finds, Found
  <2> HIDE DEF c
  <2> QED BY <2>1, <2>3, <2>4, <2>5, ApartCalls
<1>5. ASSUME NEW h \in Handlers, GivesUp(h) PROVE PlacedApart'
  BY <1>5, <1>a, EndApart, ApartKept DEF GivesUp, tables, Placed, Lines, Group
<1>6. ASSUME NEW h \in Handlers, NEW c \in Carts, PlaceCommit(h, c) PROVE PlacedApart'
  <2> DEFINE o == call[h].order
  <2>1. o \in Orders /\ ~Placed(o) /\ \A g \in Handlers \ {h} : call[g].order # o
    BY <1>6, <1>a DEF PlaceCommit, TypeInv, CallsHaveOrders, PlacedApart
  <2>2. /\ status' = [status EXCEPT ![o] = "pending_payment"]
        /\ cart' = [cart EXCEPT ![o] = c]
        /\ row' = [row EXCEPT ![o] = [p \in Products |-> IF c[p] > 0 THEN "active" ELSE "none"]]
        /\ UNCHANGED sweep
        /\ c \in [Products -> Nat]
    BY <1>6, OrderServiceAssumption DEF PlaceCommit
  <2>3. /\ call'[h] = Idle
        /\ \A g \in Handlers \ {h} : call'[g] = call[g]
    BY <1>6, <1>a, EndApart DEF PlaceCommit
  <2> HIDE DEF o
  <2>4. /\ status'[o] = "pending_payment" /\ cart'[o] = c
        /\ \A p \in Products : row'[o][p] = IF c[p] > 0 THEN "active" ELSE "none"
        /\ \A q \in Orders \ {o} : status'[q] = status[q] /\ cart'[q] = cart[q] /\ row'[q] = row[q]
    BY <2>1, <2>2, <1>a DEF TypeInv, TypeOK
  <2>5. \A q \in Orders : ~Placed(q)' => Lines(q)' = {}
    BY <2>1, <2>4, <1>a DEF PlacedApart, Placed, Lines
  <2>6. \A q \in Orders, p \in Products : row'[q][p] = "none" <=> ~(cart'[q][p] > 0)
    BY <2>1, <2>4, <1>a DEF PlacedApart, Lines
  <2>7. ASSUME NEW g \in Handlers, call'[g].at # "idle"
        PROVE  /\ g # h /\ call'[g] = call[g] /\ call[g].order \in Orders \ {o}
               /\ status'[call[g].order] = status[call[g].order]
               /\ cart'[call[g].order] = cart[call[g].order]
    BY <2>7, <2>1, <2>3, <2>4, <1>a DEF TypeInv, CallsHaveOrders, Idle
  <2>8. ASSUME NEW g \in Handlers, call'[g].at = "place"
        PROVE  /\ status'[call'[g].order] = "none"
               /\ \A f \in Handlers \ {g} : call'[f].order # call'[g].order
    BY <2>8, <2>7, <2>3, <1>a, OrderServiceAssumption DEF PlacedApart, Placed, Idle
  <2>9. ASSUME NEW g \in Handlers, call'[g].at \notin {"idle", "place"}
        PROVE  status'[call'[g].order] # "none"
    BY <2>9, <2>7, <1>a DEF PlacedApart, Placed
  <2>10. ASSUME NEW g \in Handlers, call'[g].at \in {"pay_write", "cancel_write"}
         PROVE  (call[g].rows \subseteq Lines(call[g].order))'
    BY <2>10, <2>7, <1>a DEF PlacedApart, Lines
  <2>11. \A q \in Orders : (Group(q) \subseteq Lines(q))'
    BY <2>1, <2>2, <2>4, <1>a DEF PlacedApart, Lines, Group
  <2>12. ASSUME NEW q \in Orders, sweep.order' = q PROVE Placed(q)'
    BY <2>1, <2>2, <2>4, <2>12, <1>a DEF PlacedApart, Placed
  <2> QED BY <2>5, <2>6, <2>8, <2>9, <2>10, <2>11, <2>12 DEF PlacedApart, Placed, Lines
<1>7. ASSUME NEW h \in Handlers, PayCommit(h) PROVE PlacedApart'
  <2>1. /\ call[h].order \in Orders /\ Placed(call[h].order)
        /\ call[h].rows \in SUBSET Products /\ call[h].rows \subseteq Lines(call[h].order)
    BY <1>7, <1>a DEF PayCommit, TypeInv, TypeOK, Calls, CallsHaveOrders, PlacedApart
  <2>2. /\ SetRows(call[h].order, call[h].rows, "committed") /\ End(h)
        /\ status' = [status EXCEPT ![call[h].order] = "paid"] /\ cart' = cart /\ sweep' = sweep
    BY <1>7 DEF PayCommit
  <2> QED BY <2>1, <2>2, <1>a, SettleKeepsLines, EndApart, ApartKept
          DEF Group, RowStatuses, OrderStatuses
<1>8. ASSUME NEW h \in Handlers, CancelCommit(h) PROVE PlacedApart'
  <2>1. /\ call[h].order \in Orders /\ Placed(call[h].order)
        /\ call[h].rows \in SUBSET Products /\ call[h].rows \subseteq Lines(call[h].order)
    BY <1>8, <1>a DEF CancelCommit, TypeInv, TypeOK, Calls, CallsHaveOrders, PlacedApart
  <2>2. /\ SetRows(call[h].order, call[h].rows, "released") /\ End(h)
        /\ status' = [status EXCEPT ![call[h].order] = "cancelled"]
        /\ cart' = cart /\ sweep' = sweep
    BY <1>8 DEF CancelCommit
  <2> QED BY <2>1, <2>2, <1>a, SettleKeepsLines, EndApart, ApartKept
          DEF Group, RowStatuses, OrderStatuses
<1>9. ASSUME NEW h \in Handlers, MoveSave(h) PROVE PlacedApart'
  <2>1. /\ call[h].order \in Orders /\ Placed(call[h].order) /\ call[h].to \in OrderStatuses
    BY <1>9, <1>a DEF MoveSave, TypeInv, TypeOK, Calls, CallsHaveOrders, PlacedApart
  <2>2. /\ status' = [status EXCEPT ![call[h].order] = call[h].to] /\ End(h)
        /\ UNCHANGED <<cart, row, sweep>>
    BY <1>9 DEF MoveSave
  <2>3. \A q \in Orders : Placed(q)' <=> Placed(q)
    BY <2>1, <2>2, <1>a DEF Placed, TypeInv, TypeOK, OrderStatuses
  <2> QED BY <2>2, <2>3, <1>a, EndApart, ApartKept DEF Group, Lines
<1>10. ASSUME SweepFetch PROVE PlacedApart'
  <2>1. \A b \in Batches : b \subseteq Due
    BY DEF Batches, kSubset
  <2>2. \A q \in Orders : Group(q)' \subseteq Lines(q)
    BY <1>10, <2>1, <1>a DEF SweepFetch, Due, Group, PlacedApart
  <2>3. UNCHANGED <<status, cart, row, call>> /\ sweep.order' = NoOrder
    BY <1>10 DEF SweepFetch, tables
  <2> QED BY <2>2, <2>3, <1>a, OrderServiceAssumption DEF PlacedApart, Placed, Lines
<1>11. ASSUME NEW o \in Orders, SweepRead(o) PROVE PlacedApart'
  <2>1. /\ UNCHANGED <<status, cart, row, call>>
        /\ sweep'.batch = sweep.batch /\ sweep'.order = o /\ Placed(o)
    BY <1>11, <1>a DEF SweepRead, tables, TypeInv, TypeOK, Placed
  <2> QED BY <2>1, <1>a DEF PlacedApart, Placed, Lines, Group
<1>12. ASSUME NEW o \in Orders, DropsGroup(o) PROVE PlacedApart'
  BY <1>12, <1>a, DroppedGroup, ApartKept DEF DropsGroup, tables, Placed, Lines
<1>13. ASSUME NEW o \in Orders, SweepWrite(o) PROVE PlacedApart'
  <2>1. Placed(o) /\ Group(o) \subseteq Lines(o) /\ Group(o) \in SUBSET Products
    BY <1>13, <1>a DEF SweepWrite, PlacedApart, Group
  <2>2. /\ SetRows(o, Group(o), "released") /\ sweep' = Dropped(o)
        /\ status' = [status EXCEPT ![o] = "cancelled"] /\ cart' = cart /\ call' = call
    BY <1>13 DEF SweepWrite
  <2>3. \A q \in Orders : Group(q)' \subseteq Group(q)
    BY <2>2, <1>a, DroppedGroup
  <2> QED BY <2>1, <2>2, <2>3, <1>a, SettleKeepsLines, DroppedGroup, ApartKept
          DEF RowStatuses, OrderStatuses
<1>14. ASSUME UNCHANGED <<tables, call, sweep>> PROVE PlacedApart'
  BY <1>14, <1>a DEF tables, PlacedApart, Placed, Lines, Group
<1> QED
  BY <1>1, <1>2, <1>3, <1>4, <1>5, <1>6, <1>7, <1>8, <1>9, <1>10, <1>11, <1>12, <1>13, <1>14,
     <1>a, StepCases

(* No two requests place the same order, and none of the others, nor the     *)
(* sweeper, works on an order that is not placed yet: row ids are fresh uuids.*)
THEOREM RequestsApart == Spec => []ApartInv
<1>1. Init => PlacedApart
  BY OrderServiceAssumption
     DEF Init, PlacedApart, Placed, Lines, Group, NoCart, Idle, Asleep
<1> QED BY <1>1, InitType, TypeStep, ApartStep, PTL DEF Spec, ApartInv

--------------------------------------------------------------------------------
(* What a step may never do to a reservation or to an order row.             *)

(* A row becomes active only when its order is created.                      *)
LEMMA NoReactivation ==
  ASSUME ApartInv, [Next]_vars, NEW o \in Orders, NEW p \in Products,
         row[o][p] \in {"committed", "released"}
  PROVE  row'[o][p] # "active"
<1> USE DEF ApartInv
<1>1. ASSUME NEW h \in Handlers, NEW c \in Carts, PlaceCommit(h, c) PROVE row'[o][p] = row[o][p]
  <2>1. /\ call[h].order \in Orders /\ ~Placed(call[h].order)
        /\ Lines(call[h].order) = {}
    BY <1>1 DEF PlaceCommit, TypeInv, CallsHaveOrders, PlacedApart
  <2>2. row[call[h].order][p] = "none"
    BY <2>1 DEF PlacedApart
  <2>3. o # call[h].order
    BY <2>2
  <2> QED BY <1>1, <2>3 DEF PlaceCommit, TypeInv, TypeOK
<1>2. ASSUME NEW q, NEW ps, NEW s \in {"committed", "released"}, SetRows(q, ps, s)
      PROVE  row'[o][p] # "active"
  BY <1>2 DEF SetRows, TypeInv, TypeOK
<1>3. ASSUME UNCHANGED row PROVE row'[o][p] # "active"
  BY <1>3
<1> QED
  BY <1>1, <1>2, <1>3, WritingSteps
     DEF PayCommit, CancelCommit, MoveSave, SweepWrite, tables

(* Stock that a reservation gave up, by sale or by release, is never held by *)
(* that reservation again.                                                   *)
THEOREM ReservationsStaySettled == Spec => RowsNeverReactivate
<1>1. ApartInv /\ [Next]_vars =>
        [\A o \in Orders, p \in Products :
           row[o][p] \in {"committed", "released"} => row'[o][p] # "active"]_vars
  BY NoReactivation
<1> QED BY <1>1, RequestsApart, PTL DEF Spec, RowsNeverReactivate

(* No step removes an order.                                                 *)
LEMMA PlacedStays ==
  ASSUME ApartInv, [Next]_vars, NEW o \in Orders, Placed(o)
  PROVE  Placed(o)'
<1>1. TypeInv /\ TypeOK
  BY DEF ApartInv, TypeInv
<1>2. ASSUME NEW q, NEW t \in OrderStatuses, status' = [status EXCEPT ![q] = t]
      PROVE  Placed(o)'
  BY <1>1, <1>2 DEF Placed, TypeOK, OrderStatuses
<1>3. ASSUME NEW h \in Handlers, MoveSave(h) PROVE Placed(o)'
  BY <1>1, <1>2, <1>3 DEF MoveSave, TypeOK, Calls
<1>4. ASSUME UNCHANGED status PROVE Placed(o)'
  BY <1>4 DEF Placed
<1> QED
  BY <1>2, <1>3, <1>4, WritingSteps
     DEF PlaceCommit, PayCommit, CancelCommit, SweepWrite, OrderStatuses, tables

(* The coupon's orders exist, so a fresh order is counted once.              *)
CouponInv ==
  /\ IsFiniteSet(discounted)
  /\ \A o \in discounted : Placed(o)
  /\ CouponCountsOrders

(* A placing transaction counts its coupon once, for an order not counted yet.*)
LEMMA CouponStep == ApartInv /\ CouponInv /\ [Next]_vars => CouponInv'
<1> SUFFICES ASSUME ApartInv, CouponInv, [Next]_vars PROVE CouponInv'
  OBVIOUS
<1>1. discounted \in SUBSET Orders /\ \A o \in Orders : Placed(o) => Placed(o)'
  BY PlacedStays DEF ApartInv, TypeInv, TypeOK
<1>2. ASSUME NEW h \in Handlers, NEW c \in Carts, PlaceCommit(h, c) PROVE CouponInv'
  <2>0. PICK o \in Orders : o = call[h].order
    BY <1>2 DEF PlaceCommit, ApartInv, TypeInv, CallsHaveOrders
  <2>1. o \in Orders /\ o \notin discounted
    BY <1>2, <2>0 DEF PlaceCommit, ApartInv, PlacedApart, CouponInv
  <2>2. Placed(o)'
    BY <1>2, <2>0 DEF PlaceCommit, Placed, ApartInv, TypeInv, TypeOK
  <2>3. CASE call[h].coupon
    <3>1. discounted' = discounted \cup {o} /\ used' = used + 1
      BY <1>2, <2>0, <2>3 DEF PlaceCommit
    <3>2. /\ IsFiniteSet(discounted \cup {o})
          /\ Cardinality(discounted \cup {o}) = Cardinality(discounted) + 1
      BY <2>1, FS_AddElement DEF CouponInv
    <3>3. \A q \in discounted' : Placed(q)'
      <4> TAKE q \in discounted'
      <4>1. CASE q = o
        BY <4>1, <2>2
      <4>2. CASE q \in discounted
        BY <4>2, <1>1 DEF CouponInv
      <4> QED BY <3>1, <4>1, <4>2
    <3> QED BY <3>1, <3>2, <3>3 DEF CouponInv, CouponCountsOrders
  <2>4. CASE ~call[h].coupon
    <3>1. UNCHANGED <<discounted, used>>
      BY <1>2, <2>4 DEF PlaceCommit
    <3> QED BY <3>1, <1>1 DEF CouponInv, CouponCountsOrders
  <2> QED BY <2>3, <2>4
<1>3. ASSUME UNCHANGED <<discounted, used>> PROVE CouponInv'
  BY <1>1, <1>3 DEF CouponInv, CouponCountsOrders
<1> QED
  BY <1>2, <1>3, WritingSteps DEF PayCommit, CancelCommit, MoveSave, SweepWrite, tables

(* used_count is the number of orders placed with the coupon, however the    *)
(* placing transactions overlap, commit and fail.                            *)
THEOREM CouponIsCounted == Spec => []CouponCountsOrders
<1>1. Init => CouponInv
  BY FS_EmptySet DEF Init, CouponInv, CouponCountsOrders
<1> QED BY <1>1, RequestsApart, CouponStep, PTL DEF Spec, CouponInv

--------------------------------------------------------------------------------
(* An order's reservations settle together when no batch of the sweeper cuts *)
(* an order, that is when LIMIT is never reached.                            *)

BatchHolds == \A S \in SUBSET (Orders \X Products) : Cardinality(S) <= BatchSize

(* What a request or the sweep has found is all of an order's lines or none. *)
WholeInv ==
  /\ RowsSettleTogether
  /\ \A h \in Handlers : call[h].at \in {"pay_write", "cancel_write"} =>
       call[h].rows \in {{}, Lines(call[h].order)}
  /\ \A o \in Orders : Group(o) \in {{}, Lines(o)}

(* While an order's rows agree, its active rows are all of its rows or none. *)
LEMMA ActiveIsWhole ==
  ASSUME ApartInv, WholeInv, NEW o \in Orders
  PROVE  ActiveRows(o) \in {{}, Lines(o)}
  BY DEF ApartInv, PlacedApart, WholeInv, RowsSettleTogether, ActiveRows, Lines

(* Writing all or none of an order's rows keeps them in agreement.           *)
LEMMA WholeRows ==
  ASSUME ApartInv, WholeInv, NEW o \in Orders, NEW ps \in {{}, Lines(o)}, NEW s, SetRows(o, ps, s)
  PROVE  RowsSettleTogether'
<1> SUFFICES ASSUME NEW q \in Orders, NEW p \in Products, NEW r \in Products,
                    row'[q][p] # "none", row'[q][r] # "none"
             PROVE  row'[q][p] = row'[q][r]
  BY DEF RowsSettleTogether
<1>1. CASE q # o
  BY <1>1 DEF SetRows, ApartInv, TypeInv, TypeOK, WholeInv, RowsSettleTogether
<1>2. CASE q = o /\ ps = {}
  BY <1>2 DEF SetRows, ApartInv, TypeInv, TypeOK, WholeInv, RowsSettleTogether
<1>3. CASE q = o /\ ps = Lines(o)
  BY <1>3 DEF SetRows, ApartInv, TypeInv, TypeOK, PlacedApart
<1> QED BY <1>1, <1>2, <1>3

(* What a request has found stays whole while lines stay as they are.        *)
LEMMA WholeKept ==
  ASSUME ApartInv, WholeInv, RowsSettleTogether',
         \A q \in Orders : Lines(q)' = Lines(q),
         \A g \in Handlers : call'[g] = call[g] \/ call'[g] = Idle,
         \A q \in Orders : Group(q)' = Group(q) \/ Group(q)' = {}
  PROVE  WholeInv'
<1>1. ASSUME NEW g \in Handlers, call'[g].at \in {"pay_write", "cancel_write"}
      PROVE  (call[g].rows \in {{}, Lines(call[g].order)})'
  <2>1. call'[g] = call[g] /\ call[g].order \in Orders
    BY <1>1 DEF Idle, ApartInv, TypeInv, CallsHaveOrders
  <2>2. Lines(call[g].order)' = Lines(call[g].order)
    BY <2>1 DEF Lines
  <2> QED BY <1>1, <2>1, <2>2 DEF WholeInv
<1> QED BY <1>1 DEF WholeInv

(* Every step keeps each order's rows in agreement.                          *)
LEMMA WholeStep == BatchHolds /\ ApartInv /\ WholeInv /\ [Next]_vars => WholeInv'
<1> SUFFICES ASSUME BatchHolds, ApartInv, WholeInv, [Next]_vars PROVE WholeInv'
  OBVIOUS
<1>a. TypeInv /\ PlacedApart
  BY DEF ApartInv
<1>0. ASSUME UNCHANGED <<cart, row>>
      PROVE  RowsSettleTogether' /\ \A q \in Orders : Lines(q)' = Lines(q)
  BY <1>0 DEF WholeInv, RowsSettleTogether, Lines
<1>1. ASSUME NEW h \in Handlers, NEW c, call' = [call EXCEPT ![h] = c], UNCHANGED <<tables, sweep>>,
             c.at \in {"pay_write", "cancel_write"} => c.rows \in {{}, Lines(c.order)}
      PROVE  WholeInv'
  <2>1. /\ call'[h] = c
        /\ \A g \in Handlers \ {h} : call'[g] = call[g]
        /\ UNCHANGED <<cart, row, sweep>>
    BY <1>1, <1>a DEF TypeInv, TypeOK, tables
  <2> QED BY <1>0, <1>1, <2>1 DEF WholeInv, Lines, Group
<1>2. ASSUME NEW h \in Handlers, NEW o \in Orders, NEW k \in BOOLEAN, PlaceRead(h, o, k)
      PROVE  WholeInv'
  BY <1>1, <1>2 DEF PlaceRead, Begin, Idle
<1>3. ASSUME NEW h \in Handlers, NEW o \in Orders, NEW at \in {"pay_find", "cancel_find"},
             BeginsOn(h, o, at)
      PROVE  WholeInv'
  BY <1>1, <1>3 DEF BeginsOn
<1>4. ASSUME NEW h \in Handlers, NEW o \in Orders, NEW s \in Moves, MoveRead(h, o, s)
      PROVE  WholeInv'
  BY <1>1, <1>4 DEF MoveRead, Begin, Idle
<1>5. ASSUME NEW h \in Handlers, NEW next \in {"pay_write", "cancel_write"}, Finds(h, next)
      PROVE  WholeInv'
  <2> DEFINE c == [call[h] EXCEPT !.at = next, !.rows = ActiveRows(call[h].order)]
  <2>1. call[h] \in Calls /\ call[h].order \in Orders
    BY <1>5, <1>a DEF Finds, TypeInv, TypeOK, CallsHaveOrders
  <2>2. c.rows = ActiveRows(call[h].order) /\ c.order = call[h].order
    BY <2>1 DEF Calls
  <2>3. c.rows \in {{}, Lines(c.order)}
    BY <2>1, <2>2, ActiveIsWhole
  <2>4. call' = [call EXCEPT ![h] = c] /\ UNCHANGED <<tables, sweep>>
    BY <1>5 DEF Finds, Found
  <2> HIDE DEF c
  <2> QED BY <1>1, <2>3, <2>4
<1>6. ASSUME NEW h \in Handlers, GivesUp(h) PROVE WholeInv'
  BY <1>0, <1>6, <1>a, EndApart, WholeKept DEF GivesUp, tables, Group
<1>7. ASSUME NEW h \in Handlers, NEW c \in Carts, PlaceCommit(h, c) PROVE WholeInv'
  <2>0. PICK o \in Orders : o = call[h].order
    BY <1>7, <1>a DEF PlaceCommit, TypeInv, CallsHaveOrders
  <2>1. ~Placed(o) /\ Lines(o) = {} /\ \A g \in Handlers \ {h} : call[g].order # o
    BY <1>7, <2>0, <1>a DEF PlaceCommit, PlacedApart
  <2>2. /\ \A p \in Products : row'[o][p] = IF c[p] > 0 THEN "active" ELSE "none"
        /\ \A q \in Orders \ {o} : cart'[q] = cart[q] /\ row'[q] = row[q]
        /\ UNCHANGED sweep
    BY <1>7, <2>0, <1>a DEF PlaceCommit, TypeInv, TypeOK
  <2>3. RowsSettleTogether'
    <3> SUFFICES ASSUME NEW q \in Orders, NEW p \in Products, NEW r \in Products,
                        row'[q][p] # "none", row'[q][r] # "none"
                 PROVE  row'[q][p] = row'[q][r]
      BY DEF RowsSettleTogether
    <3>1. CASE q = o
      BY <3>1, <2>2
    <3>2. CASE q # o
      BY <3>2, <2>2 DEF WholeInv, RowsSettleTogether
    <3> QED BY <3>1, <3>2
  <2>4. \A q \in Orders : Group(q)' \in {{}, Lines(q)'}
    BY <2>1, <2>2, <1>a DEF WholeInv, Group, Lines
  <2>5. ASSUME NEW g \in Handlers, call'[g].at \in {"pay_write", "cancel_write"}
        PROVE  (call[g].rows \in {{}, Lines(call[g].order)})'
    <3>1. g # h /\ call'[g] = call[g]
      BY <1>7, <2>5, <1>a, EndApart DEF PlaceCommit, Idle
    <3>2. call[g].order \in Orders \ {o}
      BY <3>1, <2>1, <2>5, <1>a DEF TypeInv, CallsHaveOrders
    <3>3. Lines(call[g].order)' = Lines(call[g].order)
      BY <3>1, <3>2, <2>2 DEF Lines
    <3> QED BY <2>5, <3>1, <3>3 DEF WholeInv
  <2> QED BY <2>3, <2>4, <2>5 DEF WholeInv
<1>8. ASSUME NEW h \in Handlers, NEW s, End(h), SetRows(call[h].order, call[h].rows, s),
             call[h].at \in {"pay_write", "cancel_write"}, UNCHANGED <<cart, sweep>>
      PROVE  WholeInv'
  <2>1. call[h].order \in Orders /\ call[h].rows \in {{}, Lines(call[h].order)}
    BY <1>8, <1>a DEF TypeInv, CallsHaveOrders, WholeInv
  <2>2. RowsSettleTogether'
    BY <1>8, <2>1, WholeRows
  <2> QED BY <1>8, <1>a, <2>2, EndApart, WholeKept DEF Lines, Group
<1>9. ASSUME NEW h \in Handlers, MoveSave(h) PROVE WholeInv'
  BY <1>0, <1>9, <1>a, EndApart, WholeKept DEF MoveSave, Group
<1>10. ASSUME SweepFetch PROVE WholeInv'
  <2>1. Due \in SUBSET (Orders \X Products)
    BY <1>a DEF Due, TypeInv, TypeOK
  <2>2. Batches = {Due}
    BY <2>1 DEF BatchHolds, Batches
  <2>3. sweep'.batch = Due
    BY <1>10, <2>2 DEF SweepFetch
  <2>4. \A q \in Orders : Group(q)' = {} \/ Group(q)' = ActiveRows(q)
    BY <2>3 DEF Group, Due, ActiveRows
  <2>5. \A q \in Orders : Group(q)' \in {{}, Lines(q)}
    BY <2>4, ActiveIsWhole
  <2>6. UNCHANGED <<cart, row, call>>
    BY <1>10 DEF SweepFetch, tables
  <2> QED BY <1>0, <2>5, <2>6 DEF WholeInv, Lines
<1>11. ASSUME NEW o \in Orders, SweepRead(o) PROVE WholeInv'
  <2>1. UNCHANGED <<cart, row, call>> /\ sweep'.batch = sweep.batch
    BY <1>11, <1>a DEF SweepRead, tables, TypeInv, TypeOK
  <2> QED BY <1>0, <2>1, WholeKept DEF Group
<1>12. ASSUME NEW o \in Orders, sweep' = Dropped(o)
       PROVE  \A q \in Orders : Group(q)' = Group(q) \/ Group(q)' = {}
  BY <1>12, <1>a, DroppedGroup
<1>13. ASSUME NEW o \in Orders, DropsGroup(o) PROVE WholeInv'
  BY <1>0, <1>12, <1>13, WholeKept DEF DropsGroup, tables
<1>14. ASSUME NEW o \in Orders, SweepWrite(o) PROVE WholeInv'
  <2>1. RowsSettleTogether'
    BY <1>14, WholeRows DEF SweepWrite, WholeInv
  <2> QED BY <1>12, <1>14, <2>1, WholeKept DEF SweepWrite, Lines
<1>15. ASSUME UNCHANGED <<tables, call, sweep>> PROVE WholeInv'
  BY <1>0, <1>15, WholeKept DEF tables, Group
<1> QED
  BY <1>2, <1>3, <1>4, <1>5, <1>6, <1>7, <1>8, <1>9, <1>10, <1>11, <1>13, <1>14, <1>15,
     <1>a, StepCases DEF PayCommit, CancelCommit

(* While the sweeper's LIMIT cuts no order, payments, cancellations and      *)
(* sweeps that overlap leave an order's reservations all in the same state.  *)
THEOREM OrdersSettleWhole == ASSUME BatchHolds PROVE Spec => []RowsSettleTogether
<1>1. Init => WholeInv
  BY OrderServiceAssumption
     DEF Init, WholeInv, RowsSettleTogether, Group, Lines, Idle, Asleep
<1>2. ApartInv /\ WholeInv /\ [Next]_vars => WholeInv'
  BY WholeStep
<1> QED BY <1>1, <1>2, RequestsApart, PTL DEF Spec, WholeInv

--------------------------------------------------------------------------------
(* A settled order holds no stock where nobody calls UpdateOrderStatus.      *)

(* What a request is about to settle covers all that the order still holds.  *)
HoldInv ==
  /\ SettledOrdersHoldNothing
  /\ \A h \in Handlers : call[h].at \in {"pay_write", "cancel_write"} =>
       ActiveRows(call[h].order) \subseteq call[h].rows
  /\ \A h \in Handlers : call[h].at # "move"
  /\ \A o \in Orders : sweep.order = o => Group(o) # {}

(* Active rows of a placed order only become fewer.                          *)
LEMMA ActiveShrinks ==
  ASSUME ApartInv, [Next]_vars, NEW o \in Orders, Placed(o)
  PROVE  ActiveRows(o)' \subseteq ActiveRows(o)
<1> SUFFICES ASSUME NEW p \in Products, row'[o][p] = "active" PROVE row[o][p] = "active"
  BY DEF ActiveRows
<1>a. TypeOK /\ TypeInv /\ PlacedApart
  BY DEF ApartInv, TypeInv
<1>1. ASSUME NEW h \in Handlers, NEW c \in Carts, PlaceCommit(h, c) PROVE row'[o] = row[o]
  <2>1. o # call[h].order
    BY <1>1, <1>a DEF PlaceCommit, PlacedApart
  <2> QED BY <1>1, <2>1, <1>a DEF PlaceCommit, TypeOK
<1>2. ASSUME NEW q, NEW ps, NEW s \in {"committed", "released"}, SetRows(q, ps, s)
      PROVE  row[o][p] = "active"
  BY <1>2, <1>a DEF SetRows, TypeOK
<1>3. ASSUME UNCHANGED row PROVE row[o][p] = "active"
  BY <1>3
<1> QED
  BY <1>1, <1>2, <1>3, WritingSteps
     DEF PayCommit, CancelCommit, MoveSave, SweepWrite, tables

(* After a settling transaction the order it settled holds nothing.          *)
LEMMA SettlesAll ==
  ASSUME ApartInv, NEW o \in Orders, NEW ps, ActiveRows(o) \subseteq ps,
         NEW s \in {"committed", "released"}, SetRows(o, ps, s)
  PROVE  ActiveRows(o)' = {}
  BY DEF ActiveRows, SetRows, ApartInv, TypeInv, TypeOK

(* A step that settles an order leaves it no active row.                     *)
LEMMA NewlySettled ==
  ASSUME ApartInv, WholeInv, HoldInv, [Next]_vars, NEW o \in Orders,
         status[o] \notin {"paid", "cancelled"}, status'[o] \in {"paid", "cancelled"}
  PROVE  ActiveRows(o)' = {}
<1>a. TypeInv /\ PlacedApart
  BY DEF ApartInv
<1>1. ASSUME NEW h \in Handlers, NEW c \in Carts, PlaceCommit(h, c) PROVE FALSE
  BY <1>1, <1>a DEF PlaceCommit, TypeInv, TypeOK
<1>2. ASSUME NEW h \in Handlers, PayCommit(h) PROVE ActiveRows(o)' = {}
  <2>1. o = call[h].order
    BY <1>2, <1>a DEF PayCommit, TypeInv, TypeOK
  <2> QED BY <1>2, <2>1, SettlesAll DEF PayCommit, HoldInv
<1>3. ASSUME NEW h \in Handlers, CancelCommit(h) PROVE ActiveRows(o)' = {}
  <2>1. o = call[h].order
    BY <1>3, <1>a DEF CancelCommit, TypeInv, TypeOK
  <2> QED BY <1>3, <2>1, SettlesAll DEF CancelCommit, HoldInv
<1>4. ASSUME NEW h \in Handlers, MoveSave(h) PROVE FALSE
  BY <1>4 DEF MoveSave, HoldInv
<1>5. ASSUME NEW q \in Orders, SweepWrite(q) PROVE ActiveRows(o)' = {}
  <2>1. o = q
    BY <1>5, <1>a DEF SweepWrite, TypeInv, TypeOK
  <2>2. Group(o) = Lines(o)
    BY <1>5, <2>1 DEF SweepWrite, HoldInv, WholeInv
  <2>3. ActiveRows(o) \subseteq Group(o)
    BY <2>2, ActiveIsWhole
  <2> QED BY <1>5, <2>1, <2>3, SettlesAll DEF SweepWrite
<1> QED BY <1>1, <1>2, <1>3, <1>4, <1>5, WritingSteps DEF tables

(* Every step keeps settled orders free of held stock.                       *)
LEMMA HoldStep ==
  Moves = {} /\ ApartInv /\ WholeInv /\ HoldInv /\ [Next]_vars => HoldInv'
<1> SUFFICES ASSUME Moves = {}, ApartInv, WholeInv, HoldInv, [Next]_vars PROVE HoldInv'
  OBVIOUS
<1>a. TypeInv /\ PlacedApart
  BY DEF ApartInv
<1>1. SettledOrdersHoldNothing'
  <2> SUFFICES ASSUME NEW o \in Orders, status'[o] \in {"paid", "cancelled"}
               PROVE  ActiveRows(o)' = {}
    BY DEF SettledOrdersHoldNothing
  <2>1. CASE status[o] \in {"paid", "cancelled"}
    BY <2>1, ActiveShrinks DEF HoldInv, SettledOrdersHoldNothing, Placed
  <2> QED BY <2>1, NewlySettled
\* What every handler is doing after the step.
<1>2. ASSUME NEW g \in Handlers
      PROVE  \/ call'[g] = call[g]
             \/ call'[g].at \in {"idle", "place", "pay_find", "cancel_find"}
             \/ /\ call'[g].order = call[g].order /\ call[g].order \in Orders
                /\ Placed(call[g].order)
                /\ call'[g].at # "move" /\ call'[g].rows = ActiveRows(call[g].order)
  <2>1. ASSUME NEW h \in Handlers, NEW next \in {"pay_write", "cancel_write"}, Finds(h, next), g = h
        PROVE  /\ call'[g].order = call[g].order /\ call[g].order \in Orders
               /\ Placed(call[g].order)
               /\ call'[g].at # "move" /\ call'[g].rows = ActiveRows(call[g].order)
    <3>1. call[h] \in Calls /\ call[h].order \in Orders /\ Placed(call[h].order)
      BY <2>1, <1>a DEF Finds, TypeInv, TypeOK, CallsHaveOrders, PlacedApart
    <3>2. call'[h] = [call[h] EXCEPT !.at = next, !.rows = ActiveRows(call[h].order)]
      BY <2>1, <1>a DEF Finds, Found, TypeInv, TypeOK
    <3> QED BY <2>1, <3>1, <3>2 DEF Calls
  <2>2. ASSUME NEW h \in Handlers, NEW c, call' = [call EXCEPT ![h] = c],
               c.at \in {"idle", "place", "pay_find", "cancel_find"}
        PROVE  call'[g] = call[g] \/ call'[g].at \in {"idle", "place", "pay_find", "cancel_find"}
    BY <2>2, <1>a DEF TypeInv, TypeOK
  <2>3. ASSUME NEW h \in Handlers, End(h)
        PROVE  call'[g] = call[g] \/ call'[g].at \in {"idle", "place", "pay_find", "cancel_find"}
    BY <2>2, <2>3 DEF End, Idle
  <2>4. ASSUME NEW h \in Handlers, NEW o \in Orders, NEW k \in BOOLEAN, PlaceRead(h, o, k)
        PROVE  call'[g] = call[g] \/ call'[g].at \in {"idle", "place", "pay_find", "cancel_find"}
    BY <2>2, <2>4 DEF PlaceRead, Begin, Idle
  <2>5. ASSUME NEW h \in Handlers, NEW o \in Orders, NEW at \in {"pay_find", "cancel_find"},
               BeginsOn(h, o, at)
        PROVE  call'[g] = call[g] \/ call'[g].at \in {"idle", "place", "pay_find", "cancel_find"}
    BY <2>2, <2>5 DEF BeginsOn
  <2>6. ASSUME NEW h \in Handlers, NEW next \in {"pay_write", "cancel_write"}, Finds(h, next), g # h
        PROVE  call'[g] = call[g]
    BY <2>6, <1>a DEF Finds, Found, TypeInv, TypeOK
  <2> QED
    BY <2>1, <2>3, <2>4, <2>5, <2>6, <1>a, StepCases
       DEF GivesUp, PlaceCommit, PayCommit, CancelCommit, MoveSave, SweepFetch, SweepRead,
           DropsGroup, SweepWrite
<1>3. ASSUME NEW g \in Handlers, call'[g].at \in {"pay_write", "cancel_write"}
      PROVE  (ActiveRows(call[g].order) \subseteq call[g].rows)'
  <2>0. /\ call'[g].order = call[g].order /\ call[g].order \in Orders /\ Placed(call[g].order)
        /\ ActiveRows(call[g].order) \subseteq call'[g].rows
    BY <1>2, <1>3, <1>a DEF HoldInv, TypeInv, CallsHaveOrders, PlacedApart
  <2>1. PICK o \in Orders : o = call[g].order
    BY <2>0
  <2>2. ActiveRows(o)' \subseteq ActiveRows(o)
    BY <2>0, <2>1, ActiveShrinks
  <2>3. (ActiveRows(call[g].order))' = ActiveRows(o)'
    BY <2>0, <2>1 DEF ActiveRows
  <2> QED BY <2>0, <2>1, <2>2, <2>3
<1>4. \A g \in Handlers : call'[g].at # "move"
  BY <1>2 DEF HoldInv
<1>5. ASSUME NEW o \in Orders, sweep.order' = o PROVE Group(o)' # {}
  <2>1. ASSUME UNCHANGED sweep PROVE Group(o)' # {}
    BY <1>5, <2>1 DEF HoldInv, Group
  <2>2. ASSUME SweepFetch PROVE FALSE
    BY <1>5, <2>2, OrderServiceAssumption DEF SweepFetch
  <2>3. ASSUME NEW q \in Orders, SweepRead(q) PROVE Group(o)' # {}
    BY <1>5, <2>3, <1>a DEF SweepRead, Group, TypeInv, TypeOK
  <2>4. ASSUME NEW q \in Orders, sweep' = Dropped(q) PROVE FALSE
    BY <1>5, <2>4, OrderServiceAssumption DEF Dropped
  <2> QED
    BY <2>1, <2>2, <2>3, <2>4, <1>a, StepCases
       DEF PlaceRead, BeginsOn, Finds, GivesUp, PlaceCommit, PayCommit, CancelCommit,
           MoveRead, MoveSave, DropsGroup, SweepWrite
<1> QED BY <1>1, <1>3, <1>4, <1>5 DEF HoldInv

(* Where the order service alone settles orders and LIMIT cuts none, an      *)
(* order that was paid or cancelled holds no stock, whatever overlaps.       *)
THEOREM SettledHoldNothing ==
  ASSUME BatchHolds, Moves = {} PROVE Spec => []SettledOrdersHoldNothing
<1>1. Init => WholeInv /\ HoldInv
  BY OrderServiceAssumption
     DEF Init, WholeInv, HoldInv, RowsSettleTogether, SettledOrdersHoldNothing, ActiveRows,
         Group, Lines, Idle, Asleep
<1>2. ApartInv /\ WholeInv /\ [Next]_vars => WholeInv'
  BY WholeStep
<1>3. ApartInv /\ WholeInv /\ HoldInv /\ [Next]_vars => HoldInv'
  BY HoldStep
<1> QED BY <1>1, <1>2, <1>3, RequestsApart, PTL DEF Spec, HoldInv

--------------------------------------------------------------------------------
(* Units of a product over the orders whose rows have a status.              *)

Units(c, r, p, s) == SumFunctionOnSet([o \in Orders |-> c[o][p]], {o \in Orders : r[o][p] = s})

Carted == [Orders -> [Products -> Nat]]

Rowed == [Orders -> [Products -> RowStatuses]]

\* Carts d and rows q have the rows with status s that carts c and rows r have.
Keeps(c, r, d, q, p, s) ==
  /\ \A o \in Orders : q[o][p] = s <=> r[o][p] = s
  /\ \A o \in Orders : r[o][p] = s => d[o][p] = c[o][p]

\* They have one more, the row of o.
Gains(c, r, d, q, p, s, o) ==
  /\ q[o][p] = s /\ r[o][p] # s
  /\ \A x \in Orders \ {o} : /\ q[x][p] = s <=> r[x][p] = s
                             /\ d[x][p] = c[x][p]

(* Units are counted, and an order's units are among them.                   *)
LEMMA UnitsType ==
  ASSUME IsFiniteSet(Orders), NEW c \in Carted, NEW r, NEW p \in Products, NEW s
  PROVE  Units(c, r, p, s) \in Nat
<1> DEFINE S == {o \in Orders : r[o][p] = s}
           f == [o \in Orders |-> c[o][p]]
<1>1. IsFiniteSet(S) /\ \A x \in S : f[x] \in Nat
  BY FS_Subset DEF Carted
<1> HIDE DEF S, f
<1>2. SumFunctionOnSet(f, S) \in Nat
  BY <1>1, SumType
<1> QED BY <1>2 DEF S, f, Units

(* The same rows of unchanged carts are as many units.                       *)
LEMMA UnitsSame ==
  ASSUME IsFiniteSet(Orders), NEW c \in Carted, NEW d \in Carted, NEW r, NEW q,
         NEW p \in Products, NEW s, Keeps(c, r, d, q, p, s)
  PROVE  Units(d, q, p, s) = Units(c, r, p, s)
<1> DEFINE S == {o \in Orders : r[o][p] = s}
           f == [o \in Orders |-> c[o][p]]
           g == [o \in Orders |-> d[o][p]]
<1>1. IsFiniteSet(S) /\ \A x \in S : f[x] \in Nat /\ f[x] = g[x]
  BY FS_Subset DEF Carted, Keeps
<1>2. {o \in Orders : q[o][p] = s} = S
  BY DEF Keeps
<1>3. Units(c, r, p, s) = SumFunctionOnSet(f, S) /\ Units(d, q, p, s) = SumFunctionOnSet(g, S)
  BY <1>2 DEF Units
<1> HIDE DEF S, f, g
<1> QED BY <1>1, <1>3, SumSame

(* A row more that has the status adds the order's units.                    *)
LEMMA UnitsMore ==
  ASSUME IsFiniteSet(Orders), NEW c \in Carted, NEW d \in Carted, NEW r, NEW q,
         NEW p \in Products, NEW s, NEW o \in Orders, Gains(c, r, d, q, p, s, o)
  PROVE  Units(d, q, p, s) = d[o][p] + Units(c, r, p, s)
<1> DEFINE S == {x \in Orders : r[x][p] = s}
           f == [x \in Orders |-> c[x][p]]
           g == [x \in Orders |-> d[x][p]]
<1>1. IsFiniteSet(S) /\ o \notin S /\ \A x \in S : f[x] \in Nat /\ f[x] = g[x]
  BY FS_Subset DEF Carted, Gains
<1>2. {x \in Orders : q[x][p] = s} = S \cup {o}
  BY DEF Gains
<1>3. \A x \in S \cup {o} : g[x] \in Nat
  BY DEF Carted
<1>4. /\ Units(c, r, p, s) = SumFunctionOnSet(f, S)
      /\ Units(d, q, p, s) = SumFunctionOnSet(g, S \cup {o})
      /\ g[o] = d[o][p]
  BY <1>2 DEF Units
<1> HIDE DEF S, f, g
<1>5. SumFunctionOnSet(g, S \cup {o}) = g[o] + SumFunctionOnSet(g, S)
  BY <1>1, <1>3, SumAdd
<1>6. SumFunctionOnSet(g, S) = SumFunctionOnSet(f, S)
  BY <1>1, SumSame
<1> QED BY <1>4, <1>5, <1>6

(* An order's units are among those of the status its row has.               *)
LEMMA UnitsHold ==
  ASSUME IsFiniteSet(Orders), NEW c \in Carted, NEW r \in Rowed, NEW p \in Products, NEW s,
         NEW o \in Orders, r[o][p] = s
  PROVE  c[o][p] <= Units(c, r, p, s)
<1> DEFINE S == {x \in Orders : r[x][p] = s}
           f == [x \in Orders |-> c[x][p]]
<1>1. IsFiniteSet(S) /\ o \in S /\ \A x \in S : f[x] \in Nat
  BY FS_Subset DEF Carted
<1>2. f[o] = c[o][p] /\ Units(c, r, p, s) = SumFunctionOnSet(f, S)
  BY DEF Units
<1> HIDE DEF S, f
<1>3. SumFunctionOnSet(f, S) = f[o] + SumFunctionOnSet(f, S \ {o})
  BY <1>1, SumTakeOut
<1>4. SumFunctionOnSet(f, S \ {o}) \in Nat /\ f[o] \in Nat
  BY <1>1, FS_Subset, SumType
<1> QED BY <1>2, <1>3, <1>4

(* Rows that leave a status take no more than their units with them.         *)
LEMMA UnitsFewer ==
  ASSUME IsFiniteSet(Orders), NEW c \in Carted, NEW r, NEW q, NEW p \in Products, NEW s,
         \A o \in Orders : q[o][p] = s => r[o][p] = s
  PROVE  Units(c, q, p, s) <= Units(c, r, p, s)
<1> DEFINE S == {o \in Orders : r[o][p] = s}
           T == {o \in Orders : q[o][p] = s}
           f == [o \in Orders |-> c[o][p]]
<1>1. IsFiniteSet(S) /\ T \in SUBSET S /\ \A x \in S : f[x] \in Nat
  BY FS_Subset DEF Carted
<1> HIDE DEF S, T, f
<1>2. SumFunctionOnSet(f, T) <= SumFunctionOnSet(f, S)
  BY <1>1, SumMonotone
<1> QED BY <1>2 DEF S, T, f, Units

--------------------------------------------------------------------------------
(* What is sold is never more than there was.                                *)

(* The order that a placement creates had no rows.                           *)
LEMMA FreshRows ==
  ASSUME ApartInv, NEW h \in Handlers, NEW c \in Carts, PlaceCommit(h, c)
  PROVE  LET o == call[h].order IN
         /\ o \in Orders /\ c \in [Products -> Nat]
         /\ \A p \in Products : row[o][p] = "none"
         /\ cart'[o] = c
         /\ \A p \in Products : row'[o][p] = IF c[p] > 0 THEN "active" ELSE "none"
         /\ \A q \in Orders \ {o} : cart'[q] = cart[q] /\ row'[q] = row[q]
         /\ cart' \in Carted
<1> DEFINE o == call[h].order
<1>1. o \in Orders /\ ~Placed(o)
  BY DEF PlaceCommit, ApartInv, TypeInv, CallsHaveOrders, PlacedApart
<1>2. /\ cart' = [cart EXCEPT ![o] = c] /\ c \in [Products -> Nat]
      /\ row' = [row EXCEPT ![o] = [p \in Products |-> IF c[p] > 0 THEN "active" ELSE "none"]]
  BY OrderServiceAssumption DEF PlaceCommit
<1>3. Lines(o) = {} /\ \A p \in Products : row[o][p] = "none"
  BY <1>1 DEF ApartInv, PlacedApart
<1> HIDE DEF o
<1>4. cart \in Carted /\ row \in Rowed
  BY DEF ApartInv, TypeInv, TypeOK, Carted, Rowed
<1>5. cart' \in Carted
  BY <1>1, <1>2, <1>4 DEF Carted
<1>6. /\ cart'[o] = c
      /\ \A p \in Products : row'[o][p] = IF c[p] > 0 THEN "active" ELSE "none"
      /\ \A q \in Orders \ {o} : cart'[q] = cart[q] /\ row'[q] = row[q]
  BY <1>1, <1>2, <1>4 DEF Carted, Rowed
<1> QED BY <1>1, <1>2, <1>3, <1>5, <1>6 DEF o

(* Writing rows changes those rows.                                          *)
LEMMA RowsWritten ==
  ASSUME TypeInv, NEW o \in Orders, NEW ps, NEW s \in RowStatuses, SetRows(o, ps, s)
  PROVE  /\ \A p \in Products : row'[o][p] = IF p \in ps THEN s ELSE row[o][p]
         /\ \A q \in Orders \ {o} : row'[q] = row[q]
  BY DEF TypeInv, TypeOK, SetRows

(* Only a payment takes stock, and the rows it commits take as many units.   *)
LEMMA OversellStep ==
  ASSUME IsFiniteSet(Orders), ApartInv, NoOversell, [Next]_vars
  PROVE  NoOversell'
<1> SUFFICES ASSUME NEW p \in Products
             PROVE  stock'[p] + Units(cart', row', p, "committed") <= InitialStock[p]
  BY DEF NoOversell, UnitsIn, Units
<1>1. /\ stock[p] + Units(cart, row, p, "committed") <= InitialStock[p]
      /\ stock[p] \in Nat /\ InitialStock[p] \in Nat
      /\ TypeInv /\ cart \in Carted /\ row \in Rowed
      /\ Units(cart, row, p, "committed") \in Nat
  <2>1. cart \in Carted /\ row \in Rowed /\ TypeInv /\ stock[p] \in Nat /\ InitialStock[p] \in Nat
    BY OrderServiceAssumption DEF ApartInv, TypeInv, TypeOK, Carted, Rowed
  <2>2. Units(cart, row, p, "committed") \in Nat
    BY <2>1, UnitsType
  <2>3. stock[p] + Units(cart, row, p, "committed") <= InitialStock[p]
    BY DEF NoOversell, UnitsIn, Units
  <2> QED BY <2>1, <2>2, <2>3
<1>2. ASSUME UNCHANGED <<stock, cart>>,
             \A o \in Orders : row'[o][p] = "committed" => row[o][p] = "committed"
      PROVE  stock'[p] + Units(cart', row', p, "committed") <= InitialStock[p]
  <2>1. /\ Units(cart, row', p, "committed") <= Units(cart, row, p, "committed")
        /\ Units(cart, row', p, "committed") \in Nat
    BY <1>1, <1>2, UnitsFewer, UnitsType
  <2> QED BY <1>1, <1>2, <2>1
<1>3. ASSUME NEW h \in Handlers, NEW c \in Carts, PlaceCommit(h, c)
      PROVE  stock'[p] + Units(cart', row', p, "committed") <= InitialStock[p]
  <2>1. PICK o \in Orders :
          /\ row[o][p] = "none" /\ row'[o][p] \in {"active", "none"}
          /\ \A q \in Orders \ {o} : cart'[q] = cart[q] /\ row'[q] = row[q]
    BY <1>3, FreshRows
  <2>2. cart' \in Carted /\ stock' = stock
    BY <1>3, FreshRows DEF PlaceCommit
  <2>3. Keeps(cart, row, cart', row', p, "committed")
    BY <2>1 DEF Keeps
  <2>4. cart \in Carted
    BY <1>1
  <2>5. Units(cart', row', p, "committed") = Units(cart, row, p, "committed")
    BY <2>2, <2>3, <2>4, UnitsSame
  <2> QED BY <1>1, <2>2, <2>5
<1>4. ASSUME NEW h \in Handlers, PayCommit(h)
      PROVE  stock'[p] + Units(cart', row', p, "committed") <= InitialStock[p]
  <2> DEFINE o == call[h].order
             ps == call[h].rows
  <2>1. o \in Orders /\ ps \in SUBSET Products
    BY <1>4, <1>1 DEF PayCommit, TypeInv, TypeOK, Calls, CallsHaveOrders
  <2>2. /\ SetRows(o, ps, "committed") /\ cart' = cart /\ stock' = Minus(stock, o, ps)
        /\ \A r \in ps : cart[o][r] <= stock[r]
    BY <1>4 DEF PayCommit, CanCommit
  <2> HIDE DEF o, ps
  <2>3. /\ \A r \in Products : row'[o][r] = IF r \in ps THEN "committed" ELSE row[o][r]
        /\ \A q \in Orders \ {o} : row'[q] = row[q]
    BY <1>1, <2>1, <2>2, RowsWritten DEF RowStatuses
  <2>4. CASE p \notin ps
    <3>1. stock'[p] = stock[p]
      BY <2>2, <2>4 DEF Minus
    <3>2. Keeps(cart, row, cart', row', p, "committed") /\ cart \in Carted /\ cart' \in Carted
      BY <1>1, <2>2, <2>3, <2>4 DEF Keeps
    <3>3. Units(cart', row', p, "committed") = Units(cart, row, p, "committed")
      BY <3>2, UnitsSame
    <3> QED BY <1>1, <3>1, <3>3
  <2>5. CASE p \in ps
    <3>1. stock'[p] = stock[p] - cart[o][p] /\ cart[o][p] \in Nat
      BY <1>1, <2>1, <2>2, <2>5 DEF Minus, Carted
    <3>2. CASE row[o][p] = "committed"
      <4>1. Keeps(cart, row, cart', row', p, "committed") /\ cart \in Carted /\ cart' \in Carted
        BY <1>1, <2>2, <2>3, <2>5, <3>2 DEF Keeps
      <4>2. Units(cart', row', p, "committed") = Units(cart, row, p, "committed")
        BY <4>1, UnitsSame
      <4> QED BY <1>1, <3>1, <4>2
    <3>3. CASE row[o][p] # "committed"
      <4>1. Gains(cart, row, cart', row', p, "committed", o)
        BY <2>2, <2>3, <2>5, <3>3 DEF Gains
      <4>2. cart \in Carted /\ cart' \in Carted /\ cart'[o][p] = cart[o][p]
        BY <1>1, <2>2
      <4>3. Units(cart', row', p, "committed") = cart'[o][p] + Units(cart, row, p, "committed")
        BY <2>1, <4>1, <4>2, UnitsMore
      <4> QED BY <1>1, <3>1, <4>2, <4>3
    <3> QED BY <3>2, <3>3
  <2> QED BY <2>4, <2>5
<1>5. ASSUME NEW h \in Handlers, CancelCommit(h)
      PROVE  \A o \in Orders : row'[o][p] = "committed" => row[o][p] = "committed"
  <2>1. call[h].order \in Orders /\ SetRows(call[h].order, call[h].rows, "released")
    BY <1>5, <1>1 DEF CancelCommit, TypeInv, CallsHaveOrders
  <2> QED BY <2>1, <1>1, RowsWritten DEF RowStatuses
<1>6. ASSUME NEW o \in Orders, SweepWrite(o)
      PROVE  \A q \in Orders : row'[q][p] = "committed" => row[q][p] = "committed"
  BY <1>1, <1>6, RowsWritten DEF SweepWrite, RowStatuses
<1> QED
  BY <1>1, <1>2, <1>3, <1>4, <1>5, <1>6, WritingSteps DEF CancelCommit, SweepWrite, MoveSave, tables

(* However requests, payments, cancellations and sweeps overlap, what the    *)
(* committed reservations of a product sold and what is left on the shelf    *)
(* are together no more than there was (internal/order/service/order.go).    *)
THEOREM NothingOversold == ASSUME IsFiniteSet(Orders) PROVE Spec => []NoOversell
<1>1. Init => NoOversell
  <2> SUFFICES ASSUME Init, NEW p \in Products
               PROVE  stock[p] + UnitsIn(p, "committed") <= InitialStock[p]
    BY DEF NoOversell
  <2>1. {o \in Orders : row[o][p] = "committed"} = {}
    BY DEF Init
  <2>2. UnitsIn(p, "committed") = 0
    BY <2>1, SumEmpty DEF UnitsIn
  <2> QED BY <2>2, OrderServiceAssumption DEF Init
<1>2. ApartInv /\ NoOversell /\ [Next]_vars => NoOversell'
  BY OversellStep
<1> QED BY <1>1, <1>2, RequestsApart, PTL DEF Spec

=============================================================================
