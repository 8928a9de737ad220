--------------------------- MODULE OrderSerialProofs ---------------------------
(***************************************************************************)
(* What holds of orders when requests and sweeps come one after another,   *)
(* for any number of orders and products.  It rests on reads that are      *)
(* still true when the request writes, which nothing but the order of      *)
(* requests ensures.                                                       *)
(***************************************************************************)
EXTENDS OrderProofs

Serial == IsFiniteSet(Handlers) /\ MaxInFlight = 1

Quiet == sweep = Asleep /\ \A h \in Handlers : call[h] = Idle

(* One request or sweep at a time.                                           *)
OneAtATime ==
  /\ \A g, h \in Handlers : call[g] # Idle /\ call[h] # Idle => g = h
  /\ sweep # Asleep => \A h \in Handlers : call[h] = Idle

(* What a request has read is still so.                                      *)
StillRead(c) ==
  /\ c.at = "place" => ~Placed(c.order) /\ (c.coupon => used < MaxUsage)
  /\ c.at \in {"pay_find", "pay_write"} =>
       status[c.order] \notin {"none", "paid", "cancelled", "payment_failed"}
  /\ c.at \in {"cancel_find", "cancel_write"} =>
       status[c.order] \notin {"none", "done", "cancelled", "paid"}
  /\ c.at \in {"pay_write", "cancel_write"} => c.rows = ActiveRows(c.order)
  /\ c.at = "move" => /\ status[c.order] # "none" /\ c.to \in Moves
                      /\ CanTransitionTo(status[c.order], c.to)

(* So is what the sweep has read.                                            *)
SweptIsOpen == sweep.order # NoOrder => status[sweep.order] \in {"pending_payment", "new"}

(* Only cancelled orders have given stock back.                              *)
ReleasedIsCancelled ==
  \A o \in Orders, p \in Products : row[o][p] = "released" => status[o] = "cancelled"

Settled ==
  /\ CouponWithinLimit
  /\ ReleasedIsCancelled
  /\ "paid" \notin Moves => PaidOrdersAreBacked

SerialInv ==
  /\ OneAtATime
  /\ \A h \in Handlers : StillRead(call[h])
  /\ SweptIsOpen
  /\ Settled

(* A request or sweep begins only when nothing else runs.                    *)
LEMMA BeginsAlone == ASSUME Serial, TypeInv, MayBegin PROVE Quiet
<1>1. IsFiniteSet(Busy)
  BY FS_Subset DEF Serial, Busy
<1>2. Cardinality(Busy) \in Nat
  BY <1>1, FS_CardinalityType
<1>3. Cardinality(Busy) = 0 /\ sweep = Asleep
  <2>1. Cardinality(Busy) + (IF sweep = Asleep THEN 0 ELSE 1) < 1
    BY DEF MayBegin, Serial
  <2> QED BY <1>2, <2>1
<1>4. Busy = {}
  BY <1>1, <1>3, FS_EmptySet
<1> QED BY <1>3, <1>4 DEF Quiet, Busy

(* When nothing runs, nothing that was read matters.                         *)
LEMMA QuietAgain == ASSUME Quiet', Settled' PROVE SerialInv'
<1>1. ASSUME NEW h \in Handlers PROVE StillRead(call[h])'
  BY DEF Quiet, Idle, StillRead
<1> QED BY <1>1 DEF Quiet, SerialInv, OneAtATime, SweptIsOpen, Asleep

(* A request that ends was alone.                                            *)
LEMMA EndsAlone ==
  ASSUME TypeInv, SerialInv, NEW h \in Handlers, call[h] # Idle, End(h), sweep' = sweep
  PROVE  Quiet'
<1>1. sweep = Asleep /\ \A g \in Handlers \ {h} : call[g] = Idle
  BY DEF SerialInv, OneAtATime
<1> QED BY <1>1 DEF End, TypeInv, TypeOK, Quiet

(* A request goes on, alone, with what it has just read.                     *)
LEMMA GoesOn ==
  ASSUME TypeInv, SerialInv, NEW h \in Handlers, NEW c \in Calls,
         sweep = Asleep, \A g \in Handlers \ {h} : call[g] = Idle,
         call' = [call EXCEPT ![h] = c], UNCHANGED <<tables, sweep>>, StillRead(c)
  PROVE  SerialInv'
<1>1. call'[h] = c /\ \A g \in Handlers \ {h} : call'[g] = Idle
  BY DEF TypeInv, TypeOK
<1>2. OneAtATime'
  BY <1>1 DEF OneAtATime
<1>3. ASSUME NEW g \in Handlers PROVE StillRead(call[g])'
  <2>1. CASE g = h
    BY <1>1, <2>1 DEF StillRead, tables, Placed, ActiveRows
  <2>2. CASE g # h
    BY <1>1, <2>2 DEF StillRead, Idle
  <2> QED BY <2>1, <2>2
<1>4. SweptIsOpen' /\ Settled'
  BY DEF SerialInv, SweptIsOpen, Settled, CouponWithinLimit, ReleasedIsCancelled,
         PaidOrdersAreBacked, tables
<1> QED BY <1>2, <1>3, <1>4 DEF SerialInv

(* A request that gives up leaves the tables as they were.                   *)
LEMMA GivesUpOK ==
  ASSUME TypeInv, SerialInv, NEW h \in Handlers, call[h] # Idle, End(h),
         UNCHANGED <<tables, sweep>>
  PROVE  SerialInv'
<1>1. Quiet'
  BY EndsAlone
<1>2. Settled'
  BY DEF SerialInv, Settled, CouponWithinLimit, ReleasedIsCancelled, PaidOrdersAreBacked, tables
<1> QED BY <1>1, <1>2, QuietAgain

(* PlaceOrder creates an order with active rows only.                        *)
LEMMA PlaceOK ==
  ASSUME TypeInv, SerialInv, NEW h \in Handlers, NEW c \in Carts, PlaceCommit(h, c)
  PROVE  SerialInv'
<1> DEFINE o == call[h].order
<1>1. call[h].at = "place" /\ call[h] # Idle /\ o \in Orders
  BY DEF PlaceCommit, Idle, TypeInv, CallsHaveOrders
<1>2. Quiet'
  BY <1>1, EndsAlone DEF PlaceCommit
<1>3. CouponWithinLimit'
  <2>1. used \in Nat /\ MaxUsage \in Nat /\ used <= MaxUsage
    BY OrderServiceAssumption DEF TypeInv, TypeOK, SerialInv, Settled, CouponWithinLimit
  <2>2. call[h].coupon => used < MaxUsage
    BY <1>1 DEF SerialInv, StillRead
  <2>3. used' = IF call[h].coupon THEN used + 1 ELSE used
    BY DEF PlaceCommit
  <2>4. CASE call[h].coupon
    BY <2>1, <2>2, <2>3, <2>4 DEF CouponWithinLimit
  <2>5. CASE ~call[h].coupon
    BY <2>1, <2>3, <2>5 DEF CouponWithinLimit
  <2> QED BY <2>4, <2>5
<1>4. /\ status'[o] = "pending_payment"
      /\ \A p \in Products : row'[o][p] \in {"active", "none"}
      /\ \A q \in Orders \ {o} : status'[q] = status[q] /\ row'[q] = row[q]
  BY <1>1 DEF PlaceCommit, TypeInv, TypeOK
<1> HIDE DEF o
<1>5. ReleasedIsCancelled' /\ ("paid" \notin Moves => PaidOrdersAreBacked')
  BY <1>4 DEF SerialInv, Settled, ReleasedIsCancelled, PaidOrdersAreBacked
<1> QED BY <1>2, <1>3, <1>5, QuietAgain DEF Settled

(* MarkOrderPaid commits all rows of the order that are not committed yet.   *)
LEMMA PayOK ==
  ASSUME TypeInv, SerialInv, NEW h \in Handlers, PayCommit(h) PROVE SerialInv'
<1> DEFINE o == call[h].order
<1>1. call[h].at = "pay_write" /\ call[h] # Idle /\ o \in Orders
  BY DEF PayCommit, Idle, TypeInv, CallsHaveOrders
<1>2. Quiet'
  BY <1>1, EndsAlone DEF PayCommit
<1>3. status[o] # "cancelled" /\ call[h].rows = ActiveRows(o)
  BY <1>1 DEF SerialInv, StillRead
<1>4. /\ \A p \in Products :
           row'[o][p] = IF p \in ActiveRows(o) THEN "committed" ELSE row[o][p]
      /\ \A q \in Orders \ {o} : status'[q] = status[q] /\ row'[q] = row[q]
  BY <1>1, <1>3 DEF PayCommit, SetRows, TypeInv, TypeOK
<1> HIDE DEF o
<1>5. ASSUME NEW p \in Products PROVE row'[o][p] \in {"none", "committed"}
  <2>1. row[o][p] \in {"none", "active", "committed", "released"}
    BY <1>1 DEF TypeInv, TypeOK, RowStatuses, o
  <2>2. row[o][p] # "released"
    BY <1>1, <1>3 DEF SerialInv, Settled, ReleasedIsCancelled, o
  <2> QED BY <1>4, <2>1, <2>2 DEF ActiveRows
<1>6. ReleasedIsCancelled' /\ ("paid" \notin Moves => PaidOrdersAreBacked')
  BY <1>4, <1>5 DEF SerialInv, Settled, ReleasedIsCancelled, PaidOrdersAreBacked
<1>7. CouponWithinLimit'
  BY DEF PayCommit, SerialInv, Settled, CouponWithinLimit
<1> QED BY <1>2, <1>6, <1>7, QuietAgain DEF Settled

(* Rows that are released leave with their order.                            *)
LEMMA ReleaseOK ==
  ASSUME TypeInv, SerialInv, NEW o \in Orders, NEW ps, SetRows(o, ps, "released"),
         status' = [status EXCEPT ![o] = "cancelled"], used' = used
  PROVE  Settled'
<1>1. /\ status'[o] = "cancelled"
      /\ \A q \in Orders \ {o} : status'[q] = status[q] /\ row'[q] = row[q]
  BY DEF SetRows, TypeInv, TypeOK
<1> QED BY <1>1 DEF SerialInv, Settled, CouponWithinLimit, ReleasedIsCancelled,
                    PaidOrdersAreBacked

(* CancelOrder releases rows of the order that it cancels. *)
LEMMA CancelOK ==
  ASSUME TypeInv, SerialInv, NEW h \in Handlers, CancelCommit(h) PROVE SerialInv'
<1>1. call[h].at = "cancel_write" /\ call[h] # Idle /\ call[h].order \in Orders
  BY DEF CancelCommit, Idle, TypeInv, CallsHaveOrders
<1>2. Quiet'
  BY <1>1, EndsAlone DEF CancelCommit
<1>3. Settled'
  BY <1>1, ReleaseOK DEF CancelCommit
<1> QED BY <1>2, <1>3, QuietAgain

(* UpdateOrderStatus moves no order out of "cancelled", and none to "paid"
   unless a caller asks for it.                                              *)
LEMMA MoveOK ==
  ASSUME TypeInv, SerialInv, NEW h \in Handlers, MoveSave(h) PROVE SerialInv'
<1> DEFINE o == call[h].order
<1>1. call[h].at = "move" /\ call[h] # Idle /\ o \in Orders
  BY DEF MoveSave, Idle, TypeInv, CallsHaveOrders
<1>2. Quiet'
  BY <1>1, EndsAlone DEF MoveSave
<1>3. status[o] = "cancelled" => call[h].to = "cancelled"
  <2>1. CanTransitionTo(status[o], call[h].to)
    BY <1>1 DEF SerialInv, StillRead
  <2>2. allowedTransitions["cancelled"] = {}
    BY DEF allowedTransitions, OrderStatuses
  <2> QED BY <2>1, <2>2 DEF CanTransitionTo
<1>4. call[h].to \in Moves
  BY <1>1 DEF SerialInv, StillRead
<1>5. /\ status'[o] = call[h].to /\ row' = row /\ used' = used
      /\ \A q \in Orders \ {o} : status'[q] = status[q]
  BY <1>1 DEF MoveSave, TypeInv, TypeOK
<1> HIDE DEF o
<1>6. Settled'
  BY <1>3, <1>4, <1>5
  DEF SerialInv, Settled, CouponWithinLimit, ReleasedIsCancelled, PaidOrdersAreBacked
<1> QED BY <1>2, <1>6, QuietAgain

(* A sweep runs alone: steps that only move it on, and the one that writes.  *)
LEMMA SweepGoesOn ==
  ASSUME TypeInv, SerialInv, \A h \in Handlers : call[h] = Idle, call' = call,
         SweptIsOpen', Settled'
  PROVE  SerialInv'
<1>1. \A h \in Handlers : StillRead(call[h])'
  BY DEF StillRead, Idle
<1> QED BY <1>1 DEF SerialInv, OneAtATime

(* The sweep releases rows of the orders that it cancels. *)
LEMMA SweepOK == ASSUME Serial, TypeInv, SerialInv, Sweep PROVE SerialInv'
<1>1. ASSUME UNCHANGED tables PROVE Settled'
  BY <1>1 DEF SerialInv, Settled, CouponWithinLimit, ReleasedIsCancelled,
              PaidOrdersAreBacked, tables
<1>2. CASE SweepFetch
  <2>1. \A h \in Handlers : call[h] = Idle
    BY <1>2, BeginsAlone DEF SweepFetch, Quiet
  <2>2. SweptIsOpen'
    BY <1>2 DEF SweepFetch, SweptIsOpen
  <2> QED BY <1>1, <1>2, <2>1, <2>2, SweepGoesOn DEF SweepFetch
<1>3. ASSUME NEW o \in Orders, SweepRead(o) \/ SweepSkip(o) \/ SweepWrite(o) \/ SweepFail(o)
      PROVE  SerialInv'
  <2>1. sweep # Asleep
    <3>1. Asleep.order = NoOrder /\ Asleep.batch = {}
      BY DEF Asleep
    <3> QED BY <1>3, <3>1 DEF SweepRead, SweepSkip, SweepWrite, SweepFail, Group
  <2>2. \A h \in Handlers : call[h] = Idle
    BY <2>1 DEF SerialInv, OneAtATime
  <2>3. call' = call
    BY <1>3 DEF SweepRead, SweepSkip, SweepWrite, SweepFail
  <2>4. CASE SweepRead(o)
    <3>1. SweptIsOpen'
      BY <2>4 DEF SweepRead, SweptIsOpen, tables, TypeInv, TypeOK
    <3> QED BY <1>1, <2>2, <2>3, <2>4, <3>1, SweepGoesOn DEF SweepRead
  <2>5. CASE SweepSkip(o) \/ SweepFail(o)
    <3>1. SweptIsOpen'
      BY <2>5 DEF SweepSkip, SweepFail, Dropped, SweptIsOpen
    <3> QED BY <1>1, <2>2, <2>3, <2>5, <3>1, SweepGoesOn DEF SweepSkip, SweepFail
  <2>6. CASE SweepWrite(o)
    <3>1. SweptIsOpen'
      BY <2>6 DEF SweepWrite, Dropped, SweptIsOpen
    <3>2. Settled'
      BY <2>6, ReleaseOK DEF SweepWrite
    <3> QED BY <2>2, <2>3, <3>1, <3>2, SweepGoesOn
  <2> QED BY <1>3, <2>4, <2>5, <2>6
<1> QED BY <1>2, <1>3 DEF Sweep

(* A request begins with what it reads, or finds the active reservations.    *)
LEMMA BeginOK ==
  ASSUME Serial, TypeInv, SerialInv, NEW h \in Handlers, NEW c \in Calls, Begin(h, c),
         UNCHANGED <<tables, sweep>>, StillRead(c)
  PROVE  SerialInv'
<1>1. Quiet
  BY BeginsAlone DEF Begin
<1> QED BY <1>1, GoesOn DEF Quiet, Begin

(* A request that finds rows finds all that are active. *)
LEMMA FindOK ==
  ASSUME TypeInv, SerialInv, NEW h \in Handlers, UNCHANGED <<tables, sweep>>,
         \/ call[h].at = "pay_find" /\ Found(h, "pay_write")
         \/ call[h].at = "cancel_find" /\ Found(h, "cancel_write")
  PROVE  SerialInv'
<1>1. PICK next \in {"pay_write", "cancel_write"} :
        /\ Found(h, next)
        /\ next = "pay_write" => call[h].at = "pay_find"
        /\ next = "cancel_write" => call[h].at = "cancel_find"
  OBVIOUS
<1> DEFINE c == [call[h] EXCEPT !.at = next, !.rows = ActiveRows(call[h].order)]
<1>2. /\ c \in Calls /\ c.at = next /\ c.order = call[h].order
      /\ c.rows = ActiveRows(c.order)
  <2>1. call[h] \in Calls /\ ActiveRows(call[h].order) \in SUBSET Products
    BY DEF TypeInv, TypeOK, ActiveRows
  <2> QED BY <1>1, <2>1 DEF Calls, CallSteps
<1>3. call' = [call EXCEPT ![h] = c]
  BY <1>1 DEF Found
<1> HIDE DEF c
<1>4. StillRead(c)
  BY <1>1, <1>2 DEF SerialInv, StillRead
<1>5. sweep = Asleep /\ \A g \in Handlers \ {h} : call[g] = Idle
  <2>1. call[h] # Idle
    BY <1>1 DEF Idle
  <2> QED BY <2>1 DEF SerialInv, OneAtATime
<1> QED BY <1>2, <1>3, <1>4, <1>5, GoesOn

(* Every step keeps what was read true. *)
LEMMA SerialStep == Serial /\ TypeInv /\ SerialInv /\ [Next]_vars => SerialInv'
<1> SUFFICES ASSUME Serial, TypeInv, SerialInv, [Next]_vars PROVE SerialInv'
  OBVIOUS
<1>1. ASSUME NEW h \in Handlers, Place(h) PROVE SerialInv'
  <2>1. ASSUME NEW o \in Orders, NEW k \in BOOLEAN, PlaceRead(h, o, k) PROVE SerialInv'
    <3> DEFINE c == [Idle EXCEPT !.at = "place", !.order = o, !.coupon = k]
    <3>1. c \in Calls /\ c.at = "place" /\ c.order = o /\ c.coupon = k
      BY DEF Idle, Calls, CallSteps, OrderStatuses
    <3>2. Begin(h, c) /\ UNCHANGED <<tables, sweep>> /\ ~Placed(o) /\ (k => used < MaxUsage)
      BY <2>1 DEF PlaceRead
    <3> HIDE DEF c
    <3>3. StillRead(c)
      BY <3>1, <3>2 DEF StillRead
    <3> QED BY <3>1, <3>2, <3>3, BeginOK
  <2>2. ASSUME NEW c \in Carts, PlaceReject(h, c) PROVE SerialInv'
    <3>1. call[h] # Idle
      BY <2>2 DEF PlaceReject, Idle
    <3> QED BY <2>2, <3>1, GivesUpOK DEF PlaceReject
  <2> QED BY <1>1, <2>1, <2>2, PlaceOK DEF Place
<1>2. ASSUME NEW h \in Handlers, MarkOrderPaid(h) PROVE SerialInv'
  <2>1. ASSUME NEW o \in Orders, PayRead(h, o) PROVE SerialInv'
    <3> DEFINE c == [Idle EXCEPT !.at = "pay_find", !.order = o]
    <3>1. c \in Calls /\ c.at = "pay_find" /\ c.order = o
      BY DEF Idle, Calls, CallSteps, OrderStatuses
    <3>2. Begin(h, c) /\ UNCHANGED <<tables, sweep>>
          /\ status[o] \notin {"none", "paid", "cancelled", "payment_failed"}
      BY <2>1 DEF PayRead, Placed
    <3> HIDE DEF c
    <3>3. StillRead(c)
      BY <3>1, <3>2 DEF StillRead
    <3> QED BY <3>1, <3>2, <3>3, BeginOK
  <2>2. ASSUME PayReject(h) PROVE SerialInv'
    <3>1. call[h] # Idle
      BY <2>2 DEF PayReject, Idle
    <3> QED BY <2>2, <3>1, GivesUpOK DEF PayReject
  <2>3. ASSUME PayFind(h) PROVE SerialInv'
    BY <2>3, FindOK DEF PayFind
  <2> QED BY <1>2, <2>1, <2>2, <2>3, PayOK DEF MarkOrderPaid
<1>3. ASSUME NEW h \in Handlers, CancelOrder(h) PROVE SerialInv'
  <2>1. ASSUME NEW o \in Orders, CancelRead(h, o) PROVE SerialInv'
    <3> DEFINE c == [Idle EXCEPT !.at = "cancel_find", !.order = o]
    <3>1. c \in Calls /\ c.at = "cancel_find" /\ c.order = o
      BY DEF Idle, Calls, CallSteps, OrderStatuses
    <3>2. Begin(h, c) /\ UNCHANGED <<tables, sweep>>
          /\ status[o] \notin {"none", "done", "cancelled", "paid"}
      BY <2>1 DEF CancelRead, Placed
    <3> HIDE DEF c
    <3>3. StillRead(c)
      BY <3>1, <3>2 DEF StillRead
    <3> QED BY <3>1, <3>2, <3>3, BeginOK
  <2>2. ASSUME CancelReject(h) PROVE SerialInv'
    <3>1. call[h] # Idle
      BY <2>2 DEF CancelReject, Idle
    <3> QED BY <2>2, <3>1, GivesUpOK DEF CancelReject
  <2>3. ASSUME CancelFind(h) PROVE SerialInv'
    BY <2>3, FindOK DEF CancelFind
  <2> QED BY <1>3, <2>1, <2>2, <2>3, CancelOK DEF CancelOrder
<1>4. ASSUME NEW h \in Handlers, UpdateOrderStatus(h) PROVE SerialInv'
  <2>1. ASSUME NEW o \in Orders, NEW s \in Moves, MoveRead(h, o, s) PROVE SerialInv'
    <3> DEFINE c == [Idle EXCEPT !.at = "move", !.order = o, !.to = s]
    <3>1. c \in Calls /\ c.at = "move" /\ c.order = o /\ c.to = s
      BY OrderServiceAssumption DEF Idle, Calls, CallSteps, OrderStatuses
    <3>2. Begin(h, c) /\ UNCHANGED <<tables, sweep>>
          /\ status[o] # "none" /\ CanTransitionTo(status[o], s)
      BY <2>1 DEF MoveRead, Placed
    <3> HIDE DEF c
    <3>3. StillRead(c)
      BY <3>1, <3>2 DEF StillRead
    <3> QED BY <3>1, <3>2, <3>3, BeginOK
  <2> QED BY <1>4, <2>1, MoveOK DEF UpdateOrderStatus
<1>5. ASSUME NEW h \in Handlers, Fail(h) PROVE SerialInv'
  BY <1>5, GivesUpOK DEF Fail
<1>6. ASSUME UNCHANGED <<tables, call, sweep>> PROVE SerialInv'
  <2>1. OneAtATime' /\ SweptIsOpen' /\ Settled'
    BY <1>6 DEF SerialInv, OneAtATime, SweptIsOpen, Settled, CouponWithinLimit,
                ReleasedIsCancelled, PaidOrdersAreBacked, tables
  <2>2. ASSUME NEW h \in Handlers PROVE StillRead(call[h])'
    BY <1>6 DEF SerialInv, StillRead, Placed, ActiveRows, tables
  <2> QED BY <2>1, <2>2 DEF SerialInv
<1>7. ASSUME NEW o \in Orders, Expire(o) PROVE SerialInv'
  BY <1>6, <1>7 DEF Expire
<1>8. CASE UNCHANGED vars
  BY <1>6, <1>8 DEF vars, tables
<1> QED BY <1>1, <1>2, <1>3, <1>4, <1>5, <1>7, <1>8, SweepOK DEF Next

(* Nothing has been read at the start. *)
LEMMA SerialInit == Init => SerialInv
<1> SUFFICES ASSUME Init PROVE SerialInv
  OBVIOUS
<1>1. OneAtATime /\ SweptIsOpen
  BY DEF Init, OneAtATime, SweptIsOpen, Asleep
<1>2. \A h \in Handlers : StillRead(call[h])
  BY DEF Init, StillRead, Idle
<1>3. Settled
  BY OrderServiceAssumption
     DEF Init, Settled, CouponWithinLimit, ReleasedIsCancelled, PaidOrdersAreBacked
<1> QED BY <1>1, <1>2, <1>3 DEF SerialInv

(* The invariant holds in every behaviour. *)
LEMMA SerialAlways == ASSUME Serial PROVE Spec => [](TypeInv /\ SerialInv)
  BY InitType, TypeStep, SerialInit, SerialStep, PTL DEF Spec

(* Only a placement, a payment and a move write another status than
   "cancelled", and none of them works on a cancelled order.                 *)
LEMMA StaysCancelled ==
  ASSUME TypeInv, SerialInv, [Next]_vars, NEW o \in Orders, status[o] = "cancelled"
  PROVE  status'[o] = "cancelled"
<1> SUFFICES ASSUME status' # status PROVE status'[o] = "cancelled"
  OBVIOUS
<1>1. ASSUME NEW h \in Handlers, NEW c \in Carts, PlaceCommit(h, c)
      PROVE  status'[o] = "cancelled"
  <2>1. call[h].order # o
    BY <1>1 DEF PlaceCommit, SerialInv, StillRead, Placed
  <2> QED BY <1>1, <2>1 DEF PlaceCommit, TypeInv, TypeOK
<1>2. ASSUME NEW h \in Handlers, PayCommit(h) PROVE status'[o] = "cancelled"
  <2>1. call[h].order # o
    BY <1>2 DEF PayCommit, SerialInv, StillRead
  <2> QED BY <1>2, <2>1 DEF PayCommit, TypeInv, TypeOK
<1>3. ASSUME NEW h \in Handlers, CancelCommit(h) PROVE status'[o] = "cancelled"
  BY <1>3 DEF CancelCommit, TypeInv, TypeOK
<1>4. ASSUME NEW h \in Handlers, MoveSave(h) PROVE status'[o] = "cancelled"
  <2>1. call[h].order = o => CanTransitionTo("cancelled", call[h].to)
    BY <1>4 DEF MoveSave, SerialInv, StillRead
  <2>2. allowedTransitions["cancelled"] = {}
    BY DEF allowedTransitions, OrderStatuses
  <2> QED BY <1>4, <2>1, <2>2 DEF MoveSave, TypeInv, TypeOK, CanTransitionTo
<1>5. ASSUME NEW q \in Orders, SweepWrite(q) PROVE status'[o] = "cancelled"
  BY <1>5 DEF SweepWrite, TypeInv, TypeOK
<1>6. ASSUME NEW h \in Handlers, Place(h) PROVE \E c \in Carts : PlaceCommit(h, c)
  BY <1>6 DEF Place, PlaceRead, PlaceReject, tables
<1>7. ASSUME NEW h \in Handlers, MarkOrderPaid(h) PROVE PayCommit(h)
  BY <1>7 DEF MarkOrderPaid, PayRead, PayFind, PayReject, tables
<1>8. ASSUME NEW h \in Handlers, CancelOrder(h) PROVE CancelCommit(h)
  BY <1>8 DEF CancelOrder, CancelRead, CancelFind, CancelReject, tables
<1>9. ASSUME NEW h \in Handlers, UpdateOrderStatus(h) PROVE MoveSave(h)
  BY <1>9 DEF UpdateOrderStatus, MoveRead, tables
<1>10. ASSUME Sweep PROVE \E q \in Orders : SweepWrite(q)
  BY <1>10 DEF Sweep, SweepFetch, SweepRead, SweepSkip, SweepFail, tables
<1>11. /\ \A h \in Handlers : ~Fail(h)
       /\ \A q \in Orders : ~Expire(q)
       /\ ~UNCHANGED vars
  BY DEF Fail, Expire, vars, tables
<1> QED BY <1>1, <1>2, <1>3, <1>4, <1>5, <1>6, <1>7, <1>8, <1>9, <1>10, <1>11 DEF Next

(* Served one after another, requests grant a coupon at most max_usage times:
   the check of Apply (coupon.go:64) and the increment of the placement
   (order.go:125) are then one.                                              *)
THEOREM CouponNotOverused == ASSUME Serial PROVE Spec => []CouponWithinLimit
<1>1. SerialInv => CouponWithinLimit
  BY DEF SerialInv, Settled
<1> QED BY <1>1, SerialAlways, PTL

(* Served one after another, requests leave a cancelled order cancelled,
   whatever moves callers ask UpdateOrderStatus for.                         *)
THEOREM CancelledStays == ASSUME Serial PROVE Spec => CancelledIsFinal
<1>1. TypeInv /\ SerialInv /\ [Next]_vars =>
        [\A o \in Orders : status[o] = "cancelled" => status'[o] = "cancelled"]_vars
  BY StaysCancelled
<1> QED BY <1>1, SerialAlways, PTL DEF Spec, CancelledIsFinal

(* Served one after another, requests leave no paid order with stock that is not
   committed, even where the sweeper's LIMIT cuts an order: what MarkOrderPaid
   promises, unless a caller moves an order to "paid" by hand.               *)
THEOREM PaidAreBacked ==
  ASSUME Serial, "paid" \notin Moves PROVE Spec => []PaidOrdersAreBacked
<1>1. SerialInv => PaidOrdersAreBacked
  BY DEF SerialInv, Settled
<1> QED BY <1>1, SerialAlways, PTL

--------------------------------------------------------------------------------
(* What is reserved and what is sold.                                        *)

(* The counters are the units of the rows, and what the sweep has fetched is *)
(* still active when it comes to write.                                      *)
BatchIsActive == \A o \in Orders : Group(o) \subseteq ActiveRows(o)

StockInv == ReservedIsActive /\ StockConserved /\ BatchIsActive

\* For one product, in terms of tables that may be primed.
Counted(r, k, c, w, p) ==
  /\ r[p] = Units(c, w, p, "active")
  /\ k[p] + Units(c, w, p, "committed") = InitialStock[p]

(* The two counters, product by product. *)
LEMMA CountedStock ==
  (ReservedIsActive /\ StockConserved) <=>
    \A p \in Products : Counted(reserved, stock, cart, row, p)
BY DEF ReservedIsActive, StockConserved, UnitsIn, Units, Counted

(* A request that is about to write is alone: the sweep is asleep. *)
LEMMA NothingSwept ==
  ASSUME SerialInv, NEW h \in Handlers, call[h] # Idle, sweep' = sweep
  PROVE  BatchIsActive'
<1>1. sweep' = Asleep
  BY DEF SerialInv, OneAtATime
<1> QED BY <1>1 DEF BatchIsActive, Group, Asleep

(* Active rows of one order become committed or released: their units leave
   the reserved counter, and the stock if they are committed. *)
LEMMA RowsSettled ==
  ASSUME IsFiniteSet(Orders), TypeInv, NEW p \in Products, NEW o \in Orders,
         Counted(reserved, stock, cart, row, p),
         NEW ps \in SUBSET ActiveRows(o), NEW s \in {"committed", "released"},
         SetRows(o, ps, s), cart' = cart,
         reserved'[p] = (IF p \in ps THEN reserved[p] - cart[o][p] ELSE reserved[p]),
         stock'[p] = (IF p \in ps /\ s = "committed" THEN stock[p] - cart[o][p] ELSE stock[p])
  PROVE  Counted(reserved', stock', cart', row', p)
<1>1. /\ cart \in Carted /\ row \in Rowed /\ cart' \in Carted /\ cart[o][p] \in Nat
      /\ stock[p] \in Nat /\ InitialStock[p] \in Nat
  BY OrderServiceAssumption DEF TypeInv, TypeOK, Carted, Rowed
<1>2. /\ Units(cart, row, p, "active") \in Nat
      /\ Units(cart, row, p, "committed") \in Nat
      /\ Units(cart', row', p, "active") \in Nat
      /\ Units(cart', row', p, "committed") \in Nat
  BY <1>1, UnitsType
<1>3. /\ \A r \in Products : row'[o][r] = IF r \in ps THEN s ELSE row[o][r]
      /\ \A q \in Orders \ {o} : row'[q] = row[q]
  BY RowsWritten DEF RowStatuses
<1>4. CASE p \notin ps
  <2>1. Keeps(cart, row, cart', row', p, "active") /\ Keeps(cart, row, cart', row', p, "committed")
    BY <1>3, <1>4 DEF Keeps
  <2>2. /\ Units(cart', row', p, "active") = Units(cart, row, p, "active")
        /\ Units(cart', row', p, "committed") = Units(cart, row, p, "committed")
    BY <1>1, <2>1, UnitsSame
  <2> QED BY <1>4, <2>2 DEF Counted
<1>5. CASE p \in ps
  <2>1. row[o][p] = "active" /\ row'[o][p] = s
    BY <1>3, <1>5 DEF ActiveRows
  <2>2. Gains(cart', row', cart, row, p, "active", o)
    BY <1>3, <2>1 DEF Gains
  <2>3. Units(cart, row, p, "active") = cart[o][p] + Units(cart', row', p, "active")
    BY <1>1, <2>2, UnitsMore
  <2>4. CASE s = "committed"
    <3>1. Gains(cart, row, cart', row', p, "committed", o)
      BY <1>3, <2>1, <2>4 DEF Gains
    <3>2. Units(cart', row', p, "committed") = cart'[o][p] + Units(cart, row, p, "committed")
      BY <1>1, <3>1, UnitsMore
    <3> QED BY <1>1, <1>2, <1>5, <2>3, <2>4, <3>2 DEF Counted
  <2>5. CASE s = "released"
    <3>1. Keeps(cart, row, cart', row', p, "committed")
      BY <1>3, <2>1, <2>5 DEF Keeps
    <3>2. Units(cart', row', p, "committed") = Units(cart, row, p, "committed")
      BY <1>1, <3>1, UnitsSame
    <3> QED BY <1>1, <1>2, <1>5, <2>3, <2>5, <3>2 DEF Counted
  <2> QED BY <2>4, <2>5
<1> QED BY <1>4, <1>5

(* Every step keeps the counters and the rows in step. *)
LEMMA StockStep ==
  ASSUME IsFiniteSet(Orders), ApartInv, SerialInv, StockInv, [Next]_vars
  PROVE  StockInv'
<1>a. TypeInv /\ TypeOK
  BY DEF ApartInv, TypeInv
<1>b. \A p \in Products : Counted(reserved, stock, cart, row, p)
  BY CountedStock DEF StockInv
<1>c. ASSUME \A p \in Products : Counted(reserved', stock', cart', row', p), BatchIsActive'
      PROVE  StockInv'
  <2>1. (ReservedIsActive /\ StockConserved)'
    BY <1>c DEF ReservedIsActive, StockConserved, UnitsIn, Units, Counted
  <2> QED BY <1>c, <2>1 DEF StockInv
<1>d. ASSUME UNCHANGED <<reserved, stock, cart, row>>
      PROVE  \A p \in Products : Counted(reserved', stock', cart', row', p)
  BY <1>b, <1>d
<1>1. ASSUME UNCHANGED <<tables, sweep>> PROVE StockInv'
  <2>1. BatchIsActive'
    BY <1>1 DEF StockInv, BatchIsActive, Group, ActiveRows, tables
  <2> QED BY <1>1, <1>c, <1>d, <2>1 DEF tables
<1>2. ASSUME NEW h \in Handlers, NEW c \in Carts, PlaceCommit(h, c) PROVE StockInv'
  <2>1. PICK o \in Orders :
          /\ c \in [Products -> Nat]
          /\ \A p \in Products : row[o][p] = "none"
          /\ cart'[o] = c
          /\ \A p \in Products : row'[o][p] = IF c[p] > 0 THEN "active" ELSE "none"
          /\ \A q \in Orders \ {o} : cart'[q] = cart[q] /\ row'[q] = row[q]
          /\ cart' \in Carted
    BY <1>2, FreshRows
  <2>2. stock' = stock /\ \A p \in Products : reserved'[p] = reserved[p] + c[p]
    BY <1>2 DEF PlaceCommit
  <2>3. ASSUME NEW p \in Products PROVE Counted(reserved', stock', cart', row', p)
    <3>1. cart \in Carted /\ row \in Rowed /\ reserved[p] \in Nat /\ c[p] \in Nat
      BY <1>a, <2>1 DEF TypeOK, Carted, Rowed
    <3>2. Keeps(cart, row, cart', row', p, "committed")
      BY <2>1 DEF Keeps
    <3>3. Units(cart', row', p, "committed") = Units(cart, row, p, "committed")
      BY <2>1, <3>1, <3>2, UnitsSame
    <3>4. CASE c[p] = 0
      <4>1. Keeps(cart, row, cart', row', p, "active")
        BY <2>1, <3>4 DEF Keeps
      <4>2. Units(cart', row', p, "active") = Units(cart, row, p, "active")
        BY <2>1, <3>1, <4>1, UnitsSame
      <4> QED BY <1>b, <2>2, <3>1, <3>3, <3>4, <4>2 DEF Counted
    <3>5. CASE c[p] > 0
      <4>1. Gains(cart, row, cart', row', p, "active", o)
        BY <2>1, <3>5 DEF Gains
      <4>2. Units(cart', row', p, "active") = cart'[o][p] + Units(cart, row, p, "active")
        BY <2>1, <3>1, <4>1, UnitsMore
      <4>3. Units(cart, row, p, "active") \in Nat /\ cart'[o][p] = c[p]
        BY <2>1, <3>1, UnitsType
      <4> QED BY <1>b, <2>2, <3>1, <3>3, <4>2, <4>3 DEF Counted
    <3> QED BY <3>1, <3>4, <3>5
  <2>4. BatchIsActive'
    BY <1>2, NothingSwept DEF PlaceCommit, Idle
  <2> QED BY <1>c, <2>3, <2>4
<1>3. ASSUME NEW h \in Handlers, PayCommit(h) PROVE StockInv'
  <2> DEFINE o == call[h].order
             ps == call[h].rows
  <2>1. o \in Orders /\ ps = ActiveRows(o)
    BY <1>3, <1>a DEF PayCommit, TypeInv, CallsHaveOrders, SerialInv, StillRead
  <2>2. /\ SetRows(o, ps, "committed") /\ cart' = cart
        /\ stock' = Minus(stock, o, ps) /\ reserved' = Minus(reserved, o, ps)
    BY <1>3 DEF PayCommit
  <2> HIDE DEF o, ps
  <2>3. ASSUME NEW p \in Products PROVE Counted(reserved', stock', cart', row', p)
    <3>1. /\ reserved'[p] = IF p \in ps THEN reserved[p] - cart[o][p] ELSE reserved[p]
          /\ stock'[p] = IF p \in ps THEN stock[p] - cart[o][p] ELSE stock[p]
      BY <2>2 DEF Minus
    <3> QED BY <1>a, <1>b, <2>1, <2>2, <3>1, RowsSettled
  <2>4. BatchIsActive'
    BY <1>3, NothingSwept DEF PayCommit, Idle
  <2> QED BY <1>c, <2>3, <2>4
<1>4. ASSUME NEW h \in Handlers, CancelCommit(h) PROVE StockInv'
  <2> DEFINE o == call[h].order
             ps == call[h].rows
  <2>1. o \in Orders /\ ps = ActiveRows(o)
    BY <1>4, <1>a DEF CancelCommit, TypeInv, CallsHaveOrders, SerialInv, StillRead
  <2>2. /\ SetRows(o, ps, "released") /\ cart' = cart
        /\ stock' = stock /\ reserved' = Minus(reserved, o, ps)
    BY <1>4 DEF CancelCommit
  <2> HIDE DEF o, ps
  <2>3. ASSUME NEW p \in Products PROVE Counted(reserved', stock', cart', row', p)
    <3>1. reserved'[p] = IF p \in ps THEN reserved[p] - cart[o][p] ELSE reserved[p]
      BY <2>2 DEF Minus
    <3> QED BY <1>a, <1>b, <2>1, <2>2, <3>1, RowsSettled
  <2>4. BatchIsActive'
    BY <1>4, NothingSwept DEF CancelCommit, Idle
  <2> QED BY <1>c, <2>3, <2>4
<1>5. ASSUME NEW h \in Handlers, MoveSave(h) PROVE StockInv'
  <2>1. UNCHANGED <<reserved, stock, cart, row, sweep>>
    BY <1>5 DEF MoveSave
  <2>2. BatchIsActive'
    BY <2>1 DEF StockInv, BatchIsActive, Group, ActiveRows
  <2> QED BY <1>c, <1>d, <2>1, <2>2
<1>6. ASSUME SweepFetch PROVE StockInv'
  <2>1. \A b \in Batches : b \subseteq Due
    BY DEF Batches, kSubset
  <2>2. UNCHANGED tables /\ sweep'.batch \subseteq Due
    BY <1>6, <2>1 DEF SweepFetch
  <2>3. BatchIsActive'
    BY <2>2 DEF BatchIsActive, Group, ActiveRows, Due, tables
  <2> QED BY <1>c, <1>d, <2>2, <2>3 DEF tables
<1>7. ASSUME NEW o \in Orders, SweepRead(o) PROVE StockInv'
  <2>1. UNCHANGED tables /\ sweep'.batch = sweep.batch
    BY <1>7, <1>a DEF SweepRead, TypeOK
  <2>2. BatchIsActive'
    BY <2>1 DEF StockInv, BatchIsActive, Group, ActiveRows, tables
  <2> QED BY <1>c, <1>d, <2>1, <2>2 DEF tables
<1>8. ASSUME NEW o \in Orders, DropsGroup(o) PROVE StockInv'
  <2>1. UNCHANGED tables /\ \A q \in Orders : Group(q)' \subseteq Group(q)
    BY <1>8, <1>a, DroppedGroup DEF DropsGroup
  <2>2. BatchIsActive'
    BY <2>1 DEF StockInv, BatchIsActive, ActiveRows, tables
  <2> QED BY <1>c, <1>d, <2>1, <2>2 DEF tables
<1>9. ASSUME NEW o \in Orders, SweepWrite(o) PROVE StockInv'
  <2> DEFINE ps == Group(o)
  <2>1. ps \in SUBSET ActiveRows(o)
    BY DEF StockInv, BatchIsActive
  <2>2. /\ SetRows(o, ps, "released") /\ cart' = cart /\ stock' = stock
        /\ reserved' = Minus(reserved, o, {p \in ps : CanRelease(o, p)})
        /\ sweep' = Dropped(o)
    BY <1>9 DEF SweepWrite
  <2>3. ASSUME NEW p \in ps PROVE CanRelease(o, p)
    <3>1. p \in Products /\ row[o][p] = "active"
      BY <2>1 DEF ActiveRows
    <3>2. cart \in Carted /\ row \in Rowed
      BY <1>a DEF TypeOK, Carted, Rowed
    <3>3. cart[o][p] <= Units(cart, row, p, "active")
      BY <3>1, <3>2, UnitsHold
    <3> QED BY <1>b, <3>1, <3>3 DEF Counted, CanRelease
  <2>4. {p \in ps : CanRelease(o, p)} = ps
    BY <2>3
  <2> HIDE DEF ps
  <2>5. ASSUME NEW p \in Products PROVE Counted(reserved', stock', cart', row', p)
    <3>1. reserved'[p] = IF p \in ps THEN reserved[p] - cart[o][p] ELSE reserved[p]
      BY <2>2, <2>4 DEF Minus
    <3> QED BY <1>a, <1>b, <2>1, <2>2, <3>1, RowsSettled
  <2>6. /\ Group(o)' = {}
        /\ \A q \in Orders \ {o} : Group(q)' = Group(q)
    BY <1>a, <2>2, DroppedGroup
  <2>7. \A q \in Orders \ {o} : row'[q] = row[q]
    BY <1>a, <2>2, RowsWritten DEF RowStatuses
  <2>8. BatchIsActive'
    BY <2>6, <2>7 DEF StockInv, BatchIsActive, ActiveRows
  <2> QED BY <1>c, <2>5, <2>8
<1>10. TypeInv /\ [Next]_vars
  BY <1>a
<1>11. ASSUME NEW h \in Handlers, NEW o \in Orders, NEW k \in BOOLEAN, PlaceRead(h, o, k)
       PROVE  UNCHANGED <<tables, sweep>>
  BY <1>11 DEF PlaceRead
<1>12. ASSUME NEW h \in Handlers, NEW o \in Orders, NEW s \in Moves, MoveRead(h, o, s)
       PROVE  UNCHANGED <<tables, sweep>>
  BY <1>12 DEF MoveRead
<1> QED
  BY <1>1, <1>2, <1>3, <1>4, <1>5, <1>6, <1>7, <1>8, <1>9, <1>10, <1>11, <1>12, StepCases
     DEF BeginsOn, Finds, GivesUp

(* No order has rows at the start. *)
LEMMA StockInit == Init => StockInv
<1> SUFFICES ASSUME Init PROVE StockInv
  OBVIOUS
<1>1. ASSUME NEW p \in Products
      PROVE  /\ reserved[p] = UnitsIn(p, "active")
             /\ stock[p] + UnitsIn(p, "committed") = InitialStock[p]
  <2>1. {o \in Orders : row[o][p] = "active"} = {} /\ {o \in Orders : row[o][p] = "committed"} = {}
    BY DEF Init
  <2>2. UnitsIn(p, "active") = 0 /\ UnitsIn(p, "committed") = 0
    BY <2>1, SumEmpty DEF UnitsIn
  <2> QED BY <2>2, OrderServiceAssumption DEF Init, NoCart
<1>2. BatchIsActive
  BY DEF Init, Asleep, BatchIsActive, Group
<1> QED BY <1>1, <1>2 DEF StockInv, ReservedIsActive, StockConserved

(* The counters and the rows are in step in every behaviour. *)
LEMMA StockAlways == ASSUME Serial, IsFiniteSet(Orders) PROVE Spec => []StockInv
<1>1. ApartInv /\ TypeInv /\ SerialInv /\ StockInv /\ [Next]_vars => StockInv'
  BY StockStep
<1> QED BY <1>1, StockInit, RequestsApart, SerialAlways, PTL DEF Spec

(* Served one after another, requests and sweeps keep reserved_quantity at the
   units of the active reservations, so that no release or commit finds a drained
   counter (internal/product/repository/product_repo.go). *)
THEOREM ReservedIsExact ==
  ASSUME Serial, IsFiniteSet(Orders) PROVE Spec => []ReservedIsActive
<1>1. StockInv => ReservedIsActive
  BY DEF StockInv
<1> QED BY <1>1, StockAlways, PTL

(* Served one after another, payments take from the shelf what they sold, each
   unit once, and nothing else does. *)
THEOREM NothingLost ==
  ASSUME Serial, IsFiniteSet(Orders) PROVE Spec => []StockConserved
<1>1. StockInv => StockConserved
  BY DEF StockInv
<1> QED BY <1>1, StockAlways, PTL

================================================================================
