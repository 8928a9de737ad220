----------------------------- MODULE PaymentsProofs -----------------------------
(***************************************************************************)
(* What the payment service may rely on, and what may be relied on of it,  *)
(* for any number of orders, handlers and webhook deliveries.              *)
(***************************************************************************)
EXTENDS Payments, OrderProofs

--------------------------------------------------------------------------------
(* The payment service uses the order service.                               *)

(* A handler is busy with an order, unless it has yet to look at its event.  *)
HooksHaveOrders ==
  \A h \in Handlers : hook[h].at \notin {"none", "recorded"} => hook[h].order \in Orders

(* The event a handler works on was recorded.                                *)
HandledRecorded == \A h \in Handlers : Working(h) => EventOf(h) \in recorded

PayTypeInv == PayTypeOK /\ HooksHaveOrders /\ HandledRecorded /\ handled \subseteq recorded

(* Every step of the composed system is a step of the order service or       *)
(* leaves its variables alone.                                               *)
LEMMA OrderSteps == PaymentsAssumption /\ HooksHaveOrders /\ [PayNext]_allVars => [Next]_vars
<1> SUFFICES ASSUME PaymentsAssumption, HooksHaveOrders, [PayNext]_allVars PROVE [Next]_vars
  OBVIOUS
<1>1. ASSUME NEW h \in Handlers, OrderRequest(h) PROVE Next
  BY <1>1 DEF OrderRequest, Next
<1>2. ASSUME NEW h \in Handlers, CreateIntentForOrder(h) PROVE UNCHANGED vars
  BY <1>2 DEF CreateIntentForOrder, IntentRead, IntentCall, IntentStore
<1>3. ASSUME NEW h \in Handlers, HandleWebhook(h) PROVE [Next]_vars
  <2>1. ASSUME WebhookOrder(h) PROVE Next
    <3>1. PICK o : o = hook[h].order
      OBVIOUS
    <3>2. PayRead(h, o) \/ \E s \in WebhookMoves : MoveRead(h, o, s)
      BY <2>1, <3>1 DEF WebhookOrder, MoveOf, WebhookMoves
    <3>3. o \in Orders
      BY <2>1, <3>1 DEF WebhookOrder, HooksHaveOrders
    <3> QED BY <3>2, <3>3 DEF PaymentsAssumption, Next, MarkOrderPaid, UpdateOrderStatus
  <2>2. WebhookFind(h) \/ WebhookCommit(h) \/ WebhookRollback(h) => Next
    BY DEF WebhookFind, WebhookCommit, WebhookRollback, Next, MarkOrderPaid, UpdateOrderStatus
  <2>3. WebhookFail(h) => [Next]_vars
    BY DEF WebhookFail, Next
  <2>4. (\E e \in Events : WebhookRecord(h, e)) \/ WebhookSave(h) \/ WebhookIgnore(h)
        \/ WebhookNoPayment(h) \/ WebhookAlreadyPaid(h) \/ WebhookRefused(h) => UNCHANGED vars
    BY DEF WebhookRecord, WebhookSave, WebhookIgnore, WebhookNoPayment, WebhookAlreadyPaid, WebhookRefused
  <2> QED BY <1>3, <2>1, <2>2, <2>3, <2>4 DEF HandleWebhook
<1>4. Background => Next
  BY DEF Background, Next
<1>5. (\E e \in Events : WebhookDuplicate(e)) \/ Provider => UNCHANGED vars
  BY DEF WebhookDuplicate, Provider, Charge, Abandon, Attempt, Notify
<1> QED BY <1>1, <1>2, <1>3, <1>4, <1>5 DEF PayNext, allVars

(* The payment service starts well typed, the order service with it.         *)
LEMMA PayInitType == PayInit => Init /\ PayTypeInv
  BY DEF PayInit, PayTypeInv, PayTypeOK, HooksHaveOrders, HandledRecorded, Working, NoHook, Hooks, PaymentStatuses

(* Replacing what one handler does keeps the hooks well typed, when the event *)
(* it works on afterwards is a recorded one.                                 *)
LEMMA HookType ==
  ASSUME PayTypeInv, NEW h \in Handlers, NEW w \in Hooks, hook' = [hook EXCEPT ![h] = w],
         w.at \notin {"none", "recorded"} => w.order \in Orders,
         w.at \in {"recorded", "saved", "ordering"} => [order |-> w.order, type |-> w.type] \in recorded',
         recorded \subseteq recorded'
  PROVE  hook' \in [Handlers -> Hooks] /\ HooksHaveOrders' /\ HandledRecorded'
<1>1. hook \in [Handlers -> Hooks]
  BY DEF PayTypeInv, PayTypeOK
<1>2. hook' \in [Handlers -> Hooks] /\ HooksHaveOrders'
  BY <1>1 DEF PayTypeInv, HooksHaveOrders
<1>3. ASSUME NEW g \in Handlers, Working(g)' PROVE EventOf(g)' \in recorded'
  <2>1. CASE g = h
    BY <1>1, <1>3, <2>1 DEF Working, EventOf
  <2>2. CASE g # h
    BY <1>1, <1>3, <2>2 DEF PayTypeInv, HandledRecorded, Working, EventOf
  <2> QED BY <2>1, <2>2
<1> QED BY <1>2, <1>3 DEF HandledRecorded

(* Going on to the next step of the handler keeps them so too.               *)
LEMMA GoOnType ==
  ASSUME PayTypeInv, NEW h \in Handlers, NEW at \in {"intent_store", "saved", "ordering"},
         Advance(h, at), hook[h].order \in Orders, at # "intent_store" => Working(h),
         recorded' = recorded
  PROVE  hook' \in [Handlers -> Hooks] /\ HooksHaveOrders' /\ HandledRecorded'
<1>1. PICK w : w = [hook[h] EXCEPT !.at = at]
  OBVIOUS
<1>2. w \in Hooks /\ w.at = at /\ w.order = hook[h].order /\ w.type = hook[h].type
  BY <1>1 DEF PayTypeInv, PayTypeOK, Hooks
<1>3. hook' = [hook EXCEPT ![h] = w]
  BY <1>1 DEF Advance
<1>4. w.at \in {"recorded", "saved", "ordering"} => EventOf(h) \in recorded'
  BY <1>2 DEF PayTypeInv, HandledRecorded, Working
<1>5. EventOf(h) = [order |-> w.order, type |-> w.type]
  BY <1>2 DEF EventOf
<1> QED BY <1>2, <1>3, <1>4, <1>5, HookType

(* And so does ending.                                                       *)
LEMMA FinishType ==
  ASSUME PayTypeInv, NEW h \in Handlers, Finish(h), recorded' = recorded
  PROVE  hook' \in [Handlers -> Hooks] /\ HooksHaveOrders' /\ HandledRecorded'
<1>1. NoHook \in Hooks /\ NoHook.at = "none"
  BY DEF NoHook, Hooks, PaymentStatuses
<1> QED BY <1>1, HookType DEF Finish

(* Only recorded events are done with.                                        *)
LEMMA DoneType ==
  ASSUME PayTypeInv, NEW h \in Handlers, recorded' = recorded,
         GiveUp(h) \/ (Working(h) /\ Succeed(h))
  PROVE  handled' \subseteq recorded' /\ handled' \subseteq Events
  BY DEF PayTypeInv, PayTypeOK, HandledRecorded, Succeed, GiveUp

(* An event that is answered with a 2xx is one the provider emits.           *)
LEMMA AckType ==
  ASSUME PayTypeInv, NEW h \in Handlers, Working(h), Succeed(h)
  PROVE  acked' \subseteq Events
  BY DEF PayTypeInv, PayTypeOK, HandledRecorded, Succeed

(* Every step keeps the payment service well typed.                          *)
LEMMA PayTypeStep == PaymentsAssumption /\ PayTypeInv /\ [PayNext]_allVars => PayTypeInv'
<1> SUFFICES ASSUME PaymentsAssumption, PayTypeInv, [PayNext]_allVars PROVE PayTypeInv'
  OBVIOUS
<1> USE DEF PayTypeInv
<1>1. ASSUME UNCHANGED payVars PROVE PayTypeInv'
  BY <1>1 DEF payVars, PayTypeOK, HooksHaveOrders, HandledRecorded, Working, EventOf
<1>2. ASSUME NEW h \in Handlers, NEW o \in Orders, IntentRead(h, o) PROVE PayTypeInv'
  <2>1. PICK w : w = [NoHook EXCEPT !.at = "intent_call", !.order = o]
    OBVIOUS
  <2>2. w = [at |-> "intent_call", order |-> o, type |-> "pending"]
    BY <2>1, Zenon DEF NoHook
  <2>3. w \in Hooks /\ w.at = "intent_call" /\ w.order \in Orders
    BY <2>2 DEF Hooks, PaymentStatuses
  <2> QED BY <1>2, <2>1, <2>3, HookType DEF IntentRead, PayTypeOK
<1>3. ASSUME NEW h \in Handlers, IntentCall(h) PROVE PayTypeInv'
  BY <1>3, GoOnType DEF IntentCall, PayTypeOK, HooksHaveOrders
<1>4. ASSUME NEW h \in Handlers, IntentStore(h) PROVE PayTypeInv'
  BY <1>4, FinishType DEF IntentStore, PayTypeOK, PaymentStatuses
<1>5. ASSUME NEW h \in Handlers, NEW e \in Events, WebhookRecord(h, e) PROVE PayTypeInv'
  <2>1. PICK w : w = [at |-> "recorded", order |-> e.order, type |-> e.type]
    OBVIOUS
  <2>2. w \in Hooks /\ w.at = "recorded"
    BY <2>1 DEF Hooks, Events, PaymentsAssumption
  <2>3. e = [order |-> w.order, type |-> w.type] /\ recorded' = recorded \cup {e}
    BY <1>5, <2>1 DEF Events, WebhookRecord
  <2> QED BY <1>5, <2>1, <2>2, <2>3, HookType DEF WebhookRecord, PayTypeOK
<1>6. ASSUME NEW h \in Handlers, WebhookSave(h) PROVE PayTypeInv'
  <2>1. hook[h].type \in PaymentStatuses /\ hook[h].order \in Orders /\ Working(h)
    BY <1>6 DEF WebhookSave, HasPayment, PayTypeOK, Hooks, Working
  <2>2. payment' \in [Orders -> PaymentStatuses \cup {"none"}]
    BY <1>6, <2>1 DEF WebhookSave, PayTypeOK
  <2>3. CASE Succeed(h)
    BY <1>6, <2>1, <2>2, <2>3, FinishType, AckType, DoneType DEF WebhookSave, Succeed, PayTypeOK
  <2>4. CASE Advance(h, "saved") /\ UNCHANGED <<acked, handled>>
    BY <1>6, <2>1, <2>2, <2>4, GoOnType DEF WebhookSave, PayTypeOK
  <2> QED BY <1>6, <2>3, <2>4 DEF WebhookSave
<1>7. ASSUME NEW h \in Handlers, WebhookOrder(h) PROVE PayTypeInv'
  BY <1>7, GoOnType DEF WebhookOrder, Working, PayTypeOK, HooksHaveOrders
<1>8. ASSUME NEW h \in Handlers, WebhookIgnore(h) \/ WebhookAlreadyPaid(h) \/ WebhookCommit(h)
      PROVE  PayTypeInv'
  <2>1. Working(h) /\ Succeed(h) /\ UNCHANGED <<payment, recorded, intent, sent>>
    BY <1>8 DEF WebhookIgnore, WebhookAlreadyPaid, WebhookCommit, Working
  <2> QED BY <2>1, FinishType, AckType, DoneType DEF Succeed, PayTypeOK
<1>9. ASSUME NEW h \in Handlers, WebhookNoPayment(h) \/ WebhookRefused(h) \/ WebhookRollback(h) \/ WebhookFail(h)
      PROVE PayTypeInv'
  <2>1. GiveUp(h) /\ UNCHANGED <<payment, recorded, intent, sent>>
    BY <1>9 DEF WebhookNoPayment, WebhookRefused, WebhookRollback, WebhookFail
  <2>2. Finish(h) /\ UNCHANGED acked
    BY <2>1 DEF GiveUp
  <2>3. handled' \subseteq recorded' /\ handled' \subseteq Events
    BY <2>1, DoneType
  <2> QED BY <2>1, <2>2, <2>3, FinishType DEF PayTypeOK
<1>10. ASSUME NEW e \in Events, WebhookDuplicate(e) PROVE PayTypeInv'
  BY <1>10 DEF WebhookDuplicate, PayTypeOK, HooksHaveOrders, HandledRecorded, Working, EventOf
<1>11. ASSUME Provider PROVE PayTypeInv'
  <2>1. \A o \in Orders, t \in EventTypes : [order |-> o, type |-> t] \in Events
    BY DEF Events
  <2>2. \A o \in Orders \cup {NoOrder} : "other" \in EventTypes => [order |-> o, type |-> "other"] \in Events
    BY DEF Events
  <2>3. UNCHANGED <<payment, recorded, acked, hook, handled>>
    BY <1>11 DEF Provider, Charge, Abandon, Attempt, Notify
  <2>4. sent' \in SUBSET Events /\ intent' \in [Orders -> {"none", "open", "succeeded", "canceled"}]
    BY <1>11, <2>1, <2>2 DEF Provider, Charge, Abandon, Attempt, Notify, Emit, PayTypeOK
  <2> QED BY <2>3, <2>4 DEF PayTypeOK, HooksHaveOrders, HandledRecorded, Working, EventOf
<1> QED BY <1>1, <1>2, <1>3, <1>4, <1>5, <1>6, <1>7, <1>8, <1>9, <1>10, <1>11
        DEF PayNext, allVars, OrderRequest, Background, CreateIntentForOrder, HandleWebhook, WebhookFind

(* The payment service changes orders, reservations and stock only through    *)
(* the operations of the order service: what is proved of every behaviour of  *)
(* the order service holds of the shop with payments.                         *)
THEOREM PaymentsUseOrders == PaySpec => OrdersSpec
<1>1. PayInit => Init /\ PayTypeInv
  BY PayInitType
<1>2. PaymentsAssumption /\ PayTypeInv /\ [PayNext]_allVars => PayTypeInv'
  BY PayTypeStep
<1>3. PaymentsAssumption /\ PayTypeInv /\ [PayNext]_allVars => [Next]_vars
  BY OrderSteps DEF PayTypeInv
<1> QED BY <1>1, <1>2, <1>3, PaymentsAssumption, PTL DEF PaySpec, OrdersSpec, Spec

(* The tables of the payment service stay well typed.                         *)
THEOREM PaymentsTyped == PaySpec => []PayTypeInv
  BY PayInitType, PayTypeStep, PaymentsAssumption, PTL DEF PaySpec

--------------------------------------------------------------------------------
(* One delivery of an event is handled.                                       *)

(* A handler takes up an event only by recording it, which no second one can; *)
(* it works on that event until it is done, and is never done with another.   *)
LEMMA HandledOnceStep ==
  PayTypeInv /\ EventHandledOnce /\ [PayNext]_allVars => EventHandledOnce'
<1> SUFFICES ASSUME PayTypeInv, EventHandledOnce, [PayNext]_allVars PROVE EventHandledOnce'
  OBVIOUS
<1>a. hook \in [Handlers -> Hooks] /\ handled \subseteq recorded
  BY DEF PayTypeInv, PayTypeOK
<1>1. ASSUME UNCHANGED <<hook, handled>> PROVE EventHandledOnce'
  BY <1>1 DEF EventHandledOnce, Handling, Working, EventOf
<1>2. ASSUME NEW k \in Handlers, NEW e \in Events, WebhookRecord(k, e) PROVE EventHandledOnce'
  <2>1. /\ hook' = [hook EXCEPT ![k] = [at |-> "recorded", order |-> e.order, type |-> e.type]]
        /\ e \notin recorded /\ handled' = handled
    BY <1>2 DEF WebhookRecord
  <2>2. EventOf(k)' = e
    BY <1>a, <2>1 DEF EventOf, Events
  <2>3. ASSUME NEW j \in Handlers \ {k}
        PROVE  Working(j)' = Working(j) /\ EventOf(j)' = EventOf(j)
    BY <1>a, <2>1 DEF Working, EventOf
  <2>4. ASSUME NEW j \in Handlers \ {k}, Working(j)'
        PROVE  EventOf(j)' \in recorded /\ EventOf(j)' \notin handled'
    BY <2>1, <2>3, <2>4 DEF PayTypeInv, HandledRecorded, EventHandledOnce
  <2>5. e \notin handled'
    BY <1>a, <2>1
  <2>6. ASSUME NEW h \in Handlers, Working(h)' PROVE EventOf(h)' \notin handled'
    BY <2>2, <2>4, <2>5, <2>6
  <2>7. ASSUME NEW h \in Handlers, NEW g \in Handlers \ {h}, Working(h)', Working(g)'
        PROVE  EventOf(g)' # EventOf(h)'
    <3>1. CASE h = k \/ g = k
      BY <2>1, <2>2, <2>4, <2>7, <3>1
    <3>2. CASE h # k /\ g # k
      BY <2>3, <2>7, <3>2 DEF EventHandledOnce, Handling
    <3> QED BY <3>1, <3>2
  <2> QED BY <2>6, <2>7 DEF EventHandledOnce, Handling
<1>3. ASSUME NEW k \in Handlers, Finish(k),
             handled' = handled \/ (Working(k) /\ handled' = handled \cup {EventOf(k)})
      PROVE  EventHandledOnce'
  <2>1. ~Working(k)'
    BY <1>3, <1>a DEF Finish, NoHook, Working
  <2>2. ASSUME NEW j \in Handlers \ {k}
        PROVE  Working(j)' = Working(j) /\ EventOf(j)' = EventOf(j)
    BY <1>3, <1>a DEF Finish, Working, EventOf
  <2>3. ASSUME NEW h \in Handlers, Working(h)' PROVE h # k /\ EventOf(h)' \notin handled'
    BY <1>3, <2>1, <2>2, <2>3 DEF EventHandledOnce, Handling
  <2> QED BY <2>1, <2>2, <2>3 DEF EventHandledOnce, Handling
<1>4. ASSUME NEW k \in Handlers, NEW at \in {"saved", "ordering"}, Working(k), Advance(k, at), handled' = handled
      PROVE  EventHandledOnce'
  <2>1. ASSUME NEW j \in Handlers
        PROVE  Working(j)' = Working(j) /\ EventOf(j)' = EventOf(j)
    BY <1>4, <1>a DEF Advance, Working, EventOf, Hooks
  <2> QED BY <1>4, <2>1 DEF EventHandledOnce, Handling
<1>5. ASSUME NEW k \in Handlers, NEW w \in Hooks, ~Working(k), hook' = [hook EXCEPT ![k] = w],
             w.at \in {"intent_call", "intent_store"}, handled' = handled
      PROVE  EventHandledOnce'
  <2>1. ~Working(k)'
    BY <1>5, <1>a DEF Working
  <2>2. ASSUME NEW j \in Handlers \ {k}
        PROVE  Working(j)' = Working(j) /\ EventOf(j)' = EventOf(j)
    BY <1>5, <1>a DEF Working, EventOf
  <2> QED BY <1>5, <2>1, <2>2 DEF EventHandledOnce, Handling
<1>6. ASSUME NEW k \in Handlers, NEW o \in Orders, IntentRead(k, o) PROVE EventHandledOnce'
  <2>1. PICK w : w = [NoHook EXCEPT !.at = "intent_call", !.order = o]
    OBVIOUS
  <2>2. w = [at |-> "intent_call", order |-> o, type |-> "pending"]
    BY <2>1, Zenon DEF NoHook
  <2>3. w \in Hooks /\ ~Working(k)
    BY <1>6, <2>2 DEF Hooks, PaymentStatuses, IntentRead, Working, NoHook
  <2> QED BY <1>5, <1>6, <2>1, <2>2, <2>3 DEF IntentRead
<1>7. ASSUME NEW k \in Handlers, IntentCall(k) PROVE EventHandledOnce'
  <2>1. PICK w : w = [hook[k] EXCEPT !.at = "intent_store"]
    OBVIOUS
  <2>2. w \in Hooks /\ w.at = "intent_store"
    BY <1>a, <2>1 DEF Hooks
  <2>3. hook' = [hook EXCEPT ![k] = w] /\ handled' = handled /\ ~Working(k)
    BY <1>7, <2>1 DEF IntentCall, Advance, Working
  <2> QED BY <1>5, <2>2, <2>3
<1>8. ASSUME NEW k \in Handlers, Succeed(k), Working(k) PROVE EventHandledOnce'
  <2>1. Finish(k) /\ handled' = handled \cup {EventOf(k)}
    BY <1>8 DEF Succeed
  <2> QED BY <1>3, <1>8, <2>1
<1>9. ASSUME NEW k \in Handlers, GiveUp(k) PROVE EventHandledOnce'
  <2>1. Finish(k) /\ (handled' = handled \/ (Working(k) /\ handled' = handled \cup {EventOf(k)}))
    BY <1>9 DEF GiveUp
  <2> QED BY <1>3, <2>1
<1>10. ASSUME NEW k \in Handlers, HandleWebhook(k) PROVE EventHandledOnce'
  BY <1>1, <1>2, <1>4, <1>8, <1>9, <1>10
     DEF HandleWebhook, WebhookSave, WebhookIgnore, WebhookNoPayment, WebhookOrder, WebhookAlreadyPaid,
         WebhookRefused, WebhookFind, WebhookCommit, WebhookRollback, WebhookFail, payVars, Working
<1>11. ASSUME NEW k \in Handlers, IntentStore(k) PROVE EventHandledOnce'
  BY <1>3, <1>11 DEF IntentStore
<1> QED BY <1>1, <1>6, <1>7, <1>10, <1>11
        DEF PayNext, allVars, payVars, OrderRequest, Background, CreateIntentForOrder, WebhookDuplicate,
            Provider, Charge, Abandon, Attempt, Notify

(* An event is handled at most once, ever: however often and however          *)
(* concurrently it is delivered, the handler that works on it does so alone   *)
(* and no handler was done with it before, whether it had succeeded, failed   *)
(* half-way or died.                                                          *)
THEOREM EventsHandledOnce == PaySpec => []EventHandledOnce
<1>1. PayInit => EventHandledOnce
  BY DEF PayInit, EventHandledOnce, Working, NoHook
<1> QED BY <1>1, HandledOnceStep, PaymentsTyped, PTL DEF PaySpec

--------------------------------------------------------------------------------
(* Orders are marked paid only for money that was charged.                    *)

(* Only a webhook that handles a success event runs MarkOrderPaid, and it     *)
(* runs it for the order of its event.                                        *)
PayingForEvent ==
  \A h \in Handlers : call[h].at \in {"pay_find", "pay_write"} =>
    hook[h].at = "ordering" /\ hook[h].type = "succeeded" /\ hook[h].order = call[h].order

(* No request in flight asks UpdateOrderStatus for "paid".                    *)
NobodySetsPaid == \A h \in Handlers : call[h].at = "move" => call[h].to # "paid"

(* Success events come from charges, and only emitted events are recorded.    *)
EventsAreReal ==
  /\ recorded \subseteq sent
  /\ \A o \in Orders : [order |-> o, type |-> "succeeded"] \in sent => intent[o] = "succeeded"

ChargeInv == PayingForEvent /\ NobodySetsPaid /\ EventsAreReal /\ PaidMeansCharged

(* The provider emits a success event with the charge and never undoes it.    *)
LEMMA EventsStep == PayTypeInv /\ EventsAreReal /\ [PayNext]_allVars => EventsAreReal'
<1> SUFFICES ASSUME PayTypeInv, EventsAreReal, [PayNext]_allVars PROVE EventsAreReal'
  OBVIOUS
<1>1. recorded' \subseteq recorded \cup sent
  BY DEF PayNext, allVars, payVars, OrderRequest, Background, CreateIntentForOrder, HandleWebhook,
         IntentRead, IntentCall, IntentStore, WebhookRecord, WebhookSave, WebhookIgnore, WebhookNoPayment,
         WebhookOrder, WebhookAlreadyPaid, WebhookRefused, WebhookFind, WebhookCommit, WebhookRollback, WebhookFail,
         WebhookDuplicate, Provider, Charge, Abandon, Attempt, Notify
<1>2. CASE UNCHANGED <<intent, sent>>
  BY <1>1, <1>2 DEF EventsAreReal
<1>3. ASSUME NEW h \in Handlers, IntentCall(h) PROVE EventsAreReal'
  BY <1>1, <1>3 DEF IntentCall, EventsAreReal, PayTypeInv, PayTypeOK
<1>4. ASSUME NEW q \in Orders, Charge(q) \/ Abandon(q) \/ \E t \in EventTypes : Attempt(q, t)
      PROVE  EventsAreReal'
  BY <1>1, <1>4 DEF Charge, Abandon, Attempt, Emit, EventsAreReal, PayTypeInv, PayTypeOK
<1>5. ASSUME NEW q \in Orders \cup {NoOrder}, Notify(q) PROVE EventsAreReal'
  BY <1>1, <1>5 DEF Notify, Emit, EventsAreReal
<1> QED BY <1>2, <1>3, <1>4, <1>5
        DEF PayNext, allVars, payVars, OrderRequest, Background, CreateIntentForOrder, HandleWebhook,
            IntentRead, IntentStore, WebhookRecord, WebhookSave, WebhookIgnore, WebhookNoPayment,
            WebhookOrder, WebhookAlreadyPaid, WebhookRefused, WebhookFind, WebhookCommit, WebhookRollback, WebhookFail,
            WebhookDuplicate, Provider

(* A handler that works for a webhook does nothing else, so what it runs in   *)
(* the order service is what its event calls for.                             *)
LEMMA CallsStep ==
  "paid" \notin Moves /\ TypeInv /\ PayTypeInv /\ PayingForEvent /\ NobodySetsPaid /\ [PayNext]_allVars
    => PayingForEvent' /\ NobodySetsPaid'
<1> SUFFICES ASSUME "paid" \notin Moves, TypeInv, PayTypeInv, PayingForEvent, NobodySetsPaid, [PayNext]_allVars
             PROVE  PayingForEvent' /\ NobodySetsPaid'
  OBVIOUS
<1> DEFINE Right(g) ==
      /\ call[g].at \in {"pay_find", "pay_write"} =>
           hook[g].at = "ordering" /\ hook[g].type = "succeeded" /\ hook[g].order = call[g].order
      /\ call[g].at = "move" => call[g].to # "paid"
<1>a. \A g \in Handlers : Right(g)
  BY DEF PayingForEvent, NobodySetsPaid
<1>b. SUFFICES ASSUME NEW g \in Handlers PROVE Right(g)'
  BY DEF PayingForEvent, NobodySetsPaid
<1>c. call \in [Handlers -> Calls] /\ hook \in [Handlers -> Hooks]
  BY DEF TypeInv, TypeOK, PayTypeInv, PayTypeOK
<1>1. CASE call'[g] = call[g] /\ hook'[g] = hook[g]
  BY <1>1, <1>a
<1>2. CASE call'[g].at \in {"idle", "place", "cancel_find", "cancel_write"}
  BY <1>2
<1>3. ASSUME NEW h \in Handlers, Place(h) \/ CancelOrder(h) \/ UpdateOrderStatus(h) \/ Fail(h), hook' = hook
      PROVE  Right(g)'
  <2>1. ASSUME NEW c \in Calls, c.at \notin {"pay_find", "pay_write"}, c.to # "paid",
               call' = [call EXCEPT ![h] = c]
        PROVE  Right(g)'
    BY <1>1, <1>3, <1>c, <2>1
  <2>2. Idle \in Calls /\ Idle.at = "idle" /\ Idle.to = "new"
    BY DEF Idle, Calls, CallSteps, OrderStatuses
  <2>3. ASSUME End(h) PROVE Right(g)'
    BY <2>1, <2>2, <2>3 DEF End
  <2>4. ASSUME NEW o \in Orders, NEW k \in BOOLEAN, PlaceRead(h, o, k) PROVE Right(g)'
    <3>1. PICK c : c = [Idle EXCEPT !.at = "place", !.order = o, !.coupon = k]
      OBVIOUS
    <3>2. c \in Calls /\ c.at = "place" /\ c.to = "new"
      BY <3>1 DEF Idle, Calls, CallSteps, OrderStatuses
    <3> QED BY <2>1, <2>4, <3>1, <3>2 DEF PlaceRead, Begin
  <2>5. ASSUME NEW o \in Orders, CancelRead(h, o) PROVE Right(g)'
    <3>1. PICK c : c = [Idle EXCEPT !.at = "cancel_find", !.order = o]
      OBVIOUS
    <3>2. c \in Calls /\ c.at = "cancel_find" /\ c.to = "new"
      BY <3>1 DEF Idle, Calls, CallSteps, OrderStatuses
    <3> QED BY <2>1, <2>5, <3>1, <3>2 DEF CancelRead, Begin
  <2>6. ASSUME CancelFind(h) PROVE Right(g)'
    <3>1. PICK c : c = [call[h] EXCEPT !.at = "cancel_write", !.rows = ActiveRows(call[h].order)]
      OBVIOUS
    <3>2. c.at = "cancel_write" /\ call' = [call EXCEPT ![h] = c]
      BY <1>c, <2>6, <3>1 DEF CancelFind, Found, Calls
    <3> QED BY <1>1, <1>2, <1>3, <1>c, <3>2
  <2>7. ASSUME NEW o \in Orders, NEW s \in Moves, MoveRead(h, o, s) PROVE Right(g)'
    <3>1. PICK c : c = [Idle EXCEPT !.at = "move", !.order = o, !.to = s]
      OBVIOUS
    <3>2. c \in Calls /\ c.at = "move" /\ c.to = s
      BY <3>1, OrderServiceAssumption DEF Idle, Calls, CallSteps, OrderStatuses
    <3> QED BY <2>1, <2>7, <3>1, <3>2 DEF MoveRead, Begin
  <2> QED BY <1>3, <2>3, <2>4, <2>5, <2>6, <2>7
          DEF Place, PlaceCommit, PlaceReject, CancelOrder, CancelCommit, CancelReject, UpdateOrderStatus,
              MoveSave, Fail
<1>4. ASSUME NEW h \in Handlers, WebhookOrder(h) PROVE Right(g)'
  <2>1. PICK o : o = hook[h].order
    OBVIOUS
  <2>2. \A k \in Handlers \ {h} : hook'[k] = hook[k]
    BY <1>4, <1>c DEF WebhookOrder, Advance
  <2>3. hook'[h].at = "ordering" /\ hook'[h].order = o /\ hook'[h].type = hook[h].type
    BY <1>4, <1>c, <2>1 DEF WebhookOrder, Advance, Hooks
  <2>4. ASSUME NEW c \in Calls, call' = [call EXCEPT ![h] = c], c.order = o,
               \/ c.at = "pay_find" /\ hook[h].type = "succeeded"
               \/ c.at = "move" /\ c.to # "paid"
        PROVE  Right(g)'
    BY <1>1, <1>c, <2>2, <2>3, <2>4
  <2>5. o \in Orders
    BY <1>4, <2>1 DEF WebhookOrder, PayTypeInv, HooksHaveOrders
  <2>6. CASE hook[h].type = "succeeded"
    <3>1. PICK c : c = [Idle EXCEPT !.at = "pay_find", !.order = o]
      OBVIOUS
    <3>2. c \in Calls /\ c.at = "pay_find" /\ c.order = o
      BY <2>5, <3>1 DEF Idle, Calls, CallSteps, OrderStatuses
    <3>3. PayRead(h, o)
      BY <1>4, <2>1, <2>6 DEF WebhookOrder
    <3> QED BY <2>4, <2>6, <3>1, <3>2, <3>3 DEF PayRead, Begin
  <2>7. CASE hook[h].type # "succeeded"
    <3>1. PICK s \in WebhookMoves : MoveRead(h, o, s)
      BY <1>4, <2>1, <2>7 DEF WebhookOrder, MoveOf, WebhookMoves
    <3>2. PICK c : c = [Idle EXCEPT !.at = "move", !.order = o, !.to = s]
      OBVIOUS
    <3>3. c \in Calls /\ c.at = "move" /\ c.order = o /\ c.to = s /\ s # "paid"
      BY <2>5, <3>2 DEF Idle, Calls, CallSteps, OrderStatuses, WebhookMoves
    <3> QED BY <2>4, <3>1, <3>2, <3>3 DEF MoveRead, Begin
  <2> QED BY <2>6, <2>7
<1>5. ASSUME NEW h \in Handlers, WebhookFind(h) PROVE Right(g)'
  <2>1. call[h].at = "pay_find" /\ hook' = hook
    BY <1>5 DEF WebhookFind, PayFind, payVars
  <2>2. PICK c : c = [call[h] EXCEPT !.at = "pay_write", !.rows = ActiveRows(call[h].order)]
    OBVIOUS
  <2>3. c.at = "pay_write" /\ c.order = call[h].order /\ call' = [call EXCEPT ![h] = c]
    BY <1>5, <1>c, <2>2 DEF WebhookFind, PayFind, Found, Calls
  <2> QED BY <1>1, <1>a, <1>c, <2>1, <2>3
<1>6. ASSUME NEW h \in Handlers, End(h), Finish(h) PROVE Right(g)'
  BY <1>1, <1>2, <1>6, <1>c DEF End, Finish, Idle
<1>7. ASSUME NEW h \in Handlers, call' = call, hook[h].at # "ordering",
             \A k \in Handlers \ {h} : hook'[k] = hook[k]
      PROVE  Right(g)'
  BY <1>1, <1>7, <1>a
<1>8. ASSUME NEW h \in Handlers, CreateIntentForOrder(h) PROVE Right(g)'
  <2>1. ASSUME NEW w, hook' = [hook EXCEPT ![h] = w], call' = call, hook[h].at # "ordering"
        PROVE  Right(g)'
    BY <1>7, <1>c, <2>1
  <2>2. NoHook.at # "ordering"
    BY DEF NoHook
  <2> QED BY <1>8, <2>1, <2>2
          DEF CreateIntentForOrder, IntentRead, IntentCall, IntentStore, Advance, Finish, vars
<1>9. ASSUME NEW h \in Handlers, HandleWebhook(h) PROVE Right(g)'
  <2>1. ASSUME (\E e \in Events : WebhookRecord(h, e)) \/ WebhookSave(h) \/ WebhookIgnore(h)
               \/ WebhookNoPayment(h) \/ WebhookAlreadyPaid(h) \/ WebhookRefused(h)
        PROVE  Right(g)'
    BY <1>7, <1>c, <2>1
       DEF WebhookRecord, WebhookSave, WebhookIgnore, WebhookNoPayment, WebhookAlreadyPaid, WebhookRefused,
           Succeed, GiveUp, Advance, Finish, NoHook, vars
  <2>2. ASSUME WebhookCommit(h) \/ WebhookRollback(h) PROVE End(h) /\ Finish(h)
    BY <2>2 DEF WebhookCommit, WebhookRollback, PayCommit, MoveSave, PayReject, Succeed, GiveUp
  <2>3. ASSUME WebhookFail(h) PROVE Right(g)'
    <3>1. Finish(h) /\ (End(h) \/ (call[h] = Idle /\ call' = call))
      BY <2>3 DEF WebhookFail, GiveUp, Fail, vars
    <3>2. CASE call[h] = Idle /\ call' = call
      BY <1>1, <1>2, <1>c, <3>1, <3>2 DEF Finish, Idle
    <3> QED BY <1>6, <3>1, <3>2
  <2> QED BY <1>4, <1>5, <1>6, <1>9, <2>1, <2>2, <2>3 DEF HandleWebhook
<1>10. ASSUME Background PROVE Right(g)'
  BY <1>1, <1>10
     DEF Background, payVars, Sweep, SweepFetch, SweepRead, SweepSkip, SweepWrite, SweepFail, Expire
<1>11. CASE call' = call /\ hook' = hook
  BY <1>1, <1>11
<1> QED BY <1>3, <1>8, <1>9, <1>10, <1>11
        DEF PayNext, allVars, vars, payVars, OrderRequest, WebhookDuplicate, Provider, Charge, Abandon,
            Attempt, Notify

(* Marking an order paid is left to the webhook of its success event.          *)
LEMMA ChargedStep ==
  TypeInv /\ PayTypeInv /\ ChargeInv /\ [Next]_vars /\ EventsAreReal' /\ recorded \subseteq recorded'
    => PaidMeansCharged'
<1> SUFFICES ASSUME TypeInv, PayTypeInv, ChargeInv, [Next]_vars, EventsAreReal', recorded \subseteq recorded',
                    NEW o \in Orders, status'[o] = "paid"
             PROVE  [order |-> o, type |-> "succeeded"] \in recorded
  BY DEF PaidMeansCharged, EventsAreReal
<1>a. status \in [Orders -> OrderStatuses \cup {"none"}]
  BY DEF TypeInv, TypeOK
<1>1. CASE status[o] = "paid"
  BY <1>1 DEF ChargeInv, PaidMeansCharged
<1>2. ASSUME NEW h \in Handlers, PayCommit(h), status[o] # "paid"
      PROVE  [order |-> o, type |-> "succeeded"] \in recorded
  <2>1. call[h].order = o /\ call[h].at = "pay_write"
    BY <1>2, <1>a DEF PayCommit
  <2>2. hook[h].at = "ordering" /\ hook[h].type = "succeeded" /\ hook[h].order = o
    BY <2>1 DEF ChargeInv, PayingForEvent
  <2> QED BY <2>2 DEF PayTypeInv, HandledRecorded, Working, EventOf
<1>3. ASSUME NEW h \in Handlers, MoveSave(h), status[o] # "paid" PROVE FALSE
  BY <1>3, <1>a DEF MoveSave, ChargeInv, NobodySetsPaid
<1>4. ASSUME \/ \E h \in Handlers, c \in Carts : PlaceCommit(h, c)
             \/ \E h \in Handlers : CancelCommit(h)
             \/ \E q \in Orders : SweepWrite(q)
             \/ UNCHANGED tables
      PROVE  status[o] = "paid"
  BY <1>4, <1>a DEF PlaceCommit, CancelCommit, SweepWrite, tables
<1> QED BY <1>1, <1>2, <1>3, <1>4, WritingSteps

(* Events are never forgotten.                                                 *)
LEMMA RecordedStays == [PayNext]_allVars => recorded \subseteq recorded'
  BY DEF PayNext, allVars, payVars, OrderRequest, Background, CreateIntentForOrder, HandleWebhook,
         IntentRead, IntentCall, IntentStore, WebhookRecord, WebhookSave, WebhookIgnore, WebhookNoPayment,
         WebhookOrder, WebhookAlreadyPaid, WebhookRefused, WebhookFind, WebhookCommit, WebhookRollback, WebhookFail,
         WebhookDuplicate, Provider, Charge, Abandon, Attempt, Notify

(* Where no member of staff sets the status "paid" by hand, an order is marked *)
(* paid only for a charge of the provider whose event was recorded, whatever   *)
(* overlaps, fails or is delivered twice.                                      *)
THEOREM PaidOnlyWhenCharged == ASSUME "paid" \notin Moves PROVE PaySpec => []PaidMeansCharged
<1>1. PayInit => ChargeInv
  BY DEF PayInit, Init, ChargeInv, PayingForEvent, NobodySetsPaid, EventsAreReal, PaidMeansCharged, Idle
<1>2. TypeInv /\ PayTypeInv /\ ChargeInv /\ [PayNext]_allVars /\ [Next]_vars => ChargeInv'
  BY EventsStep, CallsStep, ChargedStep, RecordedStays DEF ChargeInv
<1>3. PaySpec => [][Next]_vars /\ []TypeInv
  BY PaymentsUseOrders, TypeCorrect, PTL DEF OrdersSpec, Spec, TypeInv
<1>4. ChargeInv => PaidMeansCharged
  BY DEF ChargeInv
<1> QED BY <1>1, <1>2, <1>3, <1>4, PaymentsTyped, PTL DEF PaySpec
================================================================================
