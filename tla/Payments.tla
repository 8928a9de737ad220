-------------------------------- MODULE Payments --------------------------------
(***************************************************************************)
(* The payment service (internal/payment) on top of the order service:     *)
(* payment intents, the provider's webhook deliveries and their effects on *)
(* payments and orders.  A webhook is handled in separate database steps:  *)
(* the dedup row is inserted first, then the payment row is saved, then    *)
(* the order service is called; no transaction spans them.  The provider   *)
(* (Stripe) is external: it charges an intent, emits events and delivers   *)
(* each of them, in any order, until an attempt is answered with a 2xx.    *)
(***************************************************************************)
EXTENDS OrderProperties

CONSTANT EventTypes   \* the webhook event types the provider emits; "other": one of no use here

VARIABLES
  payment,   \* payments.status of the order's row, "none" before it is created
  recorded,  \* provider_events
  intent,    \* the provider's payment intent of the order
  sent,      \* events the provider has emitted
  acked,     \* events answered with a 2xx: the provider stops delivering them
  hook,      \* what each handler does for the payment service
  handled    \* (history) events a handler is done with: it ended, with whatever answer, or died

payVars == <<payment, recorded, intent, sent, acked, hook, handled>>
allVars == <<vars, payVars>>

PaymentStatuses == {"pending", "processing", "requires_action", "succeeded", "failed", "canceled"}

\* The statuses a webhook asks the order service for.
WebhookMoves == {"payment_failed", "cancelled"}

ASSUME PaymentsAssumption ==
  EventTypes \subseteq (PaymentStatuses \ {"pending"}) \cup {"other"} /\ WebhookMoves \subseteq Moves

\* An event carries an order's id, or perhaps none if it is of no use here; its type is
\* named by the payment status it brings.
Events == [order: Orders, type: EventTypes] \cup [order: {NoOrder}, type: EventTypes \cap {"other"}]

NoHook == [at |-> "none", order |-> NoOrder, type |-> "pending"]

Hooks == [at: {"none", "intent_call", "intent_store", "recorded", "saved", "ordering"},
          order: Orders \cup {NoOrder}, type: PaymentStatuses \cup {"other"}]

PayTypeOK ==
  /\ payment \in [Orders -> PaymentStatuses \cup {"none"}]
  /\ recorded \in SUBSET Events
  /\ intent \in [Orders -> {"none", "open", "succeeded", "canceled"}]
  /\ sent \in SUBSET Events
  /\ acked \in SUBSET Events
  /\ hook \in [Handlers -> Hooks]
  /\ handled \in SUBSET Events

PayInit ==
  /\ Init
  /\ payment = [o \in Orders |-> "none"]
  /\ recorded = {}
  /\ intent = [o \in Orders |-> "none"]
  /\ sent = {}
  /\ acked = {}
  /\ hook = [h \in Handlers |-> NoHook]
  /\ handled = {}

EventOf(h) == [order |-> hook[h].order, type |-> hook[h].type]

\* The handler has an event to handle.
Working(h) == hook[h].at \in {"recorded", "saved", "ordering"}

Handling(h, e) == Working(h) /\ EventOf(h) = e

Advance(h, at) == hook' = [hook EXCEPT ![h].at = at]

Finish(h) == hook' = [hook EXCEPT ![h] = NoHook]

\* The webhook is answered 200, or with an error that makes the provider retry.
Succeed(h) ==
  /\ Finish(h)
  /\ acked' = acked \cup {EventOf(h)}
  /\ handled' = handled \cup {EventOf(h)}

GiveUp(h) ==
  /\ Finish(h)
  /\ handled' = IF Working(h) THEN handled \cup {EventOf(h)} ELSE handled
  /\ UNCHANGED acked

--------------------------------------------------------------------------------
(* CreateIntentForOrder.                                                     *)

IntentRead(h, o) ==
  /\ hook[h] = NoHook /\ call[h] = Idle
  /\ status[o] = "pending_payment"
  /\ hook' = [hook EXCEPT ![h] = [NoHook EXCEPT !.at = "intent_call", !.order = o]]
  /\ UNCHANGED <<vars, payment, recorded, intent, sent, acked, handled>>

\* The idempotency key order_<id> makes a second call return the same intent.
IntentCall(h) ==
  LET o == hook[h].order IN
  /\ hook[h].at = "intent_call"
  /\ intent' = [intent EXCEPT ![o] = IF @ = "none" THEN "open" ELSE @]
  /\ Advance(h, "intent_store")
  /\ UNCHANGED <<vars, payment, recorded, sent, acked, handled>>

\* A request that saw a payment row writes nothing, and one that saw none but lost
\* the race ends with a duplicate key error (order_id is unique, rows are not deleted).
IntentStore(h) ==
  LET o == hook[h].order IN
  /\ hook[h].at = "intent_store"
  /\ payment' = [payment EXCEPT ![o] = IF @ = "none" THEN "pending" ELSE @]
  /\ Finish(h)
  /\ UNCHANGED <<vars, recorded, intent, sent, acked, handled>>

--------------------------------------------------------------------------------
(* The provider.  A customer pays with the client secret, which is handed    *)
(* out only once the payment row exists.  One event of each type per order.  *)

Emit(o, t) == sent' = sent \cup {[order |-> o, type |-> t]}

Charge(o) ==
  /\ intent[o] = "open" /\ payment[o] # "none" /\ "succeeded" \in EventTypes
  /\ intent' = [intent EXCEPT ![o] = "succeeded"]
  /\ Emit(o, "succeeded")
  /\ UNCHANGED <<vars, payment, recorded, acked, hook, handled>>

Abandon(o) ==
  /\ intent[o] = "open" /\ "canceled" \in EventTypes
  /\ intent' = [intent EXCEPT ![o] = "canceled"]
  /\ Emit(o, "canceled")
  /\ UNCHANGED <<vars, payment, recorded, acked, hook, handled>>

\* A declined attempt, a pending bank debit, a 3DS challenge: the intent stays open.
Attempt(o, t) ==
  /\ intent[o] = "open" /\ payment[o] # "none"
  /\ t \in EventTypes \cap {"failed", "processing", "requires_action"}
  /\ [order |-> o, type |-> t] \notin sent
  /\ Emit(o, t)
  /\ UNCHANGED <<vars, payment, recorded, intent, acked, hook, handled>>

\* Some other event, of the order's intent or of something without an order: bound 1.
Notify(o) ==
  /\ o # NoOrder => intent[o] # "none"
  /\ "other" \in EventTypes /\ \A e \in sent : e.type # "other"
  /\ Emit(o, "other")
  /\ UNCHANGED <<vars, payment, recorded, intent, acked, hook, handled>>

--------------------------------------------------------------------------------
(* HandleWebhook.                                                            *)

\* [variant] no dedup: every delivery is handled
WebhookRecordAgain(h, e) ==
  /\ e \in sent
  /\ hook[h] = NoHook /\ call[h] = Idle
  /\ recorded' = recorded \cup {e}
  /\ hook' = [hook EXCEPT ![h] = [at |-> "recorded", order |-> e.order, type |-> e.type]]
  /\ UNCHANGED <<vars, payment, intent, sent, acked, handled>>

\* RecordProviderEvent: the first delivery that inserts the row goes on.
WebhookRecord(h, e) ==
  /\ e \in sent \ recorded
  /\ hook[h] = NoHook /\ call[h] = Idle
  /\ recorded' = recorded \cup {e}
  /\ hook' = [hook EXCEPT ![h] = [at |-> "recorded", order |-> e.order, type |-> e.type]]
  /\ UNCHANGED <<vars, payment, intent, sent, acked, handled>>

\* [variant] a repeated delivery is answered with an error
WebhookDuplicateRefused(e) ==
  /\ e \in (sent \cap recorded) \ acked
  /\ UNCHANGED allVars

\* ErrEventAlreadyProcessed: answered 200 without any effect.
WebhookDuplicate(e) ==
  /\ e \in (sent \cap recorded) \ acked
  /\ acked' = acked \cup {e}
  /\ UNCHANGED <<vars, payment, recorded, intent, sent, hook, handled>>

\* The event names an order, and the order has a payment row.
HasPayment(h) == hook[h].order # NoOrder /\ payment[hook[h].order] # "none"

\* The row is saved with the new status, whatever it held.
WebhookSave(h) ==
  LET o == hook[h].order IN
  /\ hook[h].at = "recorded" /\ hook[h].type # "other"
  /\ HasPayment(h)
  /\ payment' = [payment EXCEPT ![o] = hook[h].type]
  /\ IF hook[h].type \in {"processing", "requires_action"}
       THEN Succeed(h)
       ELSE Advance(h, "saved") /\ UNCHANGED <<acked, handled>>
  /\ UNCHANGED <<vars, recorded, intent, sent>>

\* A type of no use here is answered 200, but only if there is a payment row.
WebhookIgnore(h) ==
  /\ hook[h].at = "recorded" /\ hook[h].type = "other"
  /\ HasPayment(h)
  /\ Succeed(h)
  /\ UNCHANGED <<vars, payment, recorded, intent, sent>>

WebhookNoPayment(h) ==
  /\ hook[h].at = "recorded"
  /\ ~HasPayment(h)
  /\ GiveUp(h)
  /\ UNCHANGED <<vars, payment, recorded, intent, sent>>

\* [variant] a canceled intent moves the order the wrong way
MoveOfMixedUp(t) == IF t = "failed" THEN "payment_failed" ELSE "paid"

\* The order service is called: MarkOrderPaid or UpdateOrderStatus.
MoveOf(t) == IF t = "failed" THEN "payment_failed" ELSE "cancelled"

WebhookOrder(h) ==
  LET o == hook[h].order IN
  /\ hook[h].at = "saved"
  /\ IF hook[h].type = "succeeded" THEN PayRead(h, o) ELSE MoveRead(h, o, MoveOf(hook[h].type))
  /\ Advance(h, "ordering")
  /\ UNCHANGED <<payment, recorded, intent, sent, acked, handled>>

\* MarkOrderPaid on a paid order is a no-op that succeeds.
WebhookAlreadyPaid(h) ==
  /\ hook[h].at = "saved" /\ hook[h].type = "succeeded"
  /\ status[hook[h].order] = "paid"
  /\ Succeed(h)
  /\ UNCHANGED <<vars, payment, recorded, intent, sent>>

\* [variant] the refused status is written to the order all the same
WebhookRefusedForced(h) ==
  LET o == hook[h].order IN
  /\ hook[h].at = "saved" /\ hook[h].type = "failed"
  /\ ~CanTransitionTo(status[o], "payment_failed")
  /\ status' = [status EXCEPT ![o] = "payment_failed"]
  /\ GiveUp(h)
  /\ UNCHANGED <<stock, reserved, cart, row, overdue, used, discounted, call, sweep,
                 payment, recorded, intent, sent>>

\* ErrInvalidStatus from either call.
WebhookRefused(h) ==
  LET o == hook[h].order IN
  /\ hook[h].at = "saved"
  /\ IF hook[h].type = "succeeded"
       THEN status[o] \in {"cancelled", "payment_failed"}
       ELSE ~CanTransitionTo(status[o], MoveOf(hook[h].type))
  /\ GiveUp(h)
  /\ UNCHANGED <<vars, payment, recorded, intent, sent>>

WebhookFind(h) ==
  /\ hook[h].at = "ordering"
  /\ PayFind(h)
  /\ UNCHANGED payVars

WebhookCommit(h) ==
  /\ hook[h].at = "ordering"
  /\ PayCommit(h) \/ MoveSave(h)
  /\ Succeed(h)
  /\ UNCHANGED <<payment, recorded, intent, sent>>

WebhookRollback(h) ==
  /\ hook[h].at = "ordering"
  /\ PayReject(h)
  /\ GiveUp(h)
  /\ UNCHANGED <<payment, recorded, intent, sent>>

\* A statement fails or the process dies: what was committed before stays.
WebhookFail(h) ==
  /\ hook[h] # NoHook
  /\ Fail(h) \/ (call[h] = Idle /\ UNCHANGED vars)
  /\ GiveUp(h)
  /\ UNCHANGED <<payment, recorded, intent, sent>>

--------------------------------------------------------------------------------
\* Requests of the order service itself, its sweeper and the clock.
OrderRequest(h) ==
  hook[h] = NoHook /\ (Place(h) \/ CancelOrder(h) \/ UpdateOrderStatus(h) \/ Fail(h)) /\ UNCHANGED payVars

Background == (Sweep \/ \E o \in Orders : Expire(o)) /\ UNCHANGED payVars

CreateIntentForOrder(h) == (\E o \in Orders : IntentRead(h, o)) \/ IntentCall(h) \/ IntentStore(h)

HandleWebhook(h) ==
  \/ \E e \in Events : WebhookRecord(h, e)
  \/ WebhookSave(h) \/ WebhookIgnore(h) \/ WebhookNoPayment(h)
  \/ WebhookOrder(h) \/ WebhookAlreadyPaid(h) \/ WebhookRefused(h)
  \/ WebhookFind(h) \/ WebhookCommit(h) \/ WebhookRollback(h) \/ WebhookFail(h)

Provider == \/ \E o \in Orders : Charge(o) \/ Abandon(o)
            \/ \E o \in Orders, t \in EventTypes : Attempt(o, t)
            \/ \E o \in Orders \cup {NoOrder} : Notify(o)

PayNext == \/ \E h \in Handlers : OrderRequest(h) \/ CreateIntentForOrder(h) \/ HandleWebhook(h)
           \/ Background
           \/ \E e \in Events : WebhookDuplicate(e)
           \/ Provider

PaySpec == PayInit /\ [][PayNext]_allVars

--------------------------------------------------------------------------------
(* An order is marked paid only when the provider has charged the customer   *)
(* and its success event was taken in, however webhooks of several types,    *)
(* retries, cancellations and sweeps overlap.                                *)
PaidMeansCharged ==
  \A o \in Orders : status[o] = "paid" =>
    intent[o] = "succeeded" /\ [order |-> o, type |-> "succeeded"] \in recorded

(* The dedup row admits one delivery of an event, once and for all: a handler *)
(* that works on an event does so alone, and nobody was done with that event  *)
(* before, not even a handler that failed half-way and left the provider to   *)
(* retry (internal/payment/service/service.go:114).                           *)
EventHandledOnce ==
  \A h \in Handlers : Working(h) =>
    /\ EventOf(h) \notin handled
    /\ \A g \in Handlers \ {h} : ~Handling(g, EventOf(h))

(* The provider's retries end: every event is answered with a 2xx at last,   *)
(* because a repeated delivery of a recorded event is.                       *)
DeliveriesEnd == \A e \in Events : e \in sent ~> e \in acked

(* An acknowledged payment left its mark: once the success event is answered *)
(* and nobody works on it, the payment row no longer says pending.           *)
AckedIsApplied ==
  \A o \in Orders :
    LET e == [order |-> o, type |-> "succeeded"] IN
    e \in acked /\ (\A h \in Handlers : ~Handling(h, e)) => payment[o] # "pending"

(* The order service's own specification: the payment service changes        *)
(* orders, reservations and stock only through its operations.               *)
OrdersSpec == Spec

GoesOn(h) == /\ call[h] # Idle \/ hook[h] # NoHook
             /\ OrderRequest(h) \/ CreateIntentForOrder(h) \/ HandleWebhook(h)

(* A request that runs goes on to its next statement or fails; the provider  *)
(* keeps delivering what is not acknowledged.                                *)
PayFairness ==
  /\ \A h \in Handlers : WF_allVars(GoesOn(h))
  /\ \A e \in Events : /\ SF_allVars(\E h \in Handlers : WebhookRecord(h, e))
                       /\ WF_allVars(WebhookDuplicate(e))

PayFairSpec == PaySpec /\ PayFairness
================================================================================
