------------------------------- MODULE Notices -------------------------------
(***************************************************************************)
(* What a buyer is told of their orders: pkg/notification (logger, mail,   *)
(* fan-out, retry and dead letters), the mail preferences of               *)
(* internal/notification, and the goroutines of the order service that     *)
(* start a notice after an order was written.                              *)
(*                                                                         *)
(* A handler works on one request and then on the goroutine that the       *)
(* request started.  Mail is in reach only when the process was started    *)
(* with an SMTP host; the sweeper never has it.  There is one buyer.       *)
(***************************************************************************)
EXTENDS Requests, OrderStatus

CONSTANTS Purchases, \* orders of the buyer
          News       \* statuses that staff move orders to

ASSUME NoticesAssumption ==
    /\ News \subseteq OrderStatuses
    /\ None \notin Purchases

MaxAttempts == 3

VARIABLES
  mailing,  \* SMTP_HOST and EMAIL_FROM are set
  progress, \* the status of an order, None before it is placed
  history,  \* the statuses an order has had
  wish,     \* table preferences, by event: enabled
  task,     \* what each handler is doing
  mails,    \* the mails sent: order and what they say of it
  dead,     \* dead letters
  twice,    \* a notice was mailed more than once
  unwanted  \* a mail went out although the buyer had opted out

noteVars == <<mailing, progress, history, wish, task, mails, dead, twice, unwanted, left>>

Events == {"order_placed", "order_status_changed"}

NoTask == [at |-> "idle", o |-> None, says |-> None, event |-> None, wants |-> None,
           tries |-> 0, failed |-> FALSE, sent |-> FALSE, out |-> FALSE]

NoteInit ==
    /\ mailing \in BOOLEAN
    /\ progress = [o \in Purchases |-> None]
    /\ history = [o \in Purchases |-> {}]
    /\ wish = [e \in Events |-> None]
    /\ task = [h \in Handlers |-> NoTask]
    /\ mails = {}
    /\ dead = {}
    /\ twice = FALSE /\ unwanted = FALSE
    /\ left = MaxRequests

posts == <<mails, dead, twice, unwanted>>
purchases == <<progress, history>>

-----------------------------------------------------------------------------

Does(h, step) == task[h].at = step

Turn(h, c) == task' = [task EXCEPT ![h] = c]

Moves(o, s) ==
    /\ progress' = [progress EXCEPT ![o] = s]
    /\ history' = [history EXCEPT ![o] = @ \cup {s}]

Notice(o, event, s) ==
    [NoTask EXCEPT !.at = "user", !.o = o, !.event = event, !.says = s,
                   !.out = wish[event] = FALSE]

PurchasePlaced(h, o) ==
    /\ Does(h, "idle")
    /\ NextRequest
    /\ progress[o] = None
    /\ Moves(o, "pending_payment")
    /\ Turn(h, Notice(o, "order_placed", "pending_payment"))
    /\ UNCHANGED <<mailing, wish, posts>>

(* UpdateOrderStatus: the gate is passed by the status that was read *)
StatusRead(h, o, s) ==
    /\ Does(h, "idle")
    /\ NextRequest
    /\ progress[o] # None
    /\ CanTransitionTo(progress[o], s)
    /\ Turn(h, [NoTask EXCEPT !.at = "save", !.o = o, !.says = s])
    /\ UNCHANGED <<mailing, purchases, wish, posts>>

StatusSave(h) ==
    /\ Does(h, "save")
    /\ Moves(task[h].o, task[h].says)
    /\ Turn(h, Notice(task[h].o, "order_status_changed", task[h].says))
    /\ UNCHANGED <<mailing, wish, posts, left>>

(* MarkOrderPaid and CancelOrder write a status and tell nobody *)
QuietMove(o, s) ==
    /\ NextRequest
    /\ progress[o] # None
    /\ Moves(o, s)
    /\ UNCHANGED <<mailing, wish, task, posts>>

(* [variant] the sweeper is given the notifier of the servers *)
SweeperMails == TRUE

(* The sweeper's order service is built with a logger for a notifier *)
SweeperNotifierMails == FALSE

(* The sweeper takes an order with expired reservations.  It cancels one that
   waits for payment and leaves another as it is; either way it goes on to
   tell the buyer that the order is cancelled. *)
SweepTells(h, o) ==
    /\ Does(h, "idle")
    /\ NextRequest
    /\ progress[o] # None
    /\ IF progress[o] \in {"new", "pending_payment"} THEN Moves(o, "cancelled")
       ELSE UNCHANGED purchases
    /\ IF SweeperNotifierMails THEN Turn(h, Notice(o, "order_status_changed", "cancelled"))
       ELSE UNCHANGED task
    /\ UNCHANGED <<mailing, wish, posts>>

(* The goroutine reads the buyer, then sends; without mail it only logs *)
FindBuyer(h) ==
    /\ Does(h, "user")
    /\ Turn(h, IF mailing THEN [task[h] EXCEPT !.at = "prefer", !.tries = 1] ELSE NoTask)
    /\ UNCHANGED <<mailing, purchases, wish, posts, left>>

(* [variant] the preference is looked up without the event *)
IsEnabledAnyEvent(h) ==
    /\ Does(h, "prefer")
    /\ \E e \in Events :
         Turn(h, IF wish[e] = FALSE THEN [task[h] EXCEPT !.at = "sent"]
                 ELSE [task[h] EXCEPT !.at = "send"])
    /\ UNCHANGED <<mailing, purchases, wish, posts, left>>

(* The stored preference, if there is one, decides.  The child notifier that
   does not want to send succeeds. *)
IsEnabled(h) ==
    /\ Does(h, "prefer")
    /\ Turn(h, IF wish[task[h].event] = FALSE THEN [task[h] EXCEPT !.at = "sent"]
               ELSE [task[h] EXCEPT !.at = "send"])
    /\ UNCHANGED <<mailing, purchases, wish, posts, left>>

(* When the preference cannot be read, the mail is sent *)
LookupFails(h) ==
    /\ Does(h, "prefer")
    /\ Turn(h, [task[h] EXCEPT !.at = "send", !.out = FALSE])
    /\ UNCHANGED <<mailing, purchases, wish, posts, left>>

(* The server takes the mail; the connection may break before it says so *)
SmtpTakes(h) ==
    LET c == task[h] IN
    /\ Does(h, "send")
    /\ mails' = mails \cup {<<c.o, c.says>>}
    /\ twice' = (twice \/ c.sent)
    /\ unwanted' = (unwanted \/ c.out)
    /\ \E failed \in BOOLEAN :
         Turn(h, [c EXCEPT !.at = "sent", !.sent = TRUE, !.failed = failed])
    /\ UNCHANGED <<mailing, purchases, wish, dead, left>>

(* No connection, or the context is done *)
SmtpFails(h) ==
    /\ Does(h, "send")
    /\ Turn(h, [task[h] EXCEPT !.at = "sent", !.failed = TRUE])
    /\ UNCHANGED <<mailing, purchases, wish, posts, left>>

(* [variant] the fan-out returns what its child returned *)
MultiReports(failed) == failed

(* The fan-out logs the error of a child and returns none *)
MultiNotifier(failed) == FALSE

(* A dead letter, which may itself fail to be written *)
Bury(c) == dead' \in {dead, dead \cup {<<c.o, c.says>>}}

(* RetryingNotifier.run: done, or again after a delay, or a dead letter.  Around
   the fan-out it is always done. *)
RetryRun(h) ==
    LET c == task[h] IN
    /\ Does(h, "sent")
    /\ IF MultiNotifier(c.failed) /\ c.tries < MaxAttempts
       THEN /\ Turn(h, [c EXCEPT !.at = "prefer", !.tries = @ + 1, !.failed = FALSE])
            /\ UNCHANGED dead
       ELSE /\ Turn(h, NoTask)
            /\ IF MultiNotifier(c.failed) THEN Bury(c) ELSE UNCHANGED dead
    /\ UNCHANGED <<mailing, purchases, wish, mails, twice, unwanted, left>>

(* The preferences: Set is an Upsert, a read and then a write *)
PreferRead(h, e, b) ==
    /\ Does(h, "idle")
    /\ NextRequest
    /\ Turn(h, [NoTask EXCEPT !.at = IF wish[e] = None THEN "create" ELSE "update",
                              !.event = e, !.wants = b])
    /\ UNCHANGED <<mailing, purchases, wish, posts>>

(* A notice that began while the buyer was opted out still counts as unwanted
   unless the buyer opted in meanwhile *)
OptsIn(h, e) ==
    task' = [g \in Handlers |-> IF g = h THEN NoTask
                                ELSE IF task[g].event = e THEN [task[g] EXCEPT !.out = FALSE]
                                ELSE task[g]]

(* An insert leaves a false to the column's default, which is true; of two
   inserts the unique index refuses the second *)
PreferCreate(h) ==
    /\ Does(h, "create")
    /\ wish[task[h].event] = None
    /\ wish' = [wish EXCEPT ![task[h].event] = TRUE]
    /\ OptsIn(h, task[h].event)
    /\ UNCHANGED <<mailing, purchases, posts, left>>

PreferUpdate(h) ==
    /\ Does(h, "update")
    /\ wish' = [wish EXCEPT ![task[h].event] = task[h].wants]
    /\ IF task[h].wants THEN OptsIn(h, task[h].event) ELSE Turn(h, NoTask)
    /\ UNCHANGED <<mailing, purchases, posts, left>>

(* A read or a write fails, or the process ends: the goroutine is gone *)
NoteFail(h) ==
    /\ ~ Does(h, "idle")
    /\ Turn(h, NoTask)
    /\ UNCHANGED <<mailing, purchases, wish, posts, left>>

NoteNext ==
    \/ \E h \in Handlers :
         \/ \E o \in Purchases :
              \/ PurchasePlaced(h, o) \/ SweepTells(h, o)
              \/ \E s \in News : StatusRead(h, o, s)
         \/ \E e \in Events, b \in BOOLEAN : PreferRead(h, e, b)
         \/ StatusSave(h) \/ FindBuyer(h) \/ IsEnabled(h) \/ LookupFails(h)
         \/ SmtpTakes(h) \/ SmtpFails(h) \/ RetryRun(h)
         \/ PreferCreate(h) \/ PreferUpdate(h)
         \/ NoteFail(h)
    \/ \E o \in Purchases, s \in {"paid", "cancelled"} : QuietMove(o, s)

NoteSpec == NoteInit /\ [][NoteNext]_noteVars

-----------------------------------------------------------------------------

(* A mail says of an order what was true of it at some time, also when a move
   overlaps another and when the sweeper passes over an order that was paid
   while it worked (internal/order/service/order.go:231,402-418) *)
MailsAreTrue == \A m \in mails : m[2] \in history[m[1]]

(* No notice is mailed twice.  A repeated attempt could do that, as the mail
   server may take a mail and the connection break before it says so; but none
   is ever repeated.  The fan-out hides every failure from the retries around it
   (pkg/notification/email_notifier.go:79-95), so that the retries and the dead
   letters which retry.go:33-35 and factory.go:13-14 promise never happen. *)
MailAtMostOnce == ~ twice

(* A buyer whose stored preference is off when a notice starts, and who does
   not turn it on meanwhile, gets no mail, unless the preference could not be
   read (pkg/notification/email_notifier.go:53-67) *)
OptedOutGetNoMail == ~ unwanted

=============================================================================
