------------------------------ MODULE DbHandle ------------------------------
(***************************************************************************)
(* pkg/dbs: the one database handle that every request of the process      *)
(* uses.  WithTransaction begins a transaction on the handle of the        *)
(* moment, puts the transaction in its place, runs the caller's function   *)
(* and puts the handle it found back; every statement goes through         *)
(* whatever handle is there.  A transaction begun on a handle that is      *)
(* already a transaction is a savepoint of it.                             *)
(*                                                                         *)
(* A request runs the script of its operation.  Statements write different *)
(* rows, so row locks play no part.                                        *)
(***************************************************************************)
EXTENDS Naturals, Sequences

CONSTANTS Requests,    \* one request each, none is repeated
          OperationOf, \* the operation of each request
          Root         \* the handle that main opened: not a transaction

(* PlaceOrder calls CreateOrder, which has a transaction of its own, in its
   transaction: it writes the order and its lines, then the reserved units and
   the reservations.  MarkOrderPaid finds the rows in its transaction and writes
   them and the order (a cancellation and a sweep have the same shape).
   UpdateOrderStatus reads and saves with no transaction.  Two writes stand for
   the two or more of a transaction.  What the first two operations read before
   their transaction is left out. *)
Script ==
    [PlaceOrder |-> <<"open", "swap", "open", "swap", "write", "write", "restore", "finish",
                      "write", "write", "restore", "finish">>,
     MarkOrderPaid |-> <<"open", "swap", "read", "write", "write", "restore", "finish">>,
     UpdateOrderStatus |-> <<"read", "write">>]

Depths == 1..2

Conns == Requests \X Depths

Handles == {Root} \cup Conns

Positions == 1..13

Statements == Requests \X Positions

ASSUME HandleAssumption ==
    /\ OperationOf \in [Requests -> DOMAIN Script]
    /\ Root \notin Conns

VARIABLES handle,    \* d.db
          conn,      \* the transaction of a connection that a request began
          pending,   \* statements and savepoints of a transaction, not committed
          committed, \* statements that the database keeps
          depth,     \* calls of WithTransaction a request is in
          frame,     \* what each such call remembers
          at,        \* position in the request's script
          failed,    \* the request is returning an error
          outcome,   \* how it was answered
          mixed      \* a request took a step while another was in a transaction

vars == <<handle, conn, pending, committed, depth, frame, at, failed, outcome, mixed>>

Frames == [on : Handles, original : Handles, sp : Statements, mark : SUBSET Statements,
           stage : {"begun", "swapped", "restored"}]

NoFrame(r) == [on |-> Root, original |-> Root, sp |-> <<r, 1>>, mark |-> {},
               stage |-> "begun"]

Init ==
    /\ handle = Root
    /\ conn = [c \in Conns |-> "none"]
    /\ pending = [c \in Conns |-> {}]
    /\ committed = {}
    /\ depth = [r \in Requests |-> 0]
    /\ frame = [r \in Requests |-> [d \in Depths |-> NoFrame(r)]]
    /\ at = [r \in Requests |-> 1]
    /\ failed = [r \in Requests |-> FALSE]
    /\ outcome = [r \in Requests |-> "none"]
    /\ mixed = FALSE

-----------------------------------------------------------------------------

ScriptOf(r) == Script[OperationOf[r]]

AtEnd(r) == at[r] > Len(ScriptOf(r))

(* The request is about to do op *)
Doing(r, op) ==
    /\ outcome[r] = "none"
    /\ ~ failed[r]
    /\ ~ AtEnd(r)
    /\ ScriptOf(r)[at[r]] = op

Top(r) == frame[r][depth[r]]

(* The connection of the transaction that the call at depth d opened *)
ConnOf(r, d) == IF frame[r][d].on = Root THEN <<r, d>> ELSE frame[r][d].on

(* Statements on h succeed: it is the pool, or a transaction that goes on *)
Usable(h) == h # Root => conn[h] = "open"

Note(r) == mixed' = (mixed \/ \E s \in Requests \ {r} : depth[s] > 0)

Step(r) == at' = [at EXCEPT ![r] = @ + 1]

Raise(r) == failed' = [failed EXCEPT ![r] = TRUE]

Push(r, mark) ==
    /\ depth' = [depth EXCEPT ![r] = @ + 1]
    /\ frame' = [frame EXCEPT ![r][depth[r] + 1] =
                    [on |-> handle, original |-> Root, sp |-> <<r, at[r]>>, mark |-> mark,
                     stage |-> "begun"]]

(* d.db.Transaction on the pool: BEGIN on a connection of its own *)
OpenRoot(r) ==
    /\ Doing(r, "open")
    /\ handle = Root
    /\ conn' = [conn EXCEPT ![<<r, depth[r] + 1>>] = "open"]
    /\ Push(r, {})
    /\ Step(r) /\ Note(r)
    /\ UNCHANGED <<handle, pending, committed, failed, outcome>>

(* d.db.Transaction on a transaction: SAVEPOINT on its connection *)
OpenNested(r) ==
    /\ Doing(r, "open")
    /\ handle # Root
    /\ conn[handle] = "open"
    /\ pending' = [pending EXCEPT ![handle] = @ \cup {<<r, at[r]>>}]
    /\ Push(r, pending[handle])
    /\ Step(r) /\ Note(r)
    /\ UNCHANGED <<handle, conn, committed, failed, outcome>>

(* The handle is a transaction that has failed or ended: SAVEPOINT fails, and
   the function is not called *)
OpenDead(r) ==
    /\ Doing(r, "open")
    /\ ~ Usable(handle)
    /\ Raise(r) /\ Note(r)
    /\ UNCHANGED <<handle, conn, pending, committed, depth, frame, at, outcome>>

(* original := d.db; d.db = tx *)
Swap(r) ==
    /\ Doing(r, "swap")
    /\ frame' = [frame EXCEPT ![r][depth[r]].original = handle,
                              ![r][depth[r]].stage = "swapped"]
    /\ handle' = ConnOf(r, depth[r])
    /\ Step(r) /\ Note(r)
    /\ UNCHANGED <<conn, pending, committed, depth, failed, outcome>>

(* A read goes to the handle of the moment *)
Read(r) ==
    /\ Doing(r, "read")
    /\ Usable(handle)
    /\ Step(r) /\ Note(r)
    /\ UNCHANGED <<handle, conn, pending, committed, depth, frame, failed, outcome>>

(* A write commits on its own through the pool, or joins the transaction *)
Write(r) ==
    /\ Doing(r, "write")
    /\ Usable(handle)
    /\ IF handle = Root
         THEN committed' = committed \cup {<<r, at[r]>>} /\ UNCHANGED pending
         ELSE /\ pending' = [pending EXCEPT ![handle] = @ \cup {<<r, at[r]>>}]
              /\ UNCHANGED committed
    /\ Step(r) /\ Note(r)
    /\ UNCHANGED <<handle, conn, depth, frame, failed, outcome>>

(* [variant] the caller carries on after a statement that failed *)
StatementErrorDropped(r) ==
    /\ Doing(r, "read") \/ Doing(r, "write")
    /\ Step(r) /\ Note(r)
    /\ UNCHANGED <<handle, conn, pending, committed, depth, frame, failed, outcome>>

(* [variant] a statement that fails puts the pool back *)
StatementFailsReconnects(r) ==
    /\ Doing(r, "read") \/ Doing(r, "write")
    /\ handle' = Root
    /\ Raise(r) /\ Note(r)
    /\ UNCHANGED <<conn, pending, committed, depth, frame, at, outcome>>

(* The statement fails in the database (the transaction can only be rolled
   back), or it matches no row and the caller gives up *)
StatementFails(r) ==
    /\ Doing(r, "read") \/ Doing(r, "write")
    /\ conn' \in {conn} \cup
         (IF handle # Root /\ conn[handle] = "open"
            THEN {[conn EXCEPT ![handle] = "aborted"]} ELSE {})
    /\ Raise(r) /\ Note(r)
    /\ UNCHANGED <<handle, pending, committed, depth, frame, at, outcome>>

(* [variant] the handle is put back only when the function succeeds *)
RestoreOnSuccess(r) ==
    /\ depth[r] > 0
    /\ \/ Doing(r, "restore") /\ Step(r) /\ handle' = Top(r).original
       \/ /\ failed[r]
          /\ Top(r).stage = "swapped"
          /\ UNCHANGED <<at, handle>>
    /\ frame' = [frame EXCEPT ![r][depth[r]].stage = "restored"]
    /\ Note(r)
    /\ UNCHANGED <<conn, pending, committed, depth, failed, outcome>>

(* defer func() { d.db = original }(): also when the function failed *)
Restore(r) ==
    /\ depth[r] > 0
    /\ \/ Doing(r, "restore") /\ Step(r)
       \/ failed[r] /\ Top(r).stage = "swapped" /\ UNCHANGED at
    /\ handle' = Top(r).original
    /\ frame' = [frame EXCEPT ![r][depth[r]].stage = "restored"]
    /\ Note(r)
    /\ UNCHANGED <<conn, pending, committed, depth, failed, outcome>>

Pop(r) ==
    /\ depth' = [depth EXCEPT ![r] = @ - 1]
    /\ frame' = [frame EXCEPT ![r][depth[r]] = NoFrame(r)]

(* COMMIT by the call that began the connection's transaction.  If a
   statement of it failed, the database rolls back and reports that. *)
Commit(r) ==
    /\ Doing(r, "finish")
    /\ Top(r).on = Root
    /\ LET c == <<r, depth[r]>> IN
         /\ conn' = [conn EXCEPT ![c] = "done"]
         /\ IF conn[c] = "open"
              THEN committed' = committed \cup pending[c] /\ Step(r) /\ UNCHANGED failed
              ELSE UNCHANGED <<committed, at>> /\ Raise(r)
         /\ pending' = [pending EXCEPT ![c] = {}]
    /\ Pop(r) /\ Note(r)
    /\ UNCHANGED <<handle, outcome>>

(* A nested call that succeeded leaves its savepoint to the outer one *)
LeaveNested(r) ==
    /\ Doing(r, "finish")
    /\ Top(r).on # Root
    /\ Step(r) /\ Pop(r) /\ Note(r)
    /\ UNCHANGED <<handle, conn, pending, committed, failed, outcome>>

(* [variant] a transaction is not rolled back when its function fails *)
RollbackForgotten(r) ==
    /\ failed[r] /\ depth[r] > 0 /\ Top(r).stage = "restored"
    /\ Top(r).on = Root
    /\ Pop(r) /\ Note(r)
    /\ UNCHANGED <<handle, conn, pending, committed, at, failed, outcome>>

(* [variant] what a rolled back transaction wrote is kept for a retry *)
RollbackKeepsPending(r) ==
    /\ failed[r] /\ depth[r] > 0 /\ Top(r).stage = "restored"
    /\ Top(r).on = Root
    /\ conn' = [conn EXCEPT ![<<r, depth[r]>>] = "done"]
    /\ Pop(r) /\ Note(r)
    /\ UNCHANGED <<handle, pending, committed, at, failed, outcome>>

(* ROLLBACK of the connection's transaction *)
Rollback(r) ==
    /\ failed[r] /\ depth[r] > 0 /\ Top(r).stage = "restored"
    /\ Top(r).on = Root
    /\ conn' = [conn EXCEPT ![<<r, depth[r]>>] = "done"]
    /\ pending' = [pending EXCEPT ![<<r, depth[r]>>] = {}]
    /\ Pop(r) /\ Note(r)
    /\ UNCHANGED <<handle, committed, at, failed, outcome>>

(* ROLLBACK TO SAVEPOINT: what followed the savepoint is undone, later
   savepoints included; one that is gone makes the transaction fail *)
RollbackNested(r) ==
    /\ failed[r] /\ depth[r] > 0 /\ Top(r).stage = "restored"
    /\ Top(r).on # Root
    /\ LET c == Top(r).on IN
         \/ /\ conn[c] # "done"
            /\ Top(r).sp \in pending[c]
            /\ conn' = [conn EXCEPT ![c] = "open"]
            /\ pending' = [pending EXCEPT ![c] = Top(r).mark \cup {Top(r).sp}]
         \/ /\ conn[c] # "done"
            /\ Top(r).sp \notin pending[c]
            /\ conn' = [conn EXCEPT ![c] = "aborted"]
            /\ UNCHANGED pending
         \/ conn[c] = "done" /\ UNCHANGED <<conn, pending>>
    /\ Pop(r) /\ Note(r)
    /\ UNCHANGED <<handle, committed, at, failed, outcome>>

(* The handler answers *)
Reply(r) ==
    /\ outcome[r] = "none"
    /\ depth[r] = 0
    /\ failed[r] \/ AtEnd(r)
    /\ outcome' = [outcome EXCEPT ![r] = IF failed[r] THEN "error" ELSE "ok"]
    /\ UNCHANGED <<handle, conn, pending, committed, depth, frame, at, failed, mixed>>

Started(r) == at[r] > 1 \/ failed[r]

(* The process dies and comes up again: open transactions are rolled back,
   requests in flight get no answer *)
Restart ==
    /\ handle' = Root
    /\ conn' = [c \in Conns |-> IF conn[c] = "none" THEN "none" ELSE "done"]
    /\ pending' = [c \in Conns |-> {}]
    /\ depth' = [r \in Requests |-> 0]
    /\ frame' = [r \in Requests |-> [d \in Depths |-> NoFrame(r)]]
    /\ outcome' = [r \in Requests |->
                     IF Started(r) /\ outcome[r] = "none" THEN "lost" ELSE outcome[r]]
    /\ UNCHANGED <<committed, at, failed, mixed>>

Run(r) ==
    \/ OpenRoot(r) \/ OpenNested(r) \/ OpenDead(r) \/ Swap(r)
    \/ Read(r) \/ Write(r) \/ StatementFails(r)
    \/ Restore(r) \/ Commit(r) \/ LeaveNested(r) \/ Rollback(r) \/ RollbackNested(r)
    \/ Reply(r)

Next == (\E r \in Requests : Run(r)) \/ Restart

Spec == Init /\ [][Next]_vars

(* Statements return (they have a timeout) and handlers go on with what comes
   back; nothing makes a process restart.  Every request is finite, so that the
   handlers as a whole go on says as much as that each of them does. *)
FairSpec == Spec /\ WF_vars(\E r \in Requests : Run(r))

-----------------------------------------------------------------------------

(* Every part of the state has its type, and only a transaction under way has
   statements that wait for its end *)
DbTypeOK ==
    /\ handle \in Handles
    /\ conn \in [Conns -> {"none", "open", "aborted", "done"}]
    /\ pending \in [Conns -> SUBSET Statements]
    /\ \A c \in Conns : pending[c] # {} => conn[c] \in {"open", "aborted"}
    /\ committed \in SUBSET Statements
    /\ depth \in [Requests -> {0} \cup Depths]
    /\ frame \in [Requests -> [Depths -> Frames]]
    /\ at \in [Requests -> Positions]
    /\ failed \in [Requests -> BOOLEAN]
    /\ outcome \in [Requests -> {"none", "ok", "error", "lost"}]
    /\ mixed \in BOOLEAN

(* As long as no request ran inside another's transaction, the handle is the
   pool when no transaction is under way, and the transaction of the innermost
   call of WithTransaction when one is: nesting, failures and restarts put it
   back (pkg/dbs/dbs.go:77-84) *)
HandleFollowsCalls ==
    ~ mixed =>
      /\ (\A r \in Requests : depth[r] = 0) => handle = Root
      /\ \A r \in Requests :
           depth[r] > 0 => handle = IF Top(r).stage = "swapped" THEN <<r, 1>>
                                    ELSE IF depth[r] = 1 THEN Root ELSE <<r, 1>>

WritesOf(r) == {<<r, i>> : i \in {j \in DOMAIN ScriptOf(r) : ScriptOf(r)[j] = "write"}}

(* A request that was answered with success keeps all its writes, one that was
   answered with an error none, one that was cut off all or none *)
AtomicRequest(r) ==
    /\ outcome[r] = "ok" => WritesOf(r) \subseteq committed
    /\ outcome[r] = "error" => WritesOf(r) \cap committed = {}
    /\ outcome[r] = "lost" => WritesOf(r) \cap committed \in {{}, WritesOf(r)}

(* Requests are atomic as long as none ran inside another's transaction,
   whatever fails and whenever the process dies *)
LoneRequestsAreAtomic == ~ mixed => \A r \in Requests : AtomicRequest(r)

(* A request that was answered with an error left nothing behind: what "Reserve
   stock + create order + persist reservations + bump coupon usage atomically"
   (order.go:125) says of a placement that fails.  Does not hold when requests
   overlap (pkg/dbs/dbs.go:79). *)
ErrorLeavesNothing ==
    \A r \in Requests : outcome[r] = "error" => WritesOf(r) \cap committed = {}

(* Once no request is under way and the handle is a transaction (which has
   ended by then), nothing is written any more until the process restarts *)
StuckUntilRestart ==
    [][ (\A r \in Requests : depth[r] = 0) /\ handle # Root
        => committed' = committed /\ (handle' = handle \/ Restart) ]_vars

(* Every transaction that is begun ends and gives its connection back to the
   pool of 200, whatever became of the handle meanwhile: in the end none is left *)
TransactionsEnd == <>[](\A c \in Conns : conn[c] \in {"none", "done"})

=============================================================================
