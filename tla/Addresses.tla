------------------------------ MODULE Addresses ------------------------------
(***************************************************************************)
(* The address book (internal/user/repository/address.go and its service): *)
(* shoppers add, edit and delete addresses and make one the default.       *)
(*                                                                         *)
(* Of a row, only its owner and its default mark are kept.  The statements *)
(* of SetDefault are steps of their own: the UPDATE of the shopper's rows  *)
(* sees the rows there are when it starts, then takes their locks, which   *)
(* it does in one step, and the transaction holds them until its end,      *)
(* when both statements take effect.  The transaction is taken to have a   *)
(* handle of its own (DbHandle says when it has).                          *)
(***************************************************************************)
EXTENDS Requests

CONSTANTS Shoppers, Places \* ids of addresses, new ones being uuids

AddressRows == [owner : Shoppers, mark : BOOLEAN]

ASSUME AddressesAssumption == None \notin Shoppers \cup Places \cup AddressRows

VARIABLES
  address, \* table addresses, by id: owner and is_default
  errand,  \* what each handler is doing
  chosen,  \* by shopper: the address whose SetDefault succeeded last
  clobber, \* shoppers for whom a save wrote over what happened since its read
  unseen   \* shoppers who got an address while the UPDATE of a SetDefault ran

addrVars == <<address, errand, chosen, clobber, unseen, left>>

NoErrand == [at |-> "idle", a |-> None, s |-> None, mark |-> FALSE, rows |-> {}]

AddrInit ==
    /\ address = [a \in Places |-> None]
    /\ errand = [h \in Handlers |-> NoErrand]
    /\ chosen = [s \in Shoppers |-> None]
    /\ clobber = {}
    /\ unseen = {}
    /\ left = MaxRequests

-----------------------------------------------------------------------------

Runs(h, step) == errand[h].at = step

Book(s) == {a \in Places : address[a] # None /\ address[a].owner = s}

(* No transaction of another request holds the lock of row a *)
Unlocked(h, a) == \A g \in Handlers \ {h} : Runs(g, "mark") => a \notin errand[g].rows

AddrCreate(h, s, a) ==
    /\ Runs(h, "idle")
    /\ NextRequest
    /\ address[a] = None
    /\ \A g \in Handlers : a \notin errand[g].rows \cup {errand[g].a}
    /\ chosen[s] # a
    /\ address' = [address EXCEPT ![a] = [owner |-> s, mark |-> FALSE]]
    /\ unseen' = IF \E g \in Handlers : Runs(g, "clear") /\ errand[g].s = s
                 THEN unseen \cup {s} ELSE unseen
    /\ UNCHANGED <<errand, chosen, clobber>>

(* GetByID, which Update, Delete and SetDefault begin with *)
AddrRead(h, s, a, step) ==
    /\ Runs(h, "idle")
    /\ NextRequest
    /\ a \in Book(s)
    /\ errand' = [errand EXCEPT ![h] = [NoErrand EXCEPT !.at = step, !.a = a, !.s = s,
                                                       !.mark = address[a].mark]]
    /\ UNCHANGED <<address, chosen, clobber, unseen>>

AddrDone(h) == errand' = [errand EXCEPT ![h] = NoErrand]

(* A save writes the whole row that was read, and inserts it again if it has
   been deleted since *)
Overwrites(c) == address[c.a] = None \/ address[c.a].mark # c.mark

AddrSave(h) ==
    LET c == errand[h] IN
    /\ Runs(h, "edit") /\ Unlocked(h, c.a)
    /\ address' = [address EXCEPT ![c.a] = [owner |-> c.s, mark |-> c.mark]]
    /\ clobber' = IF Overwrites(c) THEN clobber \cup {c.s} ELSE clobber
    /\ AddrDone(h)
    /\ UNCHANGED <<chosen, unseen, left>>

AddrErase(h) ==
    LET c == errand[h] IN
    /\ Runs(h, "erase") /\ Unlocked(h, c.a)
    /\ address' = [address EXCEPT ![c.a] = None]
    /\ AddrDone(h)
    /\ UNCHANGED <<chosen, clobber, unseen, left>>

(* [variant] the UPDATE has no WHERE user_id *)
DefaultStartEverybody(h) ==
    /\ Runs(h, "default")
    /\ errand' = [errand EXCEPT ![h].at = "clear",
                                ![h].rows = {a \in Places : address[a] # None}]
    /\ UNCHANGED <<address, chosen, clobber, unseen, left>>

(* UPDATE ... SET is_default = false WHERE user_id = s starts, ... *)
DefaultStart(h) ==
    /\ Runs(h, "default")
    /\ errand' = [errand EXCEPT ![h].at = "clear", ![h].rows = Book(errand[h].s)]
    /\ UNCHANGED <<address, chosen, clobber, unseen, left>>

(* ... waits for the locks of the rows it saw, skipping deleted ones, ... *)
DefaultClear(h) ==
    LET c == errand[h] IN
    /\ Runs(h, "clear")
    /\ \A a \in c.rows : Unlocked(h, a)
    /\ errand' = [errand EXCEPT ![h].at = "mark",
                                ![h].rows = {a \in c.rows : address[a] # None}]
    /\ UNCHANGED <<address, chosen, clobber, unseen, left>>

(* ... and the row that was read is saved with the mark; commit *)
DefaultMark(h) ==
    LET c == errand[h] IN
    /\ Runs(h, "mark") /\ Unlocked(h, c.a)
    /\ address' = [a \in Places |->
                     CASE a = c.a    -> [owner |-> c.s, mark |-> TRUE]
                       [] a \in c.rows \ {c.a} -> [address[a] EXCEPT !.mark = FALSE]
                       [] OTHER      -> address[a]]
    /\ clobber' = IF c.a \in c.rows THEN clobber ELSE clobber \cup {c.s}
    /\ chosen' = [chosen EXCEPT ![c.s] = c.a]
    /\ AddrDone(h)
    /\ UNCHANGED <<unseen, left>>

(* A statement fails or the process restarts: the transaction is rolled back *)
AddrFail(h) ==
    /\ ~ Runs(h, "idle")
    /\ AddrDone(h)
    /\ UNCHANGED <<address, chosen, clobber, unseen, left>>

AddrNext ==
    \E h \in Handlers :
      \/ \E s \in Shoppers, a \in Places :
           \/ AddrCreate(h, s, a)
           \/ \E step \in {"edit", "erase", "default"} : AddrRead(h, s, a, step)
      \/ AddrSave(h) \/ AddrErase(h)
      \/ DefaultStart(h) \/ DefaultClear(h) \/ DefaultMark(h)
      \/ AddrFail(h)

AddrSpec == AddrInit /\ [][AddrNext]_addrVars

-----------------------------------------------------------------------------

Defaults(s) == {a \in Book(s) : address[a].mark}

(* However requests overlap, a shopper's default address is the one that was
   last made the default, and there is no second one, unless a save wrote back
   a mark or a row that was changed or deleted since the save's row was read,
   or an address was added while an UPDATE waited for locks
   (internal/user/repository/address.go:61-76) *)
DefaultIsLastSet ==
    \A s \in Shoppers \ (clobber \cup unseen) :
        Defaults(s) = {chosen[s]} \cap Book(s)

=============================================================================
