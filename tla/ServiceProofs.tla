---------------------------- MODULE ServiceProofs ---------------------------
(*****************************************************************************)
(* Theorems about the smaller services: the default address, the notices,    *)
(* the bill of the checkout, and the pages of a list.                        *)
(*****************************************************************************)
EXTENDS Addresses, Notices, Checkout, Paging, SumProofs

-----------------------------------------------------------------------------
(* The default address (internal/user/service) *)

Steps == {"idle", "edit", "erase", "default", "clear", "mark"}

Errands == [at : Steps, a : Maybe(Places), s : Maybe(Shoppers), mark : BOOLEAN,
            rows : SUBSET Places]

AddrTypeOK ==
    /\ address \in [Places -> Maybe(AddressRows)]
    /\ errand \in [Handlers -> Errands]
    /\ chosen \in [Shoppers -> Maybe(Places)]
    /\ clobber \subseteq Shoppers
    /\ unseen \subseteq Shoppers

(* The row of a, if there is one, is the shopper's.                         *)
OwnedBy(a, s) == address[a] = None \/ address[a].owner = s

(* A handler works for one shopper, on that shopper's rows.                 *)
ErrandKnown(h) ==
    /\ ~ Runs(h, "idle") =>
         errand[h].a \in Places /\ errand[h].s \in Shoppers /\ OwnedBy(errand[h].a, errand[h].s)
    /\ Runs(h, "idle") => errand[h].a = None
    /\ \A a \in errand[h].rows : OwnedBy(a, errand[h].s)
    /\ Runs(h, "mark") => \A a \in errand[h].rows : address[a] # None

(* The rows that a handler's statements are about *)
RowsOf(h) == ({errand[h].a} \ {None}) \cup errand[h].rows

(* Handlers that know the same row know the same shopper.                   *)
Agree(g, h) == RowsOf(g) \cap RowsOf(h) # {} => errand[g].s = errand[h].s

(* A row has one lock.                                                      *)
Apart(g, h) ==
    g # h /\ Runs(g, "mark") /\ Runs(h, "mark") => errand[g].rows \cap errand[h].rows = {}

Known ==
    /\ \A h \in Handlers : ErrandKnown(h)
    /\ \A g, h \in Handlers : Agree(g, h) /\ Apart(g, h)

(* The UPDATE of a SetDefault reaches all rows of the shopper, and those that
   are marked stay under its lock until the mark is moved.                   *)
Reached(h, s) ==
    errand[h].s = s =>
      /\ Runs(h, "clear") => Book(s) \subseteq errand[h].rows
      /\ Runs(h, "mark") /\ errand[h].rows # {} => Defaults(s) \subseteq errand[h].rows

OneMarks(g, h, s) ==
    g # h /\ Runs(g, "mark") /\ Runs(h, "mark") /\ errand[g].s = s /\ errand[h].s = s =>
        errand[g].rows = {} \/ errand[h].rows = {}

BookKept(s) ==
    /\ Defaults(s) = {chosen[s]} \cap Book(s)
    /\ \A h \in Handlers : Reached(h, s)
    /\ \A g, h \in Handlers : OneMarks(g, h, s)

Clean == Shoppers \ (clobber \cup unseen)

AddrInv == AddrTypeOK /\ Known /\ \A s \in Clean : BookKept(s)

(* An empty address book is in order. *)
LEMMA AddrInitInv == AddressesAssumption /\ AddrInit => AddrInv
<1> SUFFICES ASSUME AddressesAssumption, AddrInit PROVE AddrInv
  OBVIOUS
<1>1. AddrTypeOK
  <2>1. NoErrand \in Errands
    BY DEF NoErrand, Errands, Steps, Maybe
  <2> QED BY <2>1 DEF AddrInit, AddrTypeOK, Maybe
<1>2. ASSUME NEW h \in Handlers PROVE errand[h] = NoErrand
  BY DEF AddrInit
<1>3. Known
  BY <1>2 DEF Known, ErrandKnown, Agree, RowsOf, Apart, Runs, NoErrand
<1>4. ASSUME NEW s \in Shoppers PROVE BookKept(s)
  <2>1. Book(s) = {} /\ Defaults(s) = {}
    BY DEF AddrInit, Book, Defaults
  <2> QED BY <1>2, <2>1 DEF BookKept, Reached, OneMarks, Runs, NoErrand
<1> QED BY <1>1, <1>3, <1>4 DEF AddrInv, Clean

(* A handler that is done, or has failed, no longer counts.                 *)
LEMMA DoneOK ==
    ASSUME AddressesAssumption, AddrInv, NEW h \in Handlers,
           address' = address, chosen' = chosen, AddrDone(h),
           clobber \subseteq clobber', clobber' \subseteq Shoppers, unseen' = unseen
    PROVE  AddrInv'
<1>1. NoErrand \in Errands
  BY DEF NoErrand, Errands, Steps, Maybe
<1>2. /\ errand' \in [Handlers -> Errands]
      /\ errand'[h] = NoErrand
      /\ \A g \in Handlers \ {h} : errand'[g] = errand[g]
  BY <1>1 DEF AddrDone, AddrInv, AddrTypeOK
<1>3. AddrTypeOK'
  BY <1>2 DEF AddrInv, AddrTypeOK
<1>4. ASSUME NEW g \in Handlers PROVE ErrandKnown(g)'
  <2>1. CASE g = h
    BY <1>2, <2>1 DEF ErrandKnown, Runs, NoErrand
  <2>2. CASE g # h
    BY <1>2, <2>2 DEF AddrInv, Known, ErrandKnown, Runs, OwnedBy
  <2> QED BY <2>1, <2>2
<1>5. ASSUME NEW f \in Handlers, NEW g \in Handlers PROVE Agree(f, g)' /\ Apart(f, g)'
  <2>1. CASE f # h /\ g # h
    BY <1>2, <2>1 DEF AddrInv, Known, Agree, RowsOf, Apart, Runs
  <2>2. CASE f = h \/ g = h
    BY <1>2, <2>2 DEF Agree, RowsOf, Apart, Runs, NoErrand
  <2> QED BY <2>1, <2>2
<1>6. ASSUME NEW s \in Clean' PROVE BookKept(s)'
  <2>1. BookKept(s)
    BY DEF AddrInv, Clean
  <2>2. Book(s)' = Book(s) /\ Defaults(s)' = Defaults(s)
    BY DEF Book, Defaults
  <2>3. ASSUME NEW g \in Handlers PROVE Reached(g, s)'
    <3>1. CASE g = h
      BY <1>2, <3>1 DEF Reached, Runs, NoErrand
    <3>2. CASE g # h
      BY <1>2, <2>1, <2>2, <3>2 DEF BookKept, Reached, Runs
    <3> QED BY <3>1, <3>2
  <2>4. ASSUME NEW f \in Handlers, NEW g \in Handlers PROVE OneMarks(f, g, s)'
    <3>1. CASE f = h \/ g = h
      BY <1>2, <3>1 DEF OneMarks, Runs, NoErrand
    <3>2. CASE f # h /\ g # h
      BY <1>2, <2>1, <3>2 DEF BookKept, OneMarks, Runs
    <3> QED BY <3>1, <3>2
  <2> QED BY <2>1, <2>2, <2>3, <2>4 DEF BookKept
<1> QED BY <1>3, <1>4, <1>5, <1>6 DEF AddrInv, Known

(* A new address is nobody's default and no handler knows it. *)
LEMMA CreateOK ==
    ASSUME AddressesAssumption, AddrInv,
           NEW h \in Handlers, NEW s \in Shoppers, NEW a \in Places, AddrCreate(h, s, a)
    PROVE  AddrInv'
<1>1. /\ address' \in [Places -> Maybe(AddressRows)]
      /\ address[a] = None /\ address'[a] # None
      /\ address'[a].owner = s /\ address'[a].mark = FALSE
      /\ \A b \in Places \ {a} : address'[b] = address[b]
  <2>1. [owner |-> s, mark |-> FALSE] \in AddressRows
    BY DEF AddressRows
  <2> QED BY <2>1 DEF AddrCreate, AddrInv, AddrTypeOK, AddressesAssumption, Maybe
<1>2. /\ errand' = errand /\ chosen' = chosen /\ clobber' = clobber
      /\ \A g \in Handlers : a # errand[g].a /\ a \notin errand[g].rows
  BY DEF AddrCreate
<1>3. unseen \subseteq unseen' /\ unseen' \subseteq unseen \cup {s}
  BY DEF AddrCreate
<1>4. ASSUME NEW g \in Handlers, Runs(g, "clear"), errand[g].s = s PROVE s \in unseen'
  BY <1>4 DEF AddrCreate
<1>5. AddrTypeOK'
  BY <1>1, <1>2, <1>3 DEF AddrInv, AddrTypeOK
<1>6. ASSUME NEW g \in Handlers PROVE ErrandKnown(g)'
  <2>1. ErrandKnown(g) /\ errand[g].rows \subseteq Places
    BY DEF AddrInv, Known, AddrTypeOK, Errands
  <2>2. ASSUME NEW b \in Places, NEW t, b # a PROVE OwnedBy(b, t)' = OwnedBy(b, t)
    BY <1>1, <2>2 DEF OwnedBy
  <2> QED BY <1>1, <1>2, <2>1, <2>2 DEF ErrandKnown, Runs
<1>7. ASSUME NEW f \in Handlers, NEW g \in Handlers PROVE Agree(f, g)' /\ Apart(f, g)'
  BY <1>2 DEF AddrInv, Known, Agree, RowsOf, Apart, Runs
<1>8. ASSUME NEW t \in Clean' PROVE BookKept(t)'
  <2>1. BookKept(t)
    BY <1>2, <1>3 DEF AddrInv, Clean
  <2>2. /\ Book(t)' = IF t = s THEN Book(t) \cup {a} ELSE Book(t)
        /\ Defaults(t)' = Defaults(t)
        /\ a \notin Book(t)
    BY <1>1 DEF Book, Defaults
  <2>3. t = s => chosen[t] # a
    BY DEF AddrCreate
  <2>4. ASSUME NEW g \in Handlers PROVE Reached(g, t)'
    <3>1. t = s /\ errand[g].s = t => ~ Runs(g, "clear")
      BY <1>4 DEF Clean
    <3> QED BY <1>2, <2>1, <2>2, <3>1 DEF BookKept, Reached, Runs
  <2>5. ASSUME NEW f \in Handlers, NEW g \in Handlers PROVE OneMarks(f, g, t)'
    BY <1>2, <2>1 DEF BookKept, OneMarks, Runs
  <2>6. Defaults(t)' = {chosen'[t]} \cap Book(t)'
    BY <1>2, <2>1, <2>2, <2>3 DEF BookKept
  <2> QED BY <2>4, <2>5, <2>6 DEF BookKept
<1> QED BY <1>5, <1>6, <1>7, <1>8 DEF AddrInv, Known

(* A request that reads a row works for the row's owner from then on. *)
LEMMA ReadOK ==
    ASSUME AddressesAssumption, AddrInv, NEW h \in Handlers, NEW s \in Shoppers,
           NEW a \in Places, NEW step \in {"edit", "erase", "default"}, AddrRead(h, s, a, step)
    PROVE  AddrInv'
<1> DEFINE e == [NoErrand EXCEPT !.at = step, !.a = a, !.s = s, !.mark = address[a].mark]
<1>1. a \in Book(s) /\ address[a] \in AddressRows
  BY DEF AddrRead, Book, AddrInv, AddrTypeOK, Maybe
<1>2. e.at = step /\ e.a = a /\ e.s = s /\ e.rows = {} /\ e \in Errands
  BY <1>1 DEF NoErrand, Errands, Steps, Maybe, AddressRows
<1>3. /\ errand' \in [Handlers -> Errands]
      /\ errand'[h] = e
      /\ \A g \in Handlers \ {h} : errand'[g] = errand[g]
  BY <1>2 DEF AddrRead, AddrInv, AddrTypeOK
<1> HIDE DEF e
<1>4. address' = address /\ chosen' = chosen /\ clobber' = clobber /\ unseen' = unseen
  BY DEF AddrRead
<1>5. AddrTypeOK'
  BY <1>3, <1>4 DEF AddrInv, AddrTypeOK
<1>6. ASSUME NEW g \in Handlers PROVE ErrandKnown(g)'
  <2>1. CASE g = h
    BY <1>1, <1>2, <1>3, <1>4, <2>1 DEF ErrandKnown, Runs, OwnedBy, Book
  <2>2. CASE g # h
    BY <1>3, <1>4, <2>2 DEF AddrInv, Known, ErrandKnown, Runs, OwnedBy
  <2> QED BY <2>1, <2>2
<1>7. ASSUME NEW f \in Handlers, NEW g \in Handlers PROVE Agree(f, g)' /\ Apart(f, g)'
  <2>0. address[a] # None /\ address[a].owner = s /\ a # None
    BY <1>1 DEF Book, AddressesAssumption
  <2>1. CASE f # h /\ g # h
    BY <1>3, <2>1 DEF AddrInv, Known, Agree, RowsOf, Apart, Runs
  <2>2. CASE f = h /\ g # h
    <3>1. ErrandKnown(g)
      BY DEF AddrInv, Known
    <3>2. a \in RowsOf(g) => errand[g].s = s
      BY <2>0, <3>1 DEF ErrandKnown, OwnedBy, RowsOf
    <3> QED BY <1>2, <1>3, <2>2, <3>2 DEF Agree, RowsOf, Apart, Runs
  <2>3. CASE f # h /\ g = h
    <3>1. ErrandKnown(f)
      BY DEF AddrInv, Known
    <3>2. a \in RowsOf(f) => errand[f].s = s
      BY <2>0, <3>1 DEF ErrandKnown, OwnedBy, RowsOf
    <3> QED BY <1>2, <1>3, <2>3, <3>2 DEF Agree, RowsOf, Apart, Runs
  <2>4. CASE f = h /\ g = h
    BY <2>4 DEF Agree, RowsOf, Apart
  <2> QED BY <2>1, <2>2, <2>3, <2>4
<1>8. ASSUME NEW t \in Clean' PROVE BookKept(t)'
  <2>1. BookKept(t)
    BY <1>4 DEF AddrInv, Clean
  <2>2. Book(t)' = Book(t) /\ Defaults(t)' = Defaults(t)
    BY <1>4 DEF Book, Defaults
  <2>3. ASSUME NEW g \in Handlers PROVE Reached(g, t)'
    <3>1. CASE g = h
      BY <1>2, <1>3, <3>1 DEF Reached, Runs
    <3>2. CASE g # h
      BY <1>3, <2>1, <2>2, <3>2 DEF BookKept, Reached, Runs
    <3> QED BY <3>1, <3>2
  <2>4. ASSUME NEW f \in Handlers, NEW g \in Handlers PROVE OneMarks(f, g, t)'
    <3>1. CASE f = h \/ g = h
      BY <1>2, <1>3, <3>1 DEF OneMarks, Runs
    <3>2. CASE f # h /\ g # h
      BY <1>3, <2>1, <3>2 DEF BookKept, OneMarks, Runs
    <3> QED BY <3>1, <3>2
  <2> QED BY <1>4, <2>1, <2>2, <2>3, <2>4 DEF BookKept
<1> QED BY <1>5, <1>6, <1>7, <1>8 DEF AddrInv, Known

(* A handler that ends with a write of its shopper's rows, whose locks no other
   handler has, disturbs nobody else's book.                                 *)
LEMMA WriteOK ==
    ASSUME AddressesAssumption, AddrInv, NEW h \in Handlers, ~ Runs(h, "idle"), AddrDone(h),
           NEW s \in Shoppers, errand[h].s = s,
           address' \in [Places -> Maybe(AddressRows)],
           \A a \in Places :
             \/ address'[a] = address[a]
             \/ /\ a \in RowsOf(h)
                /\ \A g \in Handlers \ {h} : Runs(g, "mark") => a \notin errand[g].rows
                /\ address'[a] # None => address'[a].owner = s,
           chosen' \in [Shoppers -> Maybe(Places)],
           \A t \in Shoppers \ {s} : chosen'[t] = chosen[t],
           clobber \subseteq clobber', clobber' \subseteq Shoppers, unseen' = unseen,
           s \in Clean' => BookKept(s)'
    PROVE  AddrInv'
<1>1. NoErrand \in Errands
  BY DEF NoErrand, Errands, Steps, Maybe
<1>2. /\ errand' \in [Handlers -> Errands]
      /\ errand'[h] = NoErrand
      /\ \A g \in Handlers \ {h} : errand'[g] = errand[g]
  BY <1>1 DEF AddrDone, AddrInv, AddrTypeOK
<1>3. AddrTypeOK'
  BY <1>2 DEF AddrInv, AddrTypeOK
<1>4. \A a \in RowsOf(h) : OwnedBy(a, s)
  BY DEF AddrInv, Known, ErrandKnown, RowsOf
<1>5. ASSUME NEW g \in Handlers, g # h, NEW b \in RowsOf(g), b \in Places
      PROVE  OwnedBy(b, errand[g].s)'
  <2>1. ErrandKnown(g) /\ Agree(g, h)
    BY DEF AddrInv, Known
  <2>2. OwnedBy(b, errand[g].s)
    BY <2>1, <1>5 DEF ErrandKnown, RowsOf, AddressesAssumption
  <2>3. b \in RowsOf(h) => errand[g].s = errand[h].s
    BY <1>5, <2>1 DEF Agree
  <2> QED BY <1>2, <1>5, <2>2, <2>3 DEF OwnedBy
<1>6. ASSUME NEW g \in Handlers PROVE ErrandKnown(g)'
  <2>1. CASE g = h
    BY <1>2, <2>1 DEF ErrandKnown, Runs, NoErrand
  <2>2. CASE g # h
    <3>1. ErrandKnown(g) /\ errand[g].rows \subseteq Places /\ errand'[g] = errand[g]
      BY <1>2, <2>2 DEF AddrInv, Known, AddrTypeOK, Errands
    <3>2. ~ Runs(g, "idle") => errand[g].a \in RowsOf(g)
      BY <3>1 DEF ErrandKnown, RowsOf, AddressesAssumption
    <3>3. ~ Runs(g, "idle") => OwnedBy(errand[g].a, errand[g].s)'
      BY <1>5, <2>2, <3>1, <3>2 DEF ErrandKnown
    <3>4. \A a \in errand[g].rows : OwnedBy(a, errand[g].s)'
      BY <1>5, <2>2, <3>1 DEF RowsOf
    <3>5. Runs(g, "mark") => \A a \in errand[g].rows : address'[a] # None
      BY <2>2, <3>1 DEF ErrandKnown
    <3> QED BY <3>1, <3>3, <3>4, <3>5 DEF ErrandKnown, Runs
  <2> QED BY <2>1, <2>2
<1>7. ASSUME NEW f \in Handlers, NEW g \in Handlers PROVE Agree(f, g)' /\ Apart(f, g)'
  <2>1. CASE f # h /\ g # h
    BY <1>2, <2>1 DEF AddrInv, Known, Agree, RowsOf, Apart, Runs
  <2>2. CASE f = h \/ g = h
    BY <1>2, <2>2 DEF Agree, RowsOf, Apart, Runs, NoErrand
  <2> QED BY <2>1, <2>2
<1>8. ASSUME NEW t \in Clean', t # s PROVE BookKept(t)'
  <2>1. BookKept(t) /\ t \in Shoppers
    BY DEF AddrInv, Clean
  <2>2. ASSUME NEW a \in Places
        PROVE /\ (a \in Book(t))' <=> a \in Book(t)
              /\ a \in Book(t) => address'[a] = address[a]
    <3>1. CASE address'[a] = address[a]
      BY <3>1 DEF Book
    <3>2. CASE a \in RowsOf(h) /\ (address'[a] # None => address'[a].owner = s)
      BY <1>4, <1>8, <3>2 DEF OwnedBy, Book
    <3> QED BY <3>1, <3>2
  <2>3. Book(t)' = Book(t) /\ Defaults(t)' = Defaults(t)
    BY <2>2 DEF Book, Defaults
  <2>4. ASSUME NEW g \in Handlers PROVE Reached(g, t)'
    <3>1. CASE g = h
      BY <1>2, <3>1 DEF Reached, Runs, NoErrand
    <3>2. CASE g # h
      BY <1>2, <2>1, <2>3, <3>2 DEF BookKept, Reached, Runs
    <3> QED BY <3>1, <3>2
  <2>5. ASSUME NEW f \in Handlers, NEW g \in Handlers PROVE OneMarks(f, g, t)'
    <3>1. CASE f = h \/ g = h
      BY <1>2, <3>1 DEF OneMarks, Runs, NoErrand
    <3>2. CASE f # h /\ g # h
      BY <1>2, <2>1, <3>2 DEF BookKept, OneMarks, Runs
    <3> QED BY <3>1, <3>2
  <2> QED BY <1>8, <2>1, <2>3, <2>4, <2>5 DEF BookKept
<1> QED BY <1>3, <1>6, <1>7, <1>8 DEF AddrInv, Known

(* A save writes what is there, or clobbers the shopper's book. *)
LEMMA SaveOK ==
    ASSUME AddressesAssumption, AddrInv, NEW h \in Handlers, AddrSave(h) PROVE AddrInv'
<1> DEFINE c == errand[h]
<1>0. PICK s \in Shoppers : c.s = s
  BY DEF AddrSave, AddrInv, Known, ErrandKnown, Runs
<1>1. c.a \in Places /\ c.s \in Shoppers /\ c.mark \in BOOLEAN /\ OwnedBy(c.a, c.s)
  BY DEF AddrSave, AddrInv, Known, ErrandKnown, Runs, AddrTypeOK, Errands
<1>2. [owner |-> c.s, mark |-> c.mark] \in AddressRows
  BY <1>1 DEF AddressRows
<1>3. /\ ~ Runs(h, "idle") /\ AddrDone(h)
      /\ chosen' = chosen /\ unseen' = unseen
      /\ clobber' = IF Overwrites(c) THEN clobber \cup {c.s} ELSE clobber
      /\ address' = [address EXCEPT ![c.a] = [owner |-> c.s, mark |-> c.mark]]
      /\ Unlocked(h, c.a)
  BY DEF AddrSave, Runs
<1>4. clobber \subseteq clobber' /\ clobber' \subseteq Shoppers
  BY <1>1, <1>3 DEF AddrInv, AddrTypeOK
<1>5. CASE Overwrites(c)
  <2>1. address' \in [Places -> Maybe(AddressRows)]
    BY <1>1, <1>2, <1>3 DEF AddrInv, AddrTypeOK, Maybe
  <2>2. c.a \in RowsOf(h)
    BY <1>1 DEF RowsOf, AddressesAssumption
  <2>3. ASSUME NEW a \in Places, a # c.a PROVE address'[a] = address[a]
    BY <1>3, <2>3 DEF AddrInv, AddrTypeOK
  <2>4. address'[c.a].owner = c.s
    BY <1>1, <1>3 DEF AddrInv, AddrTypeOK
  <2>5. s \notin Clean'
    BY <1>0, <1>3, <1>5 DEF Clean
  <2> HIDE DEF c
  <2>6. chosen' \in [Shoppers -> Maybe(Places)]
    BY <1>3 DEF AddrInv, AddrTypeOK
  <2>7. \A a \in Places :
             \/ address'[a] = address[a]
             \/ /\ a \in RowsOf(h)
                /\ \A g \in Handlers \ {h} : Runs(g, "mark") => a \notin errand[g].rows
                /\ address'[a] # None => address'[a].owner = s
    BY <1>0, <1>3, <2>2, <2>3, <2>4 DEF Unlocked, c
  <2> QED BY <1>0, <1>3, <1>4, <2>1, <2>5, <2>6, <2>7, WriteOK DEF c
<1>6. CASE ~ Overwrites(c)
  <2>1. address[c.a] = [owner |-> c.s, mark |-> c.mark]
    <3>1. address[c.a] \in AddressRows
      BY <1>1, <1>6 DEF Overwrites, AddrInv, AddrTypeOK, Maybe
    <3>2. address[c.a].owner = c.s /\ address[c.a].mark = c.mark
      BY <1>1, <1>6 DEF Overwrites, OwnedBy
    <3> QED BY <3>1, <3>2 DEF AddressRows
  <2>2. address' = address
    BY <1>1, <1>3, <2>1 DEF AddrInv, AddrTypeOK
  <2> QED BY <1>3, <1>4, <2>2, DoneOK
<1> QED BY <1>5, <1>6

(* A deleted address leaves its shopper's book, default or not. *)
LEMMA EraseOK ==
    ASSUME AddressesAssumption, AddrInv, NEW h \in Handlers, AddrErase(h) PROVE AddrInv'
<1> DEFINE c == errand[h]
<1>0. PICK s \in Shoppers : c.s = s
  BY DEF AddrErase, AddrInv, Known, ErrandKnown, Runs
<1>1. c.a \in Places /\ c.s \in Shoppers /\ OwnedBy(c.a, c.s)
  BY DEF AddrErase, AddrInv, Known, ErrandKnown, Runs
<1>2. /\ ~ Runs(h, "idle") /\ AddrDone(h) /\ Runs(h, "erase")
      /\ chosen' = chosen /\ unseen' = unseen /\ clobber' = clobber
      /\ address' = [address EXCEPT ![c.a] = None]
      /\ Unlocked(h, c.a)
  BY DEF AddrErase, Runs
<1>3. /\ address' \in [Places -> Maybe(AddressRows)]
      /\ address'[c.a] = None
      /\ \A a \in Places \ {c.a} : address'[a] = address[a]
  BY <1>1, <1>2 DEF AddrInv, AddrTypeOK, Maybe
<1>4. c.a \in RowsOf(h)
  BY <1>1 DEF RowsOf, AddressesAssumption
<1>5. NoErrand.at = "idle" /\ errand'[h] = NoErrand
      /\ \A g \in Handlers \ {h} : errand'[g] = errand[g]
  BY <1>2 DEF AddrDone, NoErrand, AddrInv, AddrTypeOK
<1>6. ASSUME s \in Clean' PROVE BookKept(s)'
  <2>1. BookKept(s) /\ s \in Shoppers
    BY <1>2, <1>6 DEF AddrInv, Clean
  <2>2. Book(s)' = Book(s) \ {c.a} /\ Defaults(s)' = Defaults(s) \ {c.a}
    BY <1>0, <1>1, <1>3 DEF Book, Defaults
  <2>3. Defaults(s)' = {chosen'[s]} \cap Book(s)'
    BY <1>2, <2>1, <2>2 DEF BookKept
  <2>4. ASSUME NEW g \in Handlers PROVE Reached(g, s)'
    <3>1. CASE g = h
      BY <1>5, <3>1 DEF Reached, Runs
    <3>2. CASE g # h
      BY <1>5, <2>1, <2>2, <3>2 DEF BookKept, Reached, Runs
    <3> QED BY <3>1, <3>2
  <2>5. ASSUME NEW f \in Handlers, NEW g \in Handlers PROVE OneMarks(f, g, s)'
    <3>1. CASE f = h \/ g = h
      BY <1>5, <3>1 DEF OneMarks, Runs
    <3>2. CASE f # h /\ g # h
      BY <1>5, <2>1, <3>2 DEF BookKept, OneMarks, Runs
    <3> QED BY <3>1, <3>2
  <2> QED BY <2>3, <2>4, <2>5 DEF BookKept
<1>7. chosen' \in [Shoppers -> Maybe(Places)] /\ clobber' \subseteq Shoppers
  BY <1>2 DEF AddrInv, AddrTypeOK
<1>8. \A a \in Places :
           \/ address'[a] = address[a]
           \/ /\ a \in RowsOf(h)
              /\ \A g \in Handlers \ {h} : Runs(g, "mark") => a \notin errand[g].rows
              /\ address'[a] # None => address'[a].owner = s
  BY <1>2, <1>3, <1>4 DEF Unlocked
<1> HIDE DEF c
<1> QED BY <1>0, <1>2, <1>3, <1>6, <1>7, <1>8, WriteOK DEF c

(* The UPDATE of a SetDefault sees all rows of its shopper. *)
LEMMA StartOK ==
    ASSUME AddressesAssumption, AddrInv, NEW h \in Handlers, DefaultStart(h) PROVE AddrInv'
<1>0. PICK s \in Shoppers : errand[h].s = s
  BY DEF DefaultStart, AddrInv, Known, ErrandKnown, Runs
<1>1. /\ errand' \in [Handlers -> Errands]
      /\ errand'[h].at = "clear" /\ errand'[h].rows = Book(s)
      /\ errand'[h].a = errand[h].a /\ errand'[h].s = s
      /\ \A g \in Handlers \ {h} : errand'[g] = errand[g]
  <2>1. errand[h] \in Errands /\ Book(s) \subseteq Places
    BY DEF AddrInv, AddrTypeOK, Book
  <2> QED BY <1>0, <2>1 DEF DefaultStart, AddrInv, AddrTypeOK, Errands, Steps
<1>2. address' = address /\ chosen' = chosen /\ clobber' = clobber /\ unseen' = unseen
  BY DEF DefaultStart
<1>3. AddrTypeOK'
  BY <1>1, <1>2 DEF AddrInv, AddrTypeOK
<1>4. errand[h].at = "default" /\ errand[h].a \in Places
  BY DEF DefaultStart, Runs, AddrInv, Known, ErrandKnown
<1>5. ASSUME NEW g \in Handlers PROVE ErrandKnown(g)'
  <2>0. ErrandKnown(g)
    BY DEF AddrInv, Known
  <2>1. CASE g = h
    BY <1>0, <1>1, <1>2, <1>4, <2>0, <2>1 DEF ErrandKnown, Runs, OwnedBy, Book
  <2>2. CASE g # h
    BY <1>1, <1>2, <2>0, <2>2 DEF ErrandKnown, Runs, OwnedBy
  <2> QED BY <2>1, <2>2
<1>6. ASSUME NEW g \in Handlers, g # h, RowsOf(h)' \cap RowsOf(g) # {} PROVE errand[g].s = s
  <2>0. ErrandKnown(g) /\ Agree(g, h) /\ Agree(h, g)
    BY DEF AddrInv, Known
  <2>1. CASE errand[h].a \in RowsOf(g)
    BY <1>0, <1>4, <2>0, <2>1 DEF Agree, RowsOf, AddressesAssumption
  <2>2. CASE Book(s) \cap RowsOf(g) # {}
    <3>1. PICK a \in Book(s) : a \in RowsOf(g)
      BY <2>2
    <3>2. OwnedBy(a, errand[g].s)
      BY <2>0, <3>1 DEF ErrandKnown, RowsOf
    <3> QED BY <3>1, <3>2 DEF OwnedBy, Book
  <2> QED BY <1>1, <1>6, <2>1, <2>2 DEF RowsOf
<1>7. ASSUME NEW f \in Handlers, NEW g \in Handlers PROVE Agree(f, g)' /\ Apart(f, g)'
  <2>1. CASE f # h /\ g # h
    BY <1>1, <2>1 DEF AddrInv, Known, Agree, RowsOf, Apart, Runs
  <2>2. CASE f = h \/ g = h
    <3>1. Apart(f, g)'
      BY <1>1, <2>2 DEF Apart, Runs
    <3>2. Agree(f, g)'
      <4>1. ASSUME NEW k \in Handlers, k # h PROVE RowsOf(k)' = RowsOf(k)
        BY <1>1, <4>1 DEF RowsOf
      <4>2. CASE f = h /\ g = h
        BY <4>2 DEF Agree
      <4>3. CASE f = h /\ g # h
        BY <1>1, <1>6, <4>1, <4>3 DEF Agree
      <4>4. CASE f # h /\ g = h
        BY <1>1, <1>6, <4>1, <4>4 DEF Agree
      <4> QED BY <2>2, <4>2, <4>3, <4>4
    <3> QED BY <3>1, <3>2
  <2> QED BY <2>1, <2>2
<1>8. ASSUME NEW t \in Clean' PROVE BookKept(t)'
  <2>1. BookKept(t)
    BY <1>2 DEF AddrInv, Clean
  <2>2. Book(t)' = Book(t) /\ Defaults(t)' = Defaults(t)
    BY <1>2 DEF Book, Defaults
  <2>3. ASSUME NEW g \in Handlers PROVE Reached(g, t)'
    <3>1. CASE g = h
      BY <1>1, <2>2, <3>1 DEF Reached, Runs
    <3>2. CASE g # h
      BY <1>1, <2>1, <2>2, <3>2 DEF BookKept, Reached, Runs
    <3> QED BY <3>1, <3>2
  <2>4. ASSUME NEW f \in Handlers, NEW g \in Handlers PROVE OneMarks(f, g, t)'
    <3>1. CASE f = h \/ g = h
      BY <1>1, <3>1 DEF OneMarks, Runs
    <3>2. CASE f # h /\ g # h
      BY <1>1, <2>1, <3>2 DEF BookKept, OneMarks, Runs
    <3> QED BY <3>1, <3>2
  <2> QED BY <1>2, <2>1, <2>2, <2>3, <2>4 DEF BookKept
<1> QED BY <1>3, <1>5, <1>7, <1>8 DEF AddrInv, Known

(* It ends up with the locks of all of them that are left. *)
LEMMA ClearOK ==
    ASSUME AddressesAssumption, AddrInv, NEW h \in Handlers, DefaultClear(h) PROVE AddrInv'
<1> DEFINE R == {a \in errand[h].rows : address[a] # None}
<1>0. PICK s \in Shoppers : errand[h].s = s
  BY DEF DefaultClear, AddrInv, Known, ErrandKnown, Runs
<1>1. /\ errand' \in [Handlers -> Errands]
      /\ errand'[h].at = "mark" /\ errand'[h].rows = R
      /\ errand'[h].a = errand[h].a /\ errand'[h].s = s
      /\ \A g \in Handlers \ {h} : errand'[g] = errand[g]
  <2>1. errand[h] \in Errands /\ R \subseteq Places
    BY DEF AddrInv, AddrTypeOK, Errands
  <2>2. errand' = [errand EXCEPT ![h].at = "mark", ![h].rows = R]
    BY DEF DefaultClear
  <2> QED BY <1>0, <2>1, <2>2 DEF AddrInv, AddrTypeOK, Errands, Steps
<1>2. address' = address /\ chosen' = chosen /\ clobber' = clobber /\ unseen' = unseen
  BY DEF DefaultClear
<1>3. AddrTypeOK'
  BY <1>1, <1>2 DEF AddrInv, AddrTypeOK
<1>4. /\ Runs(h, "clear")
      /\ \A a \in errand[h].rows, g \in Handlers \ {h} :
           Runs(g, "mark") => a \notin errand[g].rows
  BY DEF DefaultClear, Unlocked
<1>5. ASSUME NEW g \in Handlers PROVE ErrandKnown(g)'
  <2>0. ErrandKnown(g)
    BY DEF AddrInv, Known
  <2>1. CASE g = h
    BY <1>0, <1>1, <1>2, <1>4, <2>0, <2>1 DEF ErrandKnown, Runs, OwnedBy
  <2>2. CASE g # h
    BY <1>1, <1>2, <2>0, <2>2 DEF ErrandKnown, Runs, OwnedBy
  <2> QED BY <2>1, <2>2
<1>6. ASSUME NEW f \in Handlers, NEW g \in Handlers PROVE Agree(f, g)' /\ Apart(f, g)'
  <2>1. ASSUME NEW k \in Handlers PROVE RowsOf(k)' \subseteq RowsOf(k) /\ errand'[k].s = errand[k].s
    BY <1>0, <1>1 DEF RowsOf
  <2>2. Agree(f, g)'
    BY <2>1 DEF AddrInv, Known, Agree
  <2>3. Apart(f, g)'
    <3>1. CASE f # h /\ g # h
      BY <1>1, <3>1 DEF AddrInv, Known, Apart, Runs
    <3>2. CASE f = h \/ g = h
      BY <1>1, <1>4, <3>2 DEF Apart, Runs
    <3> QED BY <3>1, <3>2
  <2> QED BY <2>2, <2>3
<1>7. ASSUME NEW t \in Clean' PROVE BookKept(t)'
  <2>1. BookKept(t)
    BY <1>2 DEF AddrInv, Clean
  <2>2. Book(t)' = Book(t) /\ Defaults(t)' = Defaults(t)
    BY <1>2 DEF Book, Defaults
  <2>3. s = t => Book(t) \subseteq errand[h].rows
    BY <1>0, <1>4, <2>1 DEF BookKept, Reached
  <2>4. ASSUME NEW g \in Handlers PROVE Reached(g, t)'
    <3>1. CASE g = h
      <4>1. s = t => Defaults(t) \subseteq R
        BY <2>3 DEF Defaults, Book
      <4> QED BY <1>1, <2>2, <3>1, <4>1 DEF Reached, Runs
    <3>2. CASE g # h
      BY <1>1, <2>1, <2>2, <3>2 DEF BookKept, Reached, Runs
    <3> QED BY <3>1, <3>2
  <2>5. ASSUME NEW g \in Handlers \ {h}, Runs(g, "mark"), errand[g].s = t, s = t
        PROVE  errand[g].rows = {}
    <3>1. ErrandKnown(g) /\ errand[g].rows \subseteq Places
      BY DEF AddrInv, Known, AddrTypeOK, Errands
    <3>2. errand[g].rows \subseteq Book(t)
      BY <2>5, <3>1 DEF ErrandKnown, OwnedBy, Book
    <3> QED BY <1>4, <2>3, <2>5, <3>2
  <2>6. ASSUME NEW f \in Handlers, NEW g \in Handlers PROVE OneMarks(f, g, t)'
    <3>1. CASE f = h /\ g # h
      BY <1>1, <2>5, <3>1 DEF OneMarks, Runs
    <3>2. CASE f # h /\ g = h
      BY <1>1, <2>5, <3>2 DEF OneMarks, Runs
    <3>3. CASE f # h /\ g # h
      BY <1>1, <2>1, <3>3 DEF BookKept, OneMarks, Runs
    <3>4. CASE f = g
      BY <3>4 DEF OneMarks
    <3> QED BY <3>1, <3>2, <3>3, <3>4
  <2> QED BY <1>2, <2>1, <2>2, <2>4, <2>6 DEF BookKept
<1> QED BY <1>3, <1>5, <1>6, <1>7 DEF AddrInv, Known

(* The commit of a SetDefault leaves the chosen row as the only default. *)
LEMMA MarkOK ==
    ASSUME AddressesAssumption, AddrInv, NEW h \in Handlers, DefaultMark(h) PROVE AddrInv'
<1> DEFINE b == errand[h].a
           R == errand[h].rows
<1>0. PICK s \in Shoppers : errand[h].s = s
  BY DEF DefaultMark, AddrInv, Known, ErrandKnown, Runs
<1>1. /\ Runs(h, "mark") /\ ErrandKnown(h)
      /\ b \in Places /\ R \subseteq Places
      /\ OwnedBy(b, s) /\ \A a \in R : address[a] # None /\ address[a].owner = s
  BY <1>0 DEF DefaultMark, AddrInv, Known, ErrandKnown, Runs, AddrTypeOK, Errands, OwnedBy
<1>2. /\ Unlocked(h, b) /\ AddrDone(h) /\ unseen' = unseen
      /\ clobber' = IF b \in R THEN clobber ELSE clobber \cup {s}
      /\ chosen' = [chosen EXCEPT ![s] = b]
      /\ address' = [a \in Places |->
                       CASE a = b       -> [owner |-> s, mark |-> TRUE]
                         [] a \in R \ {b} -> [address[a] EXCEPT !.mark = FALSE]
                         [] OTHER       -> address[a]]
  BY <1>0 DEF DefaultMark
<1>3. /\ address' \in [Places -> Maybe(AddressRows)]
      /\ address'[b] # None /\ address'[b].owner = s /\ address'[b].mark = TRUE
      /\ \A a \in R \ {b} :
           address'[a] # None /\ address'[a].owner = s /\ address'[a].mark = FALSE
      /\ \A a \in Places \ (R \cup {b}) : address'[a] = address[a]
  <2>1. LET row == [owner |-> s, mark |-> TRUE] IN
        row \in AddressRows /\ row.owner = s /\ row.mark = TRUE
    BY DEF AddressRows
  <2>2. ASSUME NEW a \in R
        PROVE  LET row == [address[a] EXCEPT !.mark = FALSE] IN
               row \in AddressRows /\ row.owner = s /\ row.mark = FALSE
    <3>1. address[a] \in AddressRows /\ address[a].owner = s
      BY <1>1 DEF AddrInv, AddrTypeOK, Maybe
    <3> QED BY <3>1 DEF AddressRows
  <2>3. \A a \in Places : address[a] \in Maybe(AddressRows)
    BY DEF AddrInv, AddrTypeOK
  <2>4. None \notin AddressRows
    BY DEF AddressesAssumption
  <2>5. address'[b] = [owner |-> s, mark |-> TRUE]
    BY <1>1, <1>2
  <2>6. ASSUME NEW a \in R \ {b} PROVE address'[a] = [address[a] EXCEPT !.mark = FALSE]
    BY <1>1, <1>2
  <2>7. ASSUME NEW a \in Places \ (R \cup {b}) PROVE address'[a] = address[a]
    BY <1>2
  <2>8. ASSUME NEW a \in Places PROVE address'[a] \in Maybe(AddressRows)
    <3>1. CASE a = b
      BY <2>1, <2>5, <3>1 DEF Maybe
    <3>2. CASE a \in R \ {b}
      BY <2>2, <2>6, <3>2 DEF Maybe
    <3>3. CASE a \notin R \cup {b}
      BY <2>3, <2>7, <3>3
    <3> QED BY <3>1, <3>2, <3>3
  <2>9. address' \in [Places -> Maybe(AddressRows)]
    BY <1>2, <2>8
  <2>10. address'[b] # None /\ address'[b].owner = s /\ address'[b].mark = TRUE
    BY <2>1, <2>4, <2>5
  <2>11. ASSUME NEW a \in R \ {b}
         PROVE  address'[a] # None /\ address'[a].owner = s /\ address'[a].mark = FALSE
    BY <2>2, <2>4, <2>6
  <2> QED BY <2>7, <2>9, <2>10, <2>11
<1>4. NoErrand.at = "idle" /\ errand'[h] = NoErrand
      /\ \A g \in Handlers \ {h} : errand'[g] = errand[g]
  BY <1>2 DEF AddrDone, NoErrand, AddrInv, AddrTypeOK
<1>5. b \in RowsOf(h) /\ R \subseteq RowsOf(h)
  BY <1>1 DEF RowsOf, AddressesAssumption
<1> HIDE DEF b, R
<1>6. ASSUME s \in Clean' PROVE BookKept(s)'
  <2>1. s \in Clean /\ BookKept(s) /\ b \in R
    BY <1>2, <1>6 DEF AddrInv, Clean
  <2>2. Book(s)' = Book(s) /\ b \in Book(s)
    BY <1>1, <1>3, <2>1 DEF Book
  <2>3. Defaults(s) \subseteq R
    BY <1>0, <1>1, <2>1 DEF BookKept, Reached, R
  <2>4. Defaults(s)' = {b}
    BY <1>3, <2>1, <2>2, <2>3 DEF Defaults, Book
  <2>5. chosen'[s] = b
    BY <1>2 DEF AddrInv, AddrTypeOK
  <2>6. ASSUME NEW g \in Handlers PROVE Reached(g, s)'
    <3>1. CASE g = h
      BY <1>4, <3>1 DEF Reached, Runs
    <3>2. CASE g # h
      <4>1. errand[g].s = s /\ Runs(g, "mark") => errand[g].rows = {}
        <5>1. OneMarks(g, h, s) /\ errand[h].rows # {} /\ Runs(h, "mark") /\ errand[h].s = s
          BY <1>0, <1>1, <2>1 DEF BookKept, R
        <5> QED BY <3>2, <5>1 DEF OneMarks
      <4> QED BY <1>4, <2>1, <2>2, <3>2, <4>1 DEF BookKept, Reached, Runs
    <3> QED BY <3>1, <3>2
  <2>7. ASSUME NEW f \in Handlers, NEW g \in Handlers PROVE OneMarks(f, g, s)'
    <3>1. CASE f = h \/ g = h
      BY <1>4, <3>1 DEF OneMarks, Runs
    <3>2. CASE f # h /\ g # h
      BY <1>4, <2>1, <3>2 DEF BookKept, OneMarks, Runs
    <3> QED BY <3>1, <3>2
  <2> QED BY <2>2, <2>4, <2>5, <2>6, <2>7 DEF BookKept
<1>7. ASSUME NEW g \in Handlers \ {h}, Runs(g, "mark")
      PROVE  b \notin errand[g].rows /\ R \cap errand[g].rows = {}
  BY <1>1, <1>2, <1>7 DEF Unlocked, AddrInv, Known, Apart, R
<1>8. \A a \in Places :
           \/ address'[a] = address[a]
           \/ /\ a \in RowsOf(h)
              /\ \A g \in Handlers \ {h} : Runs(g, "mark") => a \notin errand[g].rows
              /\ address'[a] # None => address'[a].owner = s
  BY <1>3, <1>5, <1>7
<1>9. /\ chosen' \in [Shoppers -> Maybe(Places)]
      /\ \A t \in Shoppers \ {s} : chosen'[t] = chosen[t]
      /\ clobber \subseteq clobber' /\ clobber' \subseteq Shoppers
      /\ ~ Runs(h, "idle")
  BY <1>1, <1>2 DEF AddrInv, AddrTypeOK, Maybe, Runs
<1>10. AddrDone(h) /\ unseen' = unseen /\ address' \in [Places -> Maybe(AddressRows)]
  BY <1>2, <1>3
<1> QED BY <1>0, <1>6, <1>8, <1>9, <1>10, WriteOK

(* Every step keeps the books in order. *)
LEMMA AddrStep == AddressesAssumption /\ AddrInv /\ [AddrNext]_addrVars => AddrInv'
<1> SUFFICES ASSUME AddressesAssumption, AddrInv, [AddrNext]_addrVars PROVE AddrInv'
  OBVIOUS
<1>1. ASSUME NEW h \in Handlers, AddrFail(h) PROVE AddrInv'
  BY <1>1, DoneOK DEF AddrFail, AddrInv, AddrTypeOK
<1>2. CASE UNCHANGED addrVars
  <2>1. AddrTypeOK' /\ Clean' = Clean
    BY <1>2 DEF addrVars, AddrInv, AddrTypeOK, Clean
  <2>2. Known'
    BY <1>2 DEF addrVars, AddrInv, Known, ErrandKnown, Agree, RowsOf, Apart, Runs, OwnedBy
  <2>3. ASSUME NEW s \in Clean PROVE BookKept(s)'
    BY <1>2 DEF addrVars, AddrInv, BookKept, Reached, OneMarks, Runs, Book, Defaults
  <2> QED BY <2>1, <2>2, <2>3 DEF AddrInv
<1>3. CASE AddrNext
  <2>1. PICK h \in Handlers :
          \/ \E s \in Shoppers, a \in Places :
               \/ AddrCreate(h, s, a)
               \/ \E step \in {"edit", "erase", "default"} : AddrRead(h, s, a, step)
          \/ AddrSave(h) \/ AddrErase(h)
          \/ DefaultStart(h) \/ DefaultClear(h) \/ DefaultMark(h)
          \/ AddrFail(h)
    BY <1>3 DEF AddrNext
  <2>2. ASSUME NEW s \in Shoppers, NEW a \in Places, AddrCreate(h, s, a) PROVE AddrInv'
    BY <2>2, CreateOK
  <2>3. ASSUME NEW s \in Shoppers, NEW a \in Places,
               NEW step \in {"edit", "erase", "default"}, AddrRead(h, s, a, step)
        PROVE  AddrInv'
    BY <2>3, ReadOK
  <2>4. ASSUME AddrSave(h) \/ AddrErase(h) PROVE AddrInv'
    BY <2>4, SaveOK, EraseOK
  <2>5. ASSUME DefaultStart(h) \/ DefaultClear(h) \/ DefaultMark(h) PROVE AddrInv'
    BY <2>5, StartOK, ClearOK, MarkOK
  <2> QED BY <1>1, <2>1, <2>2, <2>3, <2>4, <2>5
<1> QED BY <1>2, <1>3

(* A shopper's default address is the one made so last and the only one, as long
   as no save of an address and no new address got in between, however many
   requests overlap: SetDefault, internal/user/repository/address.go:61-76    *)
THEOREM DefaultsHold == AddrSpec => []DefaultIsLastSet
<1>1. AddrInit => AddrInv
  BY AddressesAssumption, AddrInitInv
<1>2. AddrInv /\ [AddrNext]_addrVars => AddrInv'
  BY AddressesAssumption, AddrStep
<1>3. AddrInv => DefaultIsLastSet
  BY DEF AddrInv, Clean, BookKept, DefaultIsLastSet
<1> QED BY <1>1, <1>2, <1>3, PTL DEF AddrSpec

-----------------------------------------------------------------------------
(* The notices (internal/notification) *)

Tasks ==
    [at : {"idle", "save", "user", "prefer", "send", "sent", "create", "update"},
     o : Maybe(Purchases), says : Maybe(OrderStatuses), event : Maybe(Events),
     wants : Maybe(BOOLEAN), tries : Nat, failed : BOOLEAN, sent : BOOLEAN, out : BOOLEAN]

NoteTyped ==
    /\ task \in [Handlers -> Tasks]
    /\ history \in [Purchases -> SUBSET OrderStatuses]
    /\ wish \in [Events -> Maybe(BOOLEAN)]

(* What a handler is going to say is true; it is at a mail for the first time;
   and it comes to the mail only if the buyer wants it *)
TaskOK(c, told, wants) ==
    /\ c.at = "save" => c.o \in Purchases /\ c.says \in OrderStatuses
    /\ c.at \in {"create", "update"} => c.event \in Events /\ c.wants \in BOOLEAN
    /\ c.at \in {"user", "prefer", "send", "sent"} =>
         /\ c.o \in Purchases /\ c.event \in Events
         /\ c.says \in told[c.o]
    /\ c.at \in {"user", "prefer", "send"} => ~ c.sent
    /\ c.at \in {"user", "prefer"} /\ c.out => wants[c.event] = FALSE
    /\ c.at = "send" => ~ c.out

NoteInv ==
    /\ NoteTyped
    /\ \A h \in Handlers : TaskOK(task[h], history, wish)
    /\ mails \subseteq Purchases \X OrderStatuses
    /\ MailsAreTrue /\ MailAtMostOnce /\ OptedOutGetNoMail

(* A handler without a task has nothing to answer for. *)
LEMMA NoTaskOK == NoTask \in Tasks /\ \A told, wants : TaskOK(NoTask, told, wants)
BY DEF NoTask, Tasks, TaskOK, Maybe

(* Nothing has been told or mailed at the start. *)
LEMMA NoteInitInv == NoteInit => NoteInv
<1> SUFFICES ASSUME NoteInit PROVE NoteInv
  OBVIOUS
<1>1. task \in [Handlers -> Tasks] /\ \A h \in Handlers : TaskOK(task[h], history, wish)
  BY NoTaskOK DEF NoteInit
<1>2. /\ history \in [Purchases -> SUBSET OrderStatuses]
      /\ wish \in [Events -> Maybe(BOOLEAN)]
  BY DEF NoteInit, Maybe
<1> QED BY <1>1, <1>2
  DEF NoteInit, NoteInv, NoteTyped, MailsAreTrue, MailAtMostOnce, OptedOutGetNoMail

(* A step that writes to an order and turns one handler to c *)
LEMMA OneTurn ==
    ASSUME NoteInv, NEW h \in Handlers, NEW c \in Tasks, Turn(h, c),
           history' \in [Purchases -> SUBSET OrderStatuses],
           \A o \in Purchases : history[o] \subseteq history'[o],
           wish' = wish, TaskOK(c, history', wish')
    PROVE  /\ NoteTyped'
           /\ \A g \in Handlers : TaskOK(task[g], history, wish)'
<1>1. task' \in [Handlers -> Tasks]
  BY DEF NoteInv, NoteTyped, Turn
<1>2. ASSUME NEW g \in Handlers PROVE TaskOK(task[g], history, wish)'
  <2>1. CASE g = h
    BY <2>1 DEF NoteInv, NoteTyped, Turn, TaskOK
  <2>2. CASE g # h
    <3>1. task'[g] = task[g] /\ TaskOK(task[g], history, wish) /\ task[g] \in Tasks
      BY <2>2 DEF NoteInv, NoteTyped, Turn
    <3> QED BY <3>1 DEF TaskOK, Tasks
  <2> QED BY <2>1, <2>2
<1> QED BY <1>1, <1>2 DEF NoteInv, NoteTyped

(* An order's history only grows *)
LEMMA MovesGrow ==
    ASSUME NoteInv, NEW o \in Purchases, NEW s \in OrderStatuses, Moves(o, s)
    PROVE  /\ history' \in [Purchases -> SUBSET OrderStatuses]
           /\ \A p \in Purchases : history[p] \subseteq history'[p]
           /\ s \in history'[o]
BY DEF NoteInv, NoteTyped, Moves

(* A notice that starts is one of a task that TaskOK describes *)
LEMMA NoticeOK ==
    ASSUME NoteInv, NEW o \in Purchases, NEW s \in OrderStatuses, NEW e \in Events,
           s \in history'[o], wish' = wish
    PROVE  Notice(o, e, s) \in Tasks /\ TaskOK(Notice(o, e, s), history', wish')
<1> DEFINE c == Notice(o, e, s)
<1>1. /\ c.at = "user" /\ c.o = o /\ c.says = s /\ c.event = e /\ c.wants = None
      /\ c.tries = 0 /\ c.failed = FALSE /\ c.sent = FALSE
      /\ c.out <=> wish[e] = FALSE
  BY DEF Notice, NoTask
<1>2. c \in Tasks
  BY DEF Notice, NoTask, Tasks, Maybe
<1>3. TaskOK(c, history', wish')
  BY <1>1 DEF TaskOK
<1> QED BY <1>2, <1>3

-----------------------------------------------------------------------------

Sent == /\ mails' \subseteq Purchases \X OrderStatuses
        /\ \A m \in mails' : m[2] \in history'[m[1]]
        /\ ~ twice' /\ ~ unwanted'

(* Mails that are there stay true *)
LEMMA SentStays ==
    ASSUME NoteInv, UNCHANGED posts, \A o \in Purchases : history[o] \subseteq history'[o]
    PROVE  Sent
BY DEF NoteInv, posts, Sent, MailsAreTrue, MailAtMostOnce, OptedOutGetNoMail

(* Opting in clears the marks of the notices that it concerns *)
LEMMA OptsInOK ==
    ASSUME NoteInv, NEW h \in Handlers, NEW e \in Events, OptsIn(h, e),
           wish' = [wish EXCEPT ![e] = TRUE], history' = history
    PROVE  /\ NoteTyped'
           /\ \A g \in Handlers : TaskOK(task[g], history, wish)'
<1>1. \A g \in Handlers : task[g] \in Tasks /\ TaskOK(task[g], history, wish)
  BY DEF NoteInv, NoteTyped
<1>2. wish' \in [Events -> Maybe(BOOLEAN)]
  BY DEF NoteInv, NoteTyped, Maybe
<1>3. ASSUME NEW g \in Handlers
      PROVE  task'[g] \in Tasks /\ TaskOK(task'[g], history', wish')
  <2>1. CASE g = h
    BY <2>1, NoTaskOK DEF OptsIn
  <2>2. CASE g # h /\ task[g].event = e
    <3>1. task'[g] = [task[g] EXCEPT !.out = FALSE]
      BY <2>2 DEF OptsIn
    <3> QED BY <1>1, <3>1 DEF Tasks, TaskOK
  <2>3. CASE g # h /\ task[g].event # e
    <3>1. task'[g] = task[g]
      BY <2>3 DEF OptsIn
    <3>2. wish'[task[g].event] = wish[task[g].event]
      BY <2>3 DEF NoteInv, NoteTyped
    <3> QED BY <1>1, <3>1, <3>2 DEF TaskOK
  <2> QED BY <2>1, <2>2, <2>3
<1>4. task' \in [Handlers -> Tasks]
  BY <1>3 DEF OptsIn
<1> QED BY <1>2, <1>3, <1>4 DEF NoteInv, NoteTyped

(* Opting out invalidates no mail that a handler has decided on. *)
LEMMA OptsOutOK ==
    ASSUME NoteInv, NEW h \in Handlers, NEW e \in Events, Turn(h, NoTask),
           wish' = [wish EXCEPT ![e] = FALSE], history' = history
    PROVE  /\ NoteTyped'
           /\ \A g \in Handlers : TaskOK(task[g], history, wish)'
<1>1. \A g \in Handlers : task[g] \in Tasks /\ TaskOK(task[g], history, wish)
  BY DEF NoteInv, NoteTyped
<1>2. wish' \in [Events -> Maybe(BOOLEAN)]
  BY DEF NoteInv, NoteTyped, Maybe
<1>3. task' \in [Handlers -> Tasks]
  BY NoTaskOK DEF NoteInv, NoteTyped, Turn
<1>4. ASSUME NEW g \in Handlers PROVE TaskOK(task'[g], history', wish')
  <2>1. CASE g = h
    BY <2>1, NoTaskOK DEF NoteInv, NoteTyped, Turn
  <2>2. CASE g # h
    <3>1. task'[g] = task[g]
      BY <2>2 DEF NoteInv, NoteTyped, Turn
    <3>2. task[g].event \in Events =>
            wish'[task[g].event] = FALSE \/ wish'[task[g].event] = wish[task[g].event]
      BY DEF NoteInv, NoteTyped
    <3> QED BY <1>1, <3>1, <3>2 DEF TaskOK
  <2> QED BY <2>1, <2>2
<1> QED BY <1>2, <1>3, <1>4 DEF NoteInv, NoteTyped

(* Every step keeps the mails true. *)
LEMMA NoteStep == NoteInv /\ [NoteNext]_noteVars => NoteInv'
<1> SUFFICES ASSUME NoteInv, [NoteNext]_noteVars PROVE NoteInv'
  OBVIOUS
<1> SUFFICES /\ NoteTyped'
             /\ \A g \in Handlers : TaskOK(task[g], history, wish)'
             /\ Sent
  BY DEF NoteInv, Sent, MailsAreTrue, MailAtMostOnce, OptedOutGetNoMail
<1> DEFINE Kept == /\ NoteTyped'
                   /\ \A g \in Handlers : TaskOK(task[g], history, wish)'
<1>idle. NoTask \in Tasks /\ TaskOK(NoTask, history', wish')
  BY NoTaskOK
<1>statuses. News \subseteq OrderStatuses
  BY NoticesAssumption
<1>still. ASSUME UNCHANGED <<task, history, wish>> PROVE Kept
  BY <1>still DEF NoteInv, NoteTyped, TaskOK
<1>1. ASSUME NEW h \in Handlers, NEW o \in Purchases, PurchasePlaced(h, o)
      PROVE  Kept /\ Sent
  <2>1. "pending_payment" \in OrderStatuses /\ "order_placed" \in Events
    BY DEF OrderStatuses, Events
  <2>2. Moves(o, "pending_payment") /\ UNCHANGED <<wish, posts>>
    BY <1>1 DEF PurchasePlaced
  <2>3. /\ history' \in [Purchases -> SUBSET OrderStatuses]
        /\ \A p \in Purchases : history[p] \subseteq history'[p]
        /\ "pending_payment" \in history'[o]
    BY <2>1, <2>2, MovesGrow
  <2> DEFINE c == Notice(o, "order_placed", "pending_payment")
  <2>4. c \in Tasks /\ TaskOK(c, history', wish')
    BY <2>1, <2>2, <2>3, NoticeOK
  <2>5. Turn(h, c)
    BY <1>1 DEF PurchasePlaced
  <2> HIDE DEF c
  <2> QED BY <2>2, <2>3, <2>4, <2>5, OneTurn, SentStays
<1>2. ASSUME NEW h \in Handlers, NEW o \in Purchases, NEW s \in News, StatusRead(h, o, s)
      PROVE  Kept /\ Sent
  <2> DEFINE c == [NoTask EXCEPT !.at = "save", !.o = o, !.says = s]
  <2>1. c \in Tasks /\ TaskOK(c, history', wish')
    BY <1>statuses DEF NoTask, Tasks, TaskOK, Maybe
  <2>2. Turn(h, c) /\ UNCHANGED <<history, wish, posts>>
    BY <1>2 DEF StatusRead, purchases
  <2> HIDE DEF c
  <2> QED BY <2>1, <2>2, OneTurn, SentStays DEF NoteInv, NoteTyped
<1>3. ASSUME NEW h \in Handlers, StatusSave(h) PROVE Kept /\ Sent
  <2> DEFINE o == task[h].o
             s == task[h].says
  <2>1. o \in Purchases /\ s \in OrderStatuses /\ "order_status_changed" \in Events
    BY <1>3 DEF StatusSave, Does, NoteInv, TaskOK, Events
  <2>2. Moves(o, s) /\ UNCHANGED <<wish, posts>>
    BY <1>3 DEF StatusSave
  <2> DEFINE c == Notice(o, "order_status_changed", s)
  <2>3. Turn(h, c)
    BY <1>3 DEF StatusSave
  <2> HIDE DEF o, s
  <2>4. /\ history' \in [Purchases -> SUBSET OrderStatuses]
        /\ \A p \in Purchases : history[p] \subseteq history'[p]
        /\ s \in history'[o]
    BY <2>1, <2>2, MovesGrow
  <2>5. c \in Tasks /\ TaskOK(c, history', wish')
    BY <2>1, <2>2, <2>4, NoticeOK
  <2> HIDE DEF c
  <2> QED BY <2>2, <2>3, <2>4, <2>5, OneTurn, SentStays
<1>4. ASSUME NEW o \in Purchases, NEW s \in {"paid", "cancelled"}, QuietMove(o, s)
      PROVE  Kept /\ Sent
  <2>1. s \in OrderStatuses
    BY DEF OrderStatuses
  <2>2. Moves(o, s) /\ UNCHANGED <<task, wish, posts>>
    BY <1>4 DEF QuietMove
  <2>3. /\ history' \in [Purchases -> SUBSET OrderStatuses]
        /\ \A p \in Purchases : history[p] \subseteq history'[p]
    BY <2>1, <2>2, MovesGrow
  <2>4. Kept
    BY <2>2, <2>3 DEF NoteInv, NoteTyped, TaskOK
  <2> QED BY <2>2, <2>3, <2>4, SentStays
<1>5. ASSUME NEW h \in Handlers, NEW o \in Purchases, SweepTells(h, o)
      PROVE  Kept /\ Sent
  <2>1. UNCHANGED <<task, wish, posts>>
    BY <1>5 DEF SweepTells, SweeperNotifierMails
  <2>2. CASE UNCHANGED history
    BY <2>1, <2>2, <1>still, SentStays
  <2>3. CASE Moves(o, "cancelled")
    <3>1. "cancelled" \in OrderStatuses
      BY DEF OrderStatuses
    <3>2. /\ history' \in [Purchases -> SUBSET OrderStatuses]
          /\ \A p \in Purchases : history[p] \subseteq history'[p]
      BY <2>3, <3>1, MovesGrow
    <3>3. Kept
      BY <2>1, <3>2 DEF NoteInv, NoteTyped, TaskOK
    <3> QED BY <2>1, <3>2, <3>3, SentStays
  <2> QED BY <1>5, <2>2, <2>3 DEF SweepTells, purchases
<1>6. ASSUME NEW h \in Handlers, FindBuyer(h) PROVE Kept /\ Sent
  <2> DEFINE c == IF mailing THEN [task[h] EXCEPT !.at = "prefer", !.tries = 1] ELSE NoTask
  <2>1. task[h] \in Tasks /\ TaskOK(task[h], history, wish) /\ task[h].at = "user"
    BY <1>6 DEF FindBuyer, Does, NoteInv, NoteTyped
  <2>2. Turn(h, c) /\ UNCHANGED <<history, wish, posts>>
    BY <1>6 DEF FindBuyer, purchases
  <2>3. c \in Tasks /\ TaskOK(c, history', wish')
    BY <2>1, <2>2, <1>idle DEF Tasks, TaskOK
  <2> HIDE DEF c
  <2> QED BY <2>2, <2>3, OneTurn, SentStays DEF NoteInv, NoteTyped
<1>7. ASSUME NEW h \in Handlers, IsEnabled(h) PROVE Kept /\ Sent
  <2>1. task[h] \in Tasks /\ TaskOK(task[h], history, wish) /\ task[h].at = "prefer"
    BY <1>7 DEF IsEnabled, Does, NoteInv, NoteTyped
  <2>2. UNCHANGED <<history, wish, posts>>
    BY <1>7 DEF IsEnabled, purchases
  <2>3. PICK c : /\ Turn(h, c)
                 /\ \/ wish[task[h].event] = FALSE /\ c = [task[h] EXCEPT !.at = "sent"]
                    \/ wish[task[h].event] # FALSE /\ c = [task[h] EXCEPT !.at = "send"]
    BY <1>7 DEF IsEnabled
  <2>4. c \in Tasks /\ TaskOK(c, history', wish')
    BY <2>1, <2>2, <2>3 DEF Tasks, TaskOK
  <2> QED BY <2>2, <2>3, <2>4, OneTurn, SentStays DEF NoteInv, NoteTyped
<1>8. ASSUME NEW h \in Handlers, LookupFails(h) PROVE Kept /\ Sent
  <2> DEFINE c == [task[h] EXCEPT !.at = "send", !.out = FALSE]
  <2>1. task[h] \in Tasks /\ TaskOK(task[h], history, wish) /\ task[h].at = "prefer"
    BY <1>8 DEF LookupFails, Does, NoteInv, NoteTyped
  <2>2. Turn(h, c) /\ UNCHANGED <<history, wish, posts>>
    BY <1>8 DEF LookupFails, purchases
  <2>3. c \in Tasks /\ TaskOK(c, history', wish')
    BY <2>1, <2>2 DEF Tasks, TaskOK
  <2> HIDE DEF c
  <2> QED BY <2>2, <2>3, OneTurn, SentStays DEF NoteInv, NoteTyped
<1>9. ASSUME NEW h \in Handlers, SmtpTakes(h) PROVE Kept /\ Sent
  <2>1. task[h] \in Tasks /\ TaskOK(task[h], history, wish) /\ task[h].at = "send"
    BY <1>9 DEF SmtpTakes, Does, NoteInv, NoteTyped
  <2>2. UNCHANGED <<history, wish>>
    BY <1>9 DEF SmtpTakes, purchases
  <2>3. PICK failed \in BOOLEAN :
          Turn(h, [task[h] EXCEPT !.at = "sent", !.sent = TRUE, !.failed = failed])
    BY <1>9 DEF SmtpTakes
  <2> DEFINE c == [task[h] EXCEPT !.at = "sent", !.sent = TRUE, !.failed = failed]
  <2>4. c \in Tasks /\ TaskOK(c, history', wish')
    BY <2>1, <2>2 DEF Tasks, TaskOK
  <2>5. Kept
    <3> HIDE DEF c
    <3>1. Turn(h, c)
      BY <2>3 DEF c
    <3> QED BY <2>2, <2>4, <3>1, OneTurn DEF NoteInv, NoteTyped
  <2>6. /\ task[h].o \in Purchases /\ task[h].says \in history[task[h].o]
        /\ history[task[h].o] \subseteq OrderStatuses
        /\ ~ task[h].sent /\ ~ task[h].out
    BY <2>1 DEF TaskOK, NoteInv, NoteTyped
  <2>7. ~ twice' /\ ~ unwanted'
    BY <1>9, <2>6 DEF SmtpTakes, NoteInv, MailAtMostOnce, OptedOutGetNoMail
  <2> DEFINE new == <<task[h].o, task[h].says>>
  <2>8. new \in Purchases \X OrderStatuses /\ new[2] \in history[new[1]]
    BY <2>6
  <2>9. mails' = mails \cup {new}
    BY <1>9 DEF SmtpTakes
  <2> HIDE DEF new
  <2>10. Sent
    BY <2>2, <2>7, <2>8, <2>9 DEF Sent, NoteInv, MailsAreTrue
  <2> QED BY <2>5, <2>10
<1>10. ASSUME NEW h \in Handlers, SmtpFails(h) PROVE Kept /\ Sent
  <2> DEFINE c == [task[h] EXCEPT !.at = "sent", !.failed = TRUE]
  <2>1. task[h] \in Tasks /\ TaskOK(task[h], history, wish) /\ task[h].at = "send"
    BY <1>10 DEF SmtpFails, Does, NoteInv, NoteTyped
  <2>2. Turn(h, c) /\ UNCHANGED <<history, wish, posts>>
    BY <1>10 DEF SmtpFails, purchases
  <2>3. c \in Tasks /\ TaskOK(c, history', wish')
    BY <2>1, <2>2 DEF Tasks, TaskOK
  <2> HIDE DEF c
  <2> QED BY <2>2, <2>3, OneTurn, SentStays DEF NoteInv, NoteTyped
<1>11. ASSUME NEW h \in Handlers, RetryRun(h) PROVE Kept /\ Sent
  <2>1. Turn(h, NoTask) /\ UNCHANGED <<history, wish, mails, twice, unwanted>>
    BY <1>11 DEF RetryRun, MultiNotifier, purchases
  <2>2. Kept
    BY <2>1, <1>idle, OneTurn DEF NoteInv, NoteTyped
  <2>3. Sent
    BY <2>1 DEF Sent, NoteInv, MailsAreTrue, MailAtMostOnce, OptedOutGetNoMail
  <2> QED BY <2>2, <2>3
<1>12. ASSUME NEW h \in Handlers, NEW e \in Events, NEW b \in BOOLEAN, PreferRead(h, e, b)
       PROVE  Kept /\ Sent
  <2> DEFINE c == [NoTask EXCEPT !.at = IF wish[e] = None THEN "create" ELSE "update",
                                 !.event = e, !.wants = b]
  <2>1. c \in Tasks /\ TaskOK(c, history', wish')
    BY DEF NoTask, Tasks, TaskOK, Maybe
  <2>2. Turn(h, c) /\ UNCHANGED <<history, wish, posts>>
    BY <1>12 DEF PreferRead, purchases
  <2> HIDE DEF c
  <2> QED BY <2>1, <2>2, OneTurn, SentStays DEF NoteInv, NoteTyped
<1>13. ASSUME NEW h \in Handlers, PreferCreate(h) PROVE Kept /\ Sent
  <2>1. task[h].event \in Events
    BY <1>13 DEF PreferCreate, Does, NoteInv, TaskOK
  <2>2. /\ wish' = [wish EXCEPT ![task[h].event] = TRUE]
        /\ OptsIn(h, task[h].event) /\ UNCHANGED <<history, posts>>
    BY <1>13 DEF PreferCreate, purchases
  <2> QED BY <2>1, <2>2, OptsInOK, SentStays DEF NoteInv, NoteTyped
<1>14. ASSUME NEW h \in Handlers, PreferUpdate(h) PROVE Kept /\ Sent
  <2>1. task[h].event \in Events /\ task[h].wants \in BOOLEAN
    BY <1>14 DEF PreferUpdate, Does, NoteInv, TaskOK
  <2>2. /\ wish' = [wish EXCEPT ![task[h].event] = task[h].wants]
        /\ UNCHANGED <<history, posts>>
    BY <1>14 DEF PreferUpdate, purchases
  <2>3. CASE task[h].wants
    <3>1. OptsIn(h, task[h].event) /\ wish' = [wish EXCEPT ![task[h].event] = TRUE]
      BY <1>14, <2>1, <2>2, <2>3 DEF PreferUpdate
    <3> QED BY <2>1, <2>2, <3>1, OptsInOK, SentStays DEF NoteInv, NoteTyped
  <2>4. CASE ~ task[h].wants
    <3>1. Turn(h, NoTask) /\ wish' = [wish EXCEPT ![task[h].event] = FALSE]
      BY <1>14, <2>1, <2>2, <2>4 DEF PreferUpdate
    <3> QED BY <2>1, <2>2, <3>1, OptsOutOK, SentStays DEF NoteInv, NoteTyped
  <2> QED BY <2>3, <2>4
<1>15. ASSUME NEW h \in Handlers, NoteFail(h) PROVE Kept /\ Sent
  <2>1. Turn(h, NoTask) /\ UNCHANGED <<history, wish, posts>>
    BY <1>15 DEF NoteFail, purchases
  <2> QED BY <2>1, <1>idle, OneTurn, SentStays DEF NoteInv, NoteTyped
<1>16. CASE UNCHANGED noteVars
  BY <1>16, <1>still, SentStays DEF noteVars, posts
<1> QED BY <1>1, <1>2, <1>3, <1>4, <1>5, <1>6, <1>7, <1>8, <1>9, <1>10, <1>11, <1>12, <1>13,
           <1>14, <1>15, <1>16 DEF NoteNext

(* The invariant holds in every behaviour. *)
LEMMA NoteAlways == NoteSpec => []NoteInv
<1> QED BY NoteInitInv, NoteStep, PTL DEF NoteSpec

(* A mail says what was true of its order at some time, for any number of
   overlapping moves, sweeps and notices *)
THEOREM MailsTrue == NoteSpec => []MailsAreTrue
<1>1. NoteInv => MailsAreTrue
  BY DEF NoteInv
<1> QED BY <1>1, NoteAlways, PTL

(* No notice is mailed twice, because no attempt is repeated: the notifier inside
   the retries never says that it failed *)
THEOREM MailsOnce == NoteSpec => []MailAtMostOnce
<1>1. NoteInv => MailAtMostOnce
  BY DEF NoteInv
<1> QED BY <1>1, NoteAlways, PTL

(* A stored opt-out keeps mails away from a notice that starts after it,
   however preferences are set meanwhile *)
THEOREM OptOutsHold == NoteSpec => []OptedOutGetNoMail
<1>1. NoteInv => OptedOutGetNoMail
  BY DEF NoteInv
<1> QED BY <1>1, NoteAlways, PTL

-----------------------------------------------------------------------------
(* The checkout (internal/order/service) *)

Bills == [at : {"none", "pricing", "placed"}, units : [Goods -> Nat], todo : SUBSET Goods,
          line : [Goods -> Nat], total : Int, discount : Int, kind : Maybe(Kinds), value : Int]

(* The total is that of the lines that have a price, and the others are zero *)
Priced(b) ==
    /\ b \in Bills
    /\ \A g \in b.todo : b.line[g] = 0
    /\ b.total = 100 * SumFunctionOnSet(b.line, Goods)
    /\ b.at # "placed" => b.discount = 0 /\ b.value = 0

CheckoutInv ==
    /\ price \in [Goods -> Nat]
    /\ coupon # None => coupon \in Offers /\ ValidOffer(coupon)
    /\ Priced(bill)
    /\ OverOneHundred \/ Final \in 0..bill.total
    /\ charge # None =>
         bill.at = "placed" /\ (OverOneHundred \/ Final - 100 * charge \in 0..100)

(* There is nothing to pay without a line. *)
LEMMA NothingPriced == ASSUME IsFiniteSet(Goods) PROVE SumFunctionOnSet(NoBill.line, Goods) = 0
<1> DEFINE f == [g \in Goods |-> 0]
           F == {T \in SUBSET Goods : SumFunctionOnSet(f, T) = 0}
<1>1. {} \in F
  BY SumEmpty
<1>2. ASSUME NEW T \in SUBSET Goods, NEW g \in Goods, g \notin T, T \in F PROVE T \cup {g} \in F
  <2>1. IsFiniteSet(T) /\ \A x \in T \cup {g} : f[x] = 0
    BY FS_Subset
  <2>2. SumFunctionOnSet(f, T \cup {g}) = f[g] + SumFunctionOnSet(f, T)
    BY <1>2, <2>1, SumAdd
  <2> QED BY <1>2, <2>1, <2>2
<1> HIDE DEF f
<1>3. Goods \in F
  BY <1>1, <1>2, SubsetInduction
<1> QED BY <1>3 DEF NoBill, f

(* No bill is one that adds up. *)
LEMMA NoBillPriced == ASSUME IsFiniteSet(Goods) PROVE Priced(NoBill) /\ NoBill.at = "none"
<1>1. /\ NoBill \in Bills /\ NoBill.todo = {} /\ NoBill.total = 0
      /\ NoBill.discount = 0 /\ NoBill.value = 0 /\ NoBill.at = "none"
  BY DEF NoBill, Bills, Maybe
<1> QED BY <1>1, NothingPriced DEF Priced

(* A line that gets its price adds it to the sum of the lines. *)
LEMMA LineAdds ==
    ASSUME IsFiniteSet(Goods), NEW f \in [Goods -> Nat], NEW g \in Goods, NEW n \in Nat, f[g] = 0
    PROVE  /\ SumFunctionOnSet([f EXCEPT ![g] = n], Goods) = SumFunctionOnSet(f, Goods) + n
           /\ SumFunctionOnSet(f, Goods) \in Nat
<1> DEFINE h == [f EXCEPT ![g] = n]
<1>1. h \in [Goods -> Nat] /\ h[g] = n /\ \A x \in Goods \ {g} : h[x] = f[x]
  OBVIOUS
<1> HIDE DEF h
<1>2. SumFunctionOnSet(f, Goods) = f[g] + SumFunctionOnSet(f, Goods \ {g})
  BY SumTakeOut
<1>3. SumFunctionOnSet(h, Goods) = h[g] + SumFunctionOnSet(h, Goods \ {g})
  BY <1>1, SumTakeOut
<1>4. IsFiniteSet(Goods \ {g})
  BY FS_Subset
<1>5. SumFunctionOnSet(h, Goods \ {g}) = SumFunctionOnSet(f, Goods \ {g})
  BY <1>1, <1>4, SumSame
<1>6. SumFunctionOnSet(f, Goods \ {g}) \in Nat
  BY <1>4, SumType
<1>7. SumFunctionOnSet(h, Goods) = SumFunctionOnSet(f, Goods) + n
  BY <1>1, <1>2, <1>3, <1>5, <1>6
<1> QED BY <1>2, <1>6, <1>7 DEF h

(* A discount is at least nothing and, unless it is a percentage of more than
   one hundred, at most the total. *)
LEMMA DiscountFits ==
    ASSUME NEW c, CouponRow(c), ValidOffer(c), NEW n \in Nat
    PROVE  /\ Discount(c, 100 * n) \in Nat
           /\ (c.kind = "percentage" /\ c.value > 100) \/ Discount(c, 100 * n) <= 100 * n
<1>1. (100 * n) \div 100 = n
  OBVIOUS
<1>2. c.value \in Nat /\ c.value > 0
  BY DEF CouponRow, ValidOffer
<1>3. CASE c.kind = "percentage"
  <2>1. Discount(c, 100 * n) = n * c.value
    BY <1>1, <1>3 DEF Discount
  <2>2. n * c.value \in Nat
    BY <1>2
  <2>3. c.value <= 100 => n * c.value <= 100 * n
    BY <1>2
  <2> QED BY <1>2, <1>3, <2>1, <2>2, <2>3
<1>4. CASE c.kind # "percentage"
  BY <1>2, <1>4 DEF Discount
<1> QED BY <1>3, <1>4

(* The charge is at most the amount, and at most a cent below it. *)
LEMMA ChargeFits ==
    ASSUME NEW x \in Nat, NEW n \in MinorUnits(x)
    PROVE  x - 100 * n \in 0..100
BY DEF MinorUnits, Whole

(* A step of the buyer's or an administrator's, or of the payment service *)
LEMMA CheckoutStep ==
    ASSUME IsFiniteSet(Goods), CheckoutAssumption, CheckoutInv, [CheckoutNext]_checkoutVars
    PROVE  CheckoutInv'
<1>1. CASE UNCHANGED checkoutVars
  BY <1>1 DEF checkoutVars, CheckoutInv, OverOneHundred, Final
<1>2. ASSUME NEW g \in Goods, NEW x \in Prices, Reprice(g, x) PROVE CheckoutInv'
  <2>1. price' \in [Goods -> Nat]
    BY <1>2, CheckoutAssumption DEF Reprice, CheckoutInv
  <2> QED BY <1>2, <2>1 DEF Reprice, CheckoutInv, OverOneHundred, Final
<1>3. ASSUME NEW c \in Offers, CreateCoupon(c) PROVE CheckoutInv'
  BY <1>3 DEF CreateCoupon, CheckoutInv, OverOneHundred, Final
<1>4. CASE CouponEnds
  BY <1>4 DEF CouponEnds, CheckoutInv, OverOneHundred, Final
<1>5. ASSUME NEW u \in [Goods -> Quantities \cup {0}], SendOrder(u) PROVE CheckoutInv'
  <2>1. Priced(NoBill) /\ NoBill.line = [g \in Goods |-> 0] /\ NoBill.total = 0
    BY NoBillPriced DEF NoBill
  <2>2. u \in [Goods -> Nat]
    <3>1. Quantities \cup {0} \subseteq Nat
      BY CheckoutAssumption
    <3> QED BY <3>1
  <2> DEFINE todo == {g \in Goods : u[g] > 0}
  <2>0. /\ todo \in SUBSET Goods
        /\ bill' = [NoBill EXCEPT !.at = "pricing", !.units = u, !.todo = todo]
    BY <1>5 DEF SendOrder
  <2> HIDE DEF todo
  <2>3. /\ bill' \in Bills /\ bill'.at = "pricing" /\ bill'.todo \subseteq Goods
        /\ bill'.line = NoBill.line /\ bill'.total = 0 /\ bill'.discount = 0 /\ bill'.value = 0
    <3>1. NoBill \in Bills
      BY <2>1 DEF Priced
    <3>2. NoBill.total = 0 /\ NoBill.discount = 0 /\ NoBill.value = 0
      BY DEF NoBill
    <3> QED BY <2>0, <2>2, <3>1, <3>2 DEF Bills
  <2>4. Priced(bill)'
    BY <2>1, <2>3, NothingPriced DEF Priced
  <2>5. charge' = charge /\ charge = None
    BY <1>5 DEF SendOrder, CheckoutInv
  <2> QED BY <1>5, <2>3, <2>4, <2>5 DEF SendOrder, CheckoutInv, OverOneHundred, Final
<1>6. ASSUME NEW g \in Goods, PriceLine(g) PROVE CheckoutInv'
  <2> DEFINE n == price[g] * bill.units[g]
  <2>1. bill \in Bills /\ bill.at = "pricing" /\ g \in bill.todo /\ bill.line[g] = 0
    BY <1>6 DEF PriceLine, CheckoutInv, Priced
  <2>2. price[g] \in Nat /\ bill.units[g] \in Nat /\ bill.line \in [Goods -> Nat]
    BY <2>1 DEF CheckoutInv, Bills
  <2>3. n \in Nat /\ 100 * price[g] * bill.units[g] = 100 * n
    BY <2>2
  <2> DEFINE rest == bill.todo \ {g}
             line == [bill.line EXCEPT ![g] = n]
             sum == bill.total + 100 * n
  <2>4. /\ rest \in SUBSET Goods /\ line \in [Goods -> Nat] /\ sum \in Int
        /\ bill' = [bill EXCEPT !.todo = rest, !.line = line, !.total = sum]
    <3>1. rest \in SUBSET Goods /\ line \in [Goods -> Nat] /\ sum \in Int
      BY <2>1, <2>2, <2>3 DEF Bills
    <3>2. bill' = [bill EXCEPT !.todo = rest, !.line = line, !.total = sum]
      BY <1>6, <2>1, <2>3 DEF PriceLine, Bills
    <3> QED BY <3>1, <3>2
  <2> HIDE DEF n, rest, line, sum
  <2>5. /\ bill' \in Bills /\ bill'.at = "pricing" /\ bill'.todo = bill.todo \ {g}
        /\ bill'.line = [bill.line EXCEPT ![g] = n] /\ bill'.total = bill.total + 100 * n
        /\ bill'.discount = bill.discount /\ bill'.value = bill.value
    <3>1. /\ bill' \in Bills /\ bill'.at = "pricing" /\ bill'.todo = rest
          /\ bill'.line = line /\ bill'.total = sum
          /\ bill'.discount = bill.discount /\ bill'.value = bill.value
      BY <2>1, <2>4 DEF Bills
    <3> QED BY <3>1 DEF rest, line, sum
  <2>6. /\ SumFunctionOnSet(bill'.line, Goods) = SumFunctionOnSet(bill.line, Goods) + n
        /\ SumFunctionOnSet(bill.line, Goods) \in Nat
    BY <2>1, <2>2, <2>3, <2>5, LineAdds
  <2>7. Priced(bill)'
    <3>1. bill'.total = 100 * SumFunctionOnSet(bill'.line, Goods)
      BY <2>3, <2>5, <2>6 DEF CheckoutInv, Priced
    <3>2. \A x \in bill'.todo : bill'.line[x] = 0
      BY <2>1, <2>2, <2>5 DEF CheckoutInv, Priced, Bills
    <3> QED BY <2>1, <2>5, <3>1, <3>2 DEF CheckoutInv, Priced
  <2>8. bill'.total \in Nat /\ bill'.discount = 0 /\ bill'.value = 0
    BY <2>1, <2>3, <2>5, <2>6 DEF CheckoutInv, Priced
  <2>9. charge' = charge /\ charge = None
    BY <1>6, <2>1 DEF PriceLine, CheckoutInv
  <2> QED BY <1>6, <2>7, <2>8, <2>9 DEF PriceLine, CheckoutInv, OverOneHundred, Final
<1>7. CASE PlaceWithCoupon
  <2> DEFINE n == SumFunctionOnSet(bill.line, Goods)
             d == Discount(coupon, bill.total)
  <2>1. bill \in Bills /\ bill.line \in [Goods -> Nat] /\ bill.total = 100 * n
    BY DEF CheckoutInv, Priced, Bills
  <2>2. n \in Nat
    BY <2>1, SumType
  <2>3. coupon \in Offers /\ CouponRow(coupon) /\ ValidOffer(coupon)
    BY <1>7, CheckoutAssumption DEF PlaceWithCoupon, CheckoutInv
  <2>4. /\ d \in Nat
        /\ (coupon.kind = "percentage" /\ coupon.value > 100) \/ d <= bill.total
    BY <2>1, <2>2, <2>3, DiscountFits
  <2>5. bill' = [bill EXCEPT !.at = "placed", !.discount = d,
                             !.kind = coupon.kind, !.value = coupon.value]
    BY <1>7 DEF PlaceWithCoupon
  <2> HIDE DEF d
  <2>6. /\ bill' \in Bills /\ bill'.at = "placed" /\ bill'.discount = d
        /\ bill'.kind = coupon.kind /\ bill'.value = coupon.value
        /\ bill'.todo = bill.todo /\ bill'.line = bill.line /\ bill'.total = bill.total
    <3>1. d \in Int /\ coupon.kind \in Maybe(Kinds) /\ coupon.value \in Int
      BY <2>3, <2>4 DEF CouponRow, Maybe
    <3> QED BY <2>1, <2>5, <3>1 DEF Bills
  <2>7. Priced(bill)'
    BY <2>6 DEF CheckoutInv, Priced
  <2>8. (OverOneHundred \/ Final \in 0..bill.total)'
    <3>1. bill.total \in Nat
      BY <2>1, <2>2
    <3> QED BY <2>4, <2>6, <3>1 DEF OverOneHundred, Final
  <2>9. charge' = charge /\ charge = None
    BY <1>7 DEF PlaceWithCoupon, CheckoutInv
  <2> QED BY <1>7, <2>6, <2>7, <2>8, <2>9 DEF PlaceWithCoupon, CheckoutInv
<1>8. CASE PlaceWithout
  <2>1. bill \in Bills /\ bill.at = "pricing"
    BY <1>8 DEF PlaceWithout, CheckoutInv, Priced
  <2>2. /\ bill' \in Bills /\ bill'.at = "placed" /\ bill'.discount = bill.discount
        /\ bill'.kind = bill.kind /\ bill'.value = bill.value
        /\ bill'.todo = bill.todo /\ bill'.line = bill.line /\ bill'.total = bill.total
    BY <1>8, <2>1 DEF PlaceWithout, Bills
  <2>3. Priced(bill)'
    BY <2>2 DEF CheckoutInv, Priced
  <2>4. charge' = charge /\ charge = None
    BY <1>8, <2>1 DEF PlaceWithout, CheckoutInv
  <2> QED BY <1>8, <2>2, <2>3, <2>4 DEF PlaceWithout, CheckoutInv, OverOneHundred, Final
<1>9. CASE RefuseOrder
  <2>1. bill' = NoBill /\ charge' = charge /\ charge = None
    BY <1>9 DEF RefuseOrder, CheckoutInv
  <2>2. NoBill.total = 0 /\ NoBill.discount = 0
    BY DEF NoBill
  <2> QED BY <1>9, <2>1, <2>2, NoBillPriced DEF RefuseOrder, CheckoutInv, Final
<1>10. CASE CreateIntent
  <2>1. bill' = bill /\ bill.at = "placed" /\ charge' \in MinorUnits(Final)
    BY <1>10 DEF CreateIntent
  <2>2. OverOneHundred \/ Final - 100 * charge' \in 0..100
    <3>1. bill.total \in Int /\ bill.discount \in Int
      BY DEF CheckoutInv, Priced, Bills
    <3>2. CASE Final \in Nat
      BY <2>1, <3>2, ChargeFits
    <3>3. Final \in 0..bill.total => Final \in Nat
      BY <3>1
    <3> QED BY <3>2, <3>3 DEF CheckoutInv
  <2> QED BY <1>10, <2>1, <2>2 DEF CreateIntent, CheckoutInv, OverOneHundred, Final
<1> QED BY <1>1, <1>2, <1>3, <1>4, <1>5, <1>6, <1>7, <1>8, <1>9, <1>10 DEF CheckoutNext

(* The bill of every placed order adds up, whatever became of the prices and the
   coupon meanwhile: for any prices, quantities and coupons *)
THEOREM BillsHold == ASSUME IsFiniteSet(Goods) PROVE CheckoutSpec => []BillsAddUp
<1>1. CheckoutInit => CheckoutInv
  <2> SUFFICES ASSUME CheckoutInit PROVE CheckoutInv
    OBVIOUS
  <2>1. price \in [Goods -> Nat] /\ coupon = None /\ charge = None /\ bill = NoBill
    BY CheckoutAssumption DEF CheckoutInit
  <2>2. NoBill.total = 0 /\ NoBill.discount = 0
    BY DEF NoBill
  <2> QED BY <2>1, <2>2, NoBillPriced DEF CheckoutInv, Final
<1>2. CheckoutInv /\ [CheckoutNext]_checkoutVars => CheckoutInv'
  BY CheckoutStep, CheckoutAssumption
<1>3. CheckoutInv => BillsAddUp
  BY DEF CheckoutInv, Priced, BillsAddUp
<1> QED BY <1>1, <1>2, <1>3, PTL DEF CheckoutSpec

-----------------------------------------------------------------------------
(* Paging (pkg/paging) *)

(* How many rows the pages seen so far span                                *)
Gone == (CurrentPage(page, size, 1) - 1) * Limit(size)

PageTypeOK ==
    /\ total \in 0..MaxRows
    /\ began \in 0..total
    /\ desc \in BOOLEAN
    /\ size \in PageSizes
    /\ page \in Nat
    /\ counted \in {-1} \cup began..total
    /\ shown \in [1..MaxRows -> Nat]
    /\ between \in BOOLEAN
    /\ over \in BOOLEAN

(* While the walk goes on, the page it asks for exists.                    *)
PageExists ==
    /\ over => counted = -1
    /\ counted # -1 /\ ~ between => counted = total
    /\ page >= 2 /\ ~ over => Gone < total
    /\ page >= 2 /\ counted # -1 => Gone < counted

(* Oldest first, the pages seen are the first Gone rows, once each.        *)
SeenOldest ==
    ~ desc =>
      /\ \A r \in 1..began : shown[r] = IF r <= Gone THEN 1 ELSE 0
      /\ over => began <= Gone

(* Newest first, the rows not seen yet are moved on by the rows that come. *)
SeenNewest ==
    desc /\ ~ between =>
      \A r \in 1..began : shown[r] >= 1 \/ (~ over /\ total - r >= Gone)

PageInv == PageTypeOK /\ PageExists /\ SeenOldest /\ SeenNewest

(* A page holds at least one row (paging.go:22-26).                        *)
LEMMA LimitPositive ==
    ASSUME PagingAssumption, NEW s \in PageSizes
    PROVE  Limit(s) \in Nat \ {0}
  BY DEF PagingAssumption, Limit

(* The pages of n rows hold them all, and all but the last hold fewer.     *)
LEMMA PagesSpan ==
    ASSUME PagingAssumption, NEW s \in PageSizes, NEW n \in Nat
    PROVE  /\ TotalPage(s, n) \in Nat
           /\ \A c \in Nat : c >= TotalPage(s, n) => c * Limit(s) >= n
           /\ \A c \in Nat : c < TotalPage(s, n) => c * Limit(s) < n
<1> DEFINE L == Limit(s)
           q == TotalPage(s, n)
<1>1. L \in Nat /\ L >= 1
  BY LimitPositive
<1> HIDE DEF L
<1>2. q = (n + L - 1) \div L
  BY DEF TotalPage, L
<1>3. q \in Nat /\ q * L <= n + L - 1 /\ n + L - 1 < (q + 1) * L
  BY <1>1, <1>2
<1> HIDE DEF q
<1>4. (q + 1) * L = q * L + L /\ q * L \in Nat
  BY <1>1, <1>3
<1>5. ASSUME NEW c \in Nat, c >= q PROVE c * L >= n
  <2>1. c * L >= q * L /\ c * L \in Nat
    BY <1>1, <1>3, <1>5
  <2> QED BY <2>1, <1>1, <1>3, <1>4
<1>6. ASSUME NEW c \in Nat, c < q PROVE c * L < n
  <2>1. (c + 1) * L <= q * L /\ (c + 1) * L = c * L + L /\ c * L \in Nat
    BY <1>1, <1>3, <1>6
  <2> QED BY <2>1, <1>1, <1>3, <1>4
<1> QED BY <1>3, <1>5, <1>6 DEF L, q

(* What Gone is.                                                           *)
LEMMA GoneIs ==
    ASSUME PagingAssumption, PageTypeOK
    PROVE  /\ Gone \in Nat
           /\ page < 2 => Gone = 0
           /\ page >= 2 => Gone = (page - 1) * Limit(size)
<1> DEFINE L == Limit(size)
           c == CurrentPage(page, size, 1)
<1>1. L \in Nat /\ L >= 1
  BY LimitPositive DEF PageTypeOK
<1>2. TotalPage(size, 1) # 0
  BY <1>1, PagesSpan, 0 * L = 0 DEF PageTypeOK
<1>3. c = IF page < 1 THEN 1 ELSE page
  BY <1>2 DEF CurrentPage
<1>4. Gone = (c - 1) * L
  BY DEF Gone
<1> HIDE DEF c, L
<1>5. c - 1 \in Nat /\ (page < 2 => c - 1 = 0) /\ (page >= 2 => c = page)
  BY <1>3 DEF PageTypeOK
<1> QED BY <1>1, <1>4, <1>5 DEF L

(* No page has been seen at the start. *)
LEMMA PageInitInv == PagingAssumption /\ PageInit => PageInv
<1> SUFFICES ASSUME PagingAssumption, PageInit PROVE PageInv
  OBVIOUS
<1>1. PageTypeOK
  <2>1. /\ total \in 0..MaxRows /\ began \in 0..total /\ page \in Nat
        /\ counted \in {-1} \cup began..total
    BY DEF PagingAssumption, PageInit
  <2>2. shown \in [1..MaxRows -> Nat]
    BY DEF PageInit
  <2> QED BY <2>1, <2>2 DEF PageInit, PageTypeOK
<1>2. Gone = 0
  BY <1>1, GoneIs DEF PageInit
<1>3. PageExists
  BY DEF PageInit, PageExists
<1>4. SeenOldest /\ SeenNewest
  BY <1>1, <1>2 DEF PageInit, SeenOldest, SeenNewest, PageTypeOK
<1> QED BY <1>1, <1>3, <1>4 DEF PageInv

(* Rows that come, and counts, leave the pages seen alone.                 *)
LEMMA AddRowOK == PagingAssumption /\ PageInv /\ AddRow => PageInv'
<1> SUFFICES ASSUME PagingAssumption, PageInv, AddRow PROVE PageInv'
  OBVIOUS
<1>1. Gone' = Gone /\ Gone \in Nat
  BY GoneIs DEF AddRow, PageInv, Gone
<1>2. PageTypeOK'
  BY DEF AddRow, PageInv, PageTypeOK, PagingAssumption
<1>3. PageExists'
  <2>1. over' => counted' = -1
    BY DEF AddRow, PageInv, PageExists
  <2>2. counted' # -1 /\ ~ between' => counted' = total'
    BY DEF AddRow
  <2>3. page' >= 2 /\ ~ over' => Gone' < total'
    <3>1. Gone < total => Gone < total + 1
      BY <1>1 DEF PageInv, PageTypeOK, PagingAssumption
    <3> QED BY <1>1, <3>1 DEF AddRow, PageInv, PageExists
  <2>4. page' >= 2 /\ counted' # -1 => Gone' < counted'
    BY <1>1 DEF AddRow, PageInv, PageExists
  <2> QED BY <2>1, <2>2, <2>3, <2>4 DEF PageExists
<1>4. SeenOldest'
  BY <1>1 DEF AddRow, PageInv, PageTypeOK, SeenOldest
<1>5. SeenNewest'
  BY <1>1 DEF AddRow, PageInv, PageTypeOK, SeenNewest, PagingAssumption
<1> QED BY <1>2, <1>3, <1>4, <1>5 DEF PageInv

(* A count leaves the pages seen alone. *)
LEMMA CountRowsOK == PagingAssumption /\ PageInv /\ CountRows => PageInv'
<1> SUFFICES ASSUME PagingAssumption, PageInv, CountRows PROVE PageInv'
  OBVIOUS
<1>1. Gone' = Gone /\ Gone \in Nat
  BY GoneIs DEF CountRows, PageInv, Gone
<1>2. PageTypeOK'
  BY DEF CountRows, PageInv, PageTypeOK, PagingAssumption
<1>3. PageExists'
  BY <1>1 DEF CountRows, PageInv, PageTypeOK, PageExists, PagingAssumption
<1>4. SeenOldest' /\ SeenNewest'
  BY <1>1 DEF CountRows, PageInv, PageTypeOK, SeenOldest, SeenNewest
<1> QED BY <1>2, <1>3, <1>4 DEF PageInv

(* A fetched page is the next one, and the last one ends the walk.         *)
LEMMA FetchRowsOK == PagingAssumption /\ PageInv /\ FetchRows => PageInv'
<1> SUFFICES ASSUME PagingAssumption, PageInv, FetchRows PROVE PageInv'
  OBVIOUS
<1> DEFINE L == Limit(size)
           c == CurrentPage(page, size, counted)
           K == Skip(page, size, counted)
<1> USE DEF PageInv
<1>1. L \in Nat /\ L >= 1
  BY LimitPositive DEF PageTypeOK
<1>2. counted \in Nat /\ counted \in began..total /\ ~ over
  BY DEF FetchRows, PageTypeOK, PageExists
<1>3. c \in Nat /\ c >= 1 /\ (page < 2 => c = 1) /\ (page >= 2 => c = page)
  <2>1. page >= 2 => TotalPage(size, counted) # 0
    <3> SUFFICES ASSUME page >= 2, TotalPage(size, counted) = 0 PROVE FALSE
      OBVIOUS
    <3>1. 0 * L >= counted
      BY <1>2, PagesSpan DEF PageTypeOK
    <3>2. Gone \in Nat /\ Gone < counted
      BY <1>2, GoneIs DEF PageExists, PageTypeOK
    <3> QED BY <1>1, <1>2, <3>1, <3>2
  <2> QED BY <2>1 DEF CurrentPage, PageTypeOK
<1>4. K = (c - 1) * L
  BY DEF Skip
<1>5. page' = c + 1 /\ size' = size /\ counted' = -1 /\ (over' <=> c >= TotalPage(size, counted))
  BY DEF FetchRows
<1>6. shown' = [r \in 1..MaxRows |-> IF OnPage(r) THEN shown[r] + 1 ELSE shown[r]]
  BY DEF FetchRows
<1>7. \A r : OnPage(r) <=> r <= total /\ K <= Position(r) /\ Position(r) < K + L
  BY DEF OnPage
<1>8. over' => c * L >= counted
  BY <1>2, <1>3, <1>5, PagesSpan DEF PageTypeOK
<1>9. ~ over' => c * L < counted
  <2>1. TotalPage(size, counted) \in Nat
    BY <1>2, PagesSpan DEF PageTypeOK
  <2> QED BY <2>1, <1>2, <1>3, <1>5, PagesSpan DEF PageTypeOK
<1> HIDE DEF c, K, L
<1>10. K = Gone /\ K \in Nat /\ c * L = K + L
  <2>1. page < 2 => K = 0
    BY <1>1, <1>3, <1>4
  <2>2. page >= 2 => K = (page - 1) * L
    BY <1>3, <1>4
  <2>3. K = Gone /\ K \in Nat
    BY <2>1, <2>2, GoneIs DEF PageTypeOK, L
  <2>4. c * L = (c - 1) * L + L
    BY <1>1, <1>3
  <2> QED BY <1>4, <2>3, <2>4
<1>11. PageTypeOK'
  BY <1>3, <1>5, <1>6 DEF FetchRows, PageTypeOK
<1>12. Gone' = K + L
  <2>1. Gone' = (page' - 1) * Limit(size')
    <3>1. PageTypeOK' => (page' >= 2 => Gone' = (page' - 1) * Limit(size'))
      <4>1. TotalPage(size, 1) # 0
        BY <1>1, PagesSpan, 0 * L = 0 DEF PageTypeOK, L
      <4>2. CurrentPage(page', size, 1) = page'
        BY <4>1, <1>3, <1>5 DEF CurrentPage
      <4> QED BY <4>2, <1>5 DEF Gone
    <3> QED BY <3>1, <1>11, <1>3, <1>5
  <2>2. page' - 1 = c
    BY <1>3, <1>5
  <2> QED BY <1>5, <1>10, <2>1, <2>2 DEF L
<1>13. PageExists'
  BY <1>2, <1>3, <1>5, <1>8, <1>9, <1>10, <1>12, <1>1 DEF FetchRows, PageTypeOK, PageExists
<1>14. SeenOldest'
  <2> SUFFICES ASSUME ~ desc
               PROVE  /\ \A r \in 1..began : shown'[r] = IF r <= Gone' THEN 1 ELSE 0
                      /\ over' => began <= Gone'
    BY DEF FetchRows, SeenOldest
  <2>1. ASSUME NEW r \in 1..began PROVE shown'[r] = IF r <= Gone' THEN 1 ELSE 0
    <3>1. r \in 1..MaxRows /\ r <= total /\ shown[r] = IF r <= K THEN 1 ELSE 0
      BY <1>10, <2>1 DEF PageTypeOK, SeenOldest, PagingAssumption
    <3>2. OnPage(r) <=> K <= r - 1 /\ r - 1 < K + L
      BY <1>7, <3>1 DEF Position
    <3>3. shown'[r] = IF OnPage(r) THEN shown[r] + 1 ELSE shown[r]
      BY <1>6, <3>1
    <3> QED BY <1>1, <1>10, <1>12, <3>1, <3>2, <3>3
  <2>2. over' => began <= Gone'
    BY <1>1, <1>2, <1>8, <1>10, <1>12 DEF PageTypeOK
  <2> QED BY <2>1, <2>2
<1>15. SeenNewest'
  <2> SUFFICES ASSUME desc, ~ between, NEW r \in 1..began
               PROVE  shown'[r] >= 1 \/ (~ over' /\ total - r >= Gone')
    BY DEF FetchRows, SeenNewest
  <2>1. r \in 1..MaxRows /\ r <= total /\ shown[r] \in Nat
    BY DEF PageTypeOK, PagingAssumption
  <2>2. shown'[r] = IF OnPage(r) THEN shown[r] + 1 ELSE shown[r]
    BY <1>6, <2>1
  <2>3. shown[r] >= 1 \/ total - r >= K
    BY <1>2, <1>10 DEF SeenNewest
  <2>4. OnPage(r) <=> K <= total - r /\ total - r < K + L
    BY <1>7, <2>1 DEF Position
  <2>5. over' => K + L >= total
    BY <1>2, <1>8, <1>10 DEF FetchRows, PageExists
  <2>6. total \in Nat /\ r \in Nat /\ r >= 1
    BY DEF PageTypeOK, PagingAssumption
  <2>7. CASE shown[r] >= 1 \/ OnPage(r)
    BY <2>1, <2>2, <2>7
  <2>8. CASE ~ OnPage(r) /\ ~ (shown[r] >= 1)
    <3>1. total - r >= K + L
      <4>1. total - r >= K /\ ~ (K <= total - r /\ total - r < K + L)
        BY <2>3, <2>4, <2>8
      <4>2. K \in Nat /\ total - r \in Int
        BY <1>10, <2>6
      <4> QED BY <1>1, <4>1, <4>2
    <3>2. ~ (K + L >= total)
      BY <1>1, <1>10, <2>6, <3>1
    <3> QED BY <1>12, <2>5, <3>1, <3>2
  <2> QED BY <2>7, <2>8
<1> QED BY <1>11, <1>13, <1>14, <1>15

(* Every step keeps the walk complete. *)
LEMMA PageStep == PagingAssumption /\ PageInv /\ [PageNext]_pageVars => PageInv'
<1> SUFFICES ASSUME PagingAssumption, PageInv, [PageNext]_pageVars PROVE PageInv'
  OBVIOUS
<1>1. CASE UNCHANGED pageVars
  BY <1>1 DEF pageVars, PageInv, PageTypeOK, PageExists, SeenOldest, SeenNewest, Gone
<1>2. CASE PageNext
  BY <1>2, AddRowOK, CountRowsOK, FetchRowsOK DEF PageNext
<1> QED BY <1>1, <1>2

(* The walk that ends has shown every row that was there when it began.    *)
LEMMA PageInvWalks == PagingAssumption /\ PageInv => WalksMissNothing
<1> SUFFICES ASSUME PagingAssumption, PageInv, over, NEW r \in 1..began
             PROVE  IF desc THEN shown[r] >= 1 \/ between ELSE shown[r] = 1
  BY DEF WalksMissNothing
<1>1. Gone \in Nat /\ r \in Nat
  BY GoneIs DEF PageInv, PageTypeOK
<1> QED BY <1>1 DEF PageInv, SeenOldest, SeenNewest, PageTypeOK

(* Whatever page size a client asks for, and however many rows come while it
   walks through the pages, the walk misses no row that was there at its start
   (pkg/paging/paging.go:21-40)                                             *)
THEOREM WalksMissNothingAlways == PageSpec => []WalksMissNothing
<1>1. PageInit => PageInv
  BY PagingAssumption, PageInitInv
<1>2. PageInv /\ [PageNext]_pageVars => PageInv'
  BY PagingAssumption, PageStep
<1>3. PageInv => WalksMissNothing
  BY PagingAssumption, PageInvWalks
<1> QED BY <1>1, <1>2, <1>3, PTL DEF PageSpec

=============================================================================
