--------------------------- MODULE CatalogueProofs ---------------------------
(***************************************************************************)
(* Theorems about the catalogue: for any number of products, categories,   *)
(* users, handlers and requests.                                           *)
(***************************************************************************)
EXTENDS Catalogue, Integers, TLAPS

(* What a handler's record holds, whatever it is at *)
Calls ==
    [at : Steps, p : Maybe(Pages \cup Categories), u : Maybe(Reviewers),
     row : Maybe(Views \cup Lists \cup Rows \cup Reviews \cup Ratings),
     old : SUBSET {"stock", "rating", "page"}, todo : SUBSET Pages,
     sets : BOOLEAN, rest : BOOLEAN]

(* What a handler read is as it was, or the handler has been told *)
UpToDate(c) ==
    /\ c.at \in {"save", "rewrite", "erase", "aggregate", "rate"} => product[c.p].live
    /\ c.at = "save" /\ "rating" \notin c.old => c.row.rating = product[c.p].rating
    /\ c.at = "save" /\ "stock" \notin c.old /\ <<"stock", c.p>> \notin late =>
         c.row.reserved = held[c.p] /\ (c.sets \/ c.row.stock = owned[c.p])
    /\ c.at = "rate" /\ "rating" \notin c.old => c.row = ScoresOf(c.p)
    /\ c.at = "fill" /\ "page" \notin c.old => c.row = PageNow(c.p)

CallOK(c) == c \in Calls /\ InHand(c) /\ UpToDate(c)

(* Nobody knows of a product that does not exist *)
Unheard(p) == ~ product[p].live => held[p] = 0 /\ \A u \in Reviewers : review[p][u] = None

(* A request is on its way to remove page k for what it wrote *)
Cleans(c, k) ==
    /\ k \in {c.p, "list"}
    /\ c.at \in {"reread", "purge"} \/ (c.at = "delete" /\ k \in c.todo)

Covered(k) ==
    \/ cache[k] \in {None, PageNow(k)}
    \/ <<"page", k>> \in late
    \/ \E h \in Handlers : Cleans(call[h], k)

(* Every product's category exists *)
CategoriesHold ==
    /\ category \subseteq Categories
    /\ \A p \in Products :
         product[p].live /\ product[p].category # None => product[p].category \in category

CacheTyped ==
    /\ cache \in [Pages -> Maybe(Views \cup Lists)]
    /\ \A k \in Pages : cache[k] # None => cache[k] \in PageOf(k)

RowsTyped ==
    /\ product \in [Products -> Rows]
    /\ review \in [Products -> [Reviewers -> Maybe(Reviews)]]
    /\ held \in [Products -> Nat] /\ owned \in [Products -> Int]

CatTyped ==
    /\ RowsTyped /\ CategoriesHold /\ CacheTyped
    /\ call \in [Handlers -> Calls]
    /\ left \in 0..MaxRequests

CountersExact(p) ==
    product[p].live /\ <<"stock", p>> \notin late =>
      product[p].reserved = held[p] /\ product[p].stock = owned[p]

Rates(c, p) == c.at \in {"aggregate", "rate"} /\ c.p = p

RatedBy(p) == \E h \in Handlers : Rates(call[h], p)

RatingExact(p) ==
    product[p].live /\ <<"rating", p>> \notin late /\ ~ RatedBy(p) =>
      product[p].rating = ScoresOf(p)

RowOK(p) == Unheard(p) /\ CountersExact(p) /\ RatingExact(p)

CatInv ==
    /\ CatTyped
    /\ \A h \in Handlers : CallOK(call[h])
    /\ \A p \in Products : RowOK(p)
    /\ \A k \in Pages : Covered(k)

-----------------------------------------------------------------------------

(* A handler without a request relies on nothing. *)
LEMMA IdleOK == Idle \in Calls /\ InHand(Idle) /\ Idle.at = "idle" /\ Idle.old = {}
BY DEF Idle, Calls, Steps, InHand, Maybe

(* What a page shows now is an answer of its kind. *)
LEMMA PageTyped ==
    ASSUME CatTyped, NEW k \in Pages
    PROVE  /\ PageNow(k) \in Maybe(PageOf(k))
           /\ k \notin Products => k = "list" /\ PageNow(k) # None
<1>1. ASSUME NEW p \in Products PROVE Shown(p) \in Maybe(Views)
  BY DEF CatTyped, RowsTyped, Shown, Maybe, Views, Rows
<1>2. k \in Products \/ (k = "list" /\ k \notin Products)
  BY CatalogueAssumption DEF Pages
<1>3. [p \in Products |-> Shown(p)] \in Lists
  BY <1>1 DEF Lists
<1> QED BY <1>1, <1>2, <1>3, CatalogueAssumption DEF PageNow, PageOf, Maybe

(* What the invariant says is what the properties say, and more. *)
LEMMA CatInvImplies ==
    CatInv => CatTypeOK /\ LoneEditsKeepCounters /\ LoneRatingsAreExact /\ LoneEntriesAreFresh
<1> SUFFICES ASSUME CatInv
             PROVE  CatTypeOK /\ LoneEditsKeepCounters /\ LoneRatingsAreExact /\ LoneEntriesAreFresh
  OBVIOUS
<1>1. CatTypeOK
  BY DEF CatInv, CatTyped, RowsTyped, CategoriesHold, CacheTyped, CatTypeOK, CallOK, Calls
<1>2. LoneEditsKeepCounters
  BY DEF CatInv, RowOK, CountersExact, LoneEditsKeepCounters
<1>3. LoneRatingsAreExact
  BY DEF CatInv, RowOK, RatingExact, RatedBy, Rates, LoneRatingsAreExact
<1>4. LoneEntriesAreFresh
  BY DEF CatInv, Covered, Cleans, LoneEntriesAreFresh
<1> QED BY <1>1, <1>2, <1>3, <1>4

(* At the start nobody has asked or cached anything. *)
LEMMA CatInitInv == CatInit => CatInv
<1> SUFFICES ASSUME CatInit PROVE CatInv
  OBVIOUS
<1>1. /\ product \in [Products -> Rows] /\ category = Categories
      /\ review = [p \in Products |-> [u \in Reviewers |-> None]]
      /\ cache = [k \in Pages |-> None] /\ call = [h \in Handlers |-> Idle]
      /\ left = MaxRequests /\ late = {} /\ product = FirstRows
      /\ held = [p \in Products |-> FirstRows[p].reserved]
      /\ owned = [p \in Products |-> FirstRows[p].stock]
  BY CatalogueAssumption DEF CatInit
<1>2. \A p \in Products : FirstRows[p].reserved \in Nat /\ FirstRows[p].stock \in Int
                          /\ FirstRows[p].category \in Maybe(Categories)
  <2> TAKE p \in Products
  <2>1. FirstRows[p] \in Rows
    BY CatalogueAssumption
  <2>2. FirstRows[p].reserved \in 0..MaxStock /\ FirstRows[p].stock \in 0..MaxStock
        /\ FirstRows[p].category \in Maybe(Categories)
    BY <2>1 DEF Rows
  <2> QED BY <2>2, CatalogueAssumption
<1>3. CatTyped
  <2>1. \A p \in Products :
          product[p].live /\ product[p].category # None => product[p].category \in category
    BY <1>1, <1>2 DEF Maybe
  <2>2. held \in [Products -> Nat] /\ owned \in [Products -> Int]
    BY <1>1, <1>2
  <2>3. review \in [Products -> [Reviewers -> Maybe(Reviews)]]
    BY <1>1 DEF Maybe
  <2>4. /\ cache \in [Pages -> Maybe(Views \cup Lists)]
        /\ \A k \in Pages : cache[k] # None => cache[k] \in PageOf(k)
    BY <1>1 DEF Maybe
  <2>5. call \in [Handlers -> Calls] /\ left \in 0..MaxRequests /\ category \subseteq Categories
    BY <1>1, IdleOK, CatalogueAssumption, RequestsAssumption
  <2> QED BY <1>1, <2>1, <2>2, <2>3, <2>4, <2>5
    DEF CatTyped, RowsTyped, CategoriesHold, CacheTyped
<1>4. \A h \in Handlers : CallOK(call[h])
  BY <1>1, IdleOK DEF CallOK, UpToDate
<1>5. \A p \in Products : Unheard(p)
  BY <1>1, CatalogueAssumption DEF Unheard
<1>6. \A p \in Products : CountersExact(p)
  BY <1>1 DEF CountersExact
<1>7. \A p \in Products : RatingExact(p)
  <2>1. \A p \in Products : ScoresOf(p) = Unrated /\ product[p].rating = Unrated
    BY <1>1, CatalogueAssumption DEF ScoresOf, Unrated
  <2> QED BY <2>1 DEF RatingExact
<1>8. \A k \in Pages : Covered(k)
  BY <1>1 DEF Covered
<1> QED BY <1>3, <1>4, <1>5, <1>6, <1>7, <1>8 DEF CatInv, RowOK

-----------------------------------------------------------------------------
(* What a step means to the handlers that do not take it *)

(* What a handler may be told of *)
Notes == {"stock", "rating", "page"}

Marked(c, p, S, what) ==
    IF c.at \in S /\ c.p \in {p, "list"} THEN [c EXCEPT !.old = @ \cup what] ELSE c

(* The other products are as they were *)
Stays(q) ==
    /\ product[q].live => product'[q].live
    /\ product'[q].rating = product[q].rating
    /\ held'[q] = held[q] /\ owned'[q] = owned[q]
    /\ review'[q] = review[q]
    /\ Shown(q)' = Shown(q)

(* What has changed about p is something that the readers at S are told *)
Tells(p, S, what) ==
    /\ product[p].live => product'[p].live
    /\ product[p].live =>
         product'[p].rating = product[p].rating \/ ("save" \in S /\ "rating" \in what)
    /\ product[p].live =>
         (held'[p] = held[p] /\ owned'[p] = owned[p]) \/ ("save" \in S /\ "stock" \in what)
    /\ product[p].live =>
         review'[p] = review[p] \/ ("rate" \in S /\ "rating" \in what)
    /\ Shown(p)' = Shown(p) \/ ("fill" \in S /\ "page" \in what)

StockLateStays == \A q \in Products : <<"stock", q>> \in late => <<"stock", q>> \in late'

Moves(p, S, what) ==
    /\ what \in SUBSET Notes
    /\ \A q \in Products \ {p} : Stays(q)
    /\ p \in Products => Tells(p, S, what)
    /\ StockLateStays

(* d is c with a mark, perhaps *)
Told(c, d, p, S, what) ==
    /\ d \in Calls /\ d.at = c.at /\ d.p = c.p /\ d.u = c.u /\ d.row = c.row
    /\ d.todo = c.todo /\ d.sets = c.sets /\ d.rest = c.rest
    /\ c.old \subseteq d.old
    /\ c.at \in S /\ c.p \in {p, "list"} => what \subseteq d.old

(* A mark changes nothing else about a call. *)
LEMMA MarkedIs ==
    ASSUME NEW c \in Calls, NEW p, NEW S, NEW what \in SUBSET Notes
    PROVE  Told(c, Marked(c, p, S, what), p, S, what)
BY DEF Marked, Calls, Told, Notes

(* A page shows the same as long as its products do. *)
LEMMA PageStays ==
    ASSUME NEW k \in Pages, \A q \in Products : (k = q \/ k = "list") => Shown(q)' = Shown(q)
    PROVE  PageNow(k)' = PageNow(k)
<1>1. CASE k \in Products
  BY <1>1 DEF PageNow
<1>2. CASE k \notin Products
  <2>1. k = "list"
    BY <1>2 DEF Pages
  <2>2. [q \in Products |-> Shown(q)'] = [q \in Products |-> Shown(q)]
    BY <2>1
  <2> QED BY <1>2, <2>2 DEF PageNow
<1> QED BY <1>1, <1>2

(* A call that another's step does not touch but for the mark relies on what is
   as it was or what it is told of. *)
LEMMA OthersUpToDate ==
    ASSUME CatInv, NEW g \in Handlers, NEW p, NEW S, NEW what, Moves(p, S, what),
           NEW c, c = call[g], NEW d, d = Marked(c, p, S, what)
    PROVE  CallOK(d)'
<1>1. c \in Calls /\ InHand(c) /\ UpToDate(c)
  BY DEF CatInv, CallOK
<1>2. /\ d \in Calls /\ d.at = c.at /\ d.p = c.p /\ d.u = c.u /\ d.row = c.row
      /\ d.todo = c.todo /\ d.sets = c.sets /\ d.rest = c.rest
      /\ c.old \subseteq d.old
      /\ c.at \in S /\ c.p \in {p, "list"} => what \subseteq d.old
  <2>1. what \in SUBSET Notes
    BY DEF Moves
  <2>2. Told(c, d, p, S, what)
    BY <1>1, <2>1, MarkedIs
  <2> QED BY <2>2 DEF Told
<1>3. InHand(d)
  BY <1>1, <1>2 DEF InHand, Calls
<1>4. ASSUME c.at \in {"save", "rewrite", "erase", "aggregate", "rate"}
      PROVE  c.p \in Products /\ product[c.p].live /\ (c.p = p \/ Stays(c.p))
  BY <1>1, <1>4 DEF InHand, UpToDate, Moves
<1>5. d.at \in {"save", "rewrite", "erase", "aggregate", "rate"} => product'[d.p].live
  BY <1>2, <1>4 DEF Moves, Stays, Tells
<1>6. d.at = "save" /\ "rating" \notin d.old => d.row.rating = product'[d.p].rating
  BY <1>1, <1>2, <1>4 DEF Moves, Stays, Tells, UpToDate
<1>7. d.at = "save" /\ "stock" \notin d.old /\ <<"stock", d.p>> \notin late' =>
         d.row.reserved = held'[d.p] /\ (d.sets \/ d.row.stock = owned'[d.p])
  <2> SUFFICES ASSUME c.at = "save", "stock" \notin d.old, <<"stock", c.p>> \notin late'
               PROVE  d.row.reserved = held'[d.p] /\ (d.sets \/ d.row.stock = owned'[d.p])
    BY <1>2
  <2>1. "stock" \notin c.old /\ <<"stock", c.p>> \notin late
    BY <1>2, <1>4 DEF Moves, StockLateStays
  <2>2. c.row.reserved = held[c.p] /\ (c.sets \/ c.row.stock = owned[c.p])
    BY <1>1, <2>1 DEF UpToDate
  <2>3. held'[c.p] = held[c.p] /\ owned'[c.p] = owned[c.p]
    BY <1>2, <1>4 DEF Moves, Stays, Tells
  <2> QED BY <1>2, <2>2, <2>3
<1>8. d.at = "rate" /\ "rating" \notin d.old => d.row = ScoresOf(d.p)'
  <2> SUFFICES ASSUME c.at = "rate", "rating" \notin d.old PROVE c.row = ScoresOf(c.p)'
    BY <1>2
  <2>1. review'[c.p] = review[c.p]
    BY <1>2, <1>4 DEF Moves, Stays, Tells
  <2> QED BY <1>1, <1>2, <2>1 DEF UpToDate, ScoresOf
<1>9. d.at = "fill" /\ "page" \notin d.old => d.row = PageNow(d.p)'
  <2> SUFFICES ASSUME c.at = "fill", "page" \notin d.old PROVE c.row = PageNow(c.p)'
    BY <1>2
  <2>1. c.p \in Pages
    BY <1>1 DEF InHand
  <2>2. ASSUME NEW q \in Products, c.p = q \/ c.p = "list" PROVE Shown(q)' = Shown(q)
    BY <1>2, <2>2 DEF Moves, Stays, Tells
  <2>3. PageNow(c.p)' = PageNow(c.p)
    BY <2>1, <2>2, PageStays
  <2> QED BY <1>1, <1>2, <2>3 DEF UpToDate
<1> QED BY <1>2, <1>3, <1>5, <1>6, <1>7, <1>8, <1>9 DEF CallOK, UpToDate

(* All but h are only told of something. *)
CallsMove(h, c, p, S, what) ==
    /\ \A g \in Handlers \ {h} : call'[g] = Marked(call[g], p, S, what)
    /\ h \in Handlers => call'[h] = c

(* One handler goes on to c and the others are told: all calls are in order. *)
LEMMA ChangesOK ==
    ASSUME CatInv, NEW h, NEW c, NEW p, NEW S, NEW what, Moves(p, S, what),
           Changes(h, c, p, S, what), h \in Handlers => CallOK(c)'
    PROVE  /\ call' \in [Handlers -> Calls] /\ \A g \in Handlers : CallOK(call[g])'
           /\ CallsMove(h, c, p, S, what)
<1>1. ASSUME NEW g \in Handlers \ {h} PROVE call'[g] = Marked(call[g], p, S, what)
  BY DEF Changes, Marked
<1>2. h \in Handlers => call'[h] = c
  BY DEF Changes
<1>3. ASSUME NEW g \in Handlers PROVE CallOK(call[g])'
  <2>1. CASE g = h
    BY <1>2, <2>1
  <2>2. CASE g # h
    BY <1>1, <2>2, OthersUpToDate
  <2> QED BY <2>1, <2>2
<1>4. call' \in [Handlers -> Calls]
  <2>1. \A g \in Handlers : call'[g] \in Calls
    BY <1>3 DEF CallOK
  <2> QED BY <2>1 DEF Changes
<1> QED BY <1>1, <1>2, <1>3, <1>4 DEF CallsMove

(* A step that nobody is told of *)
LEMMA GoesChanges ==
    ASSUME CatInv, NEW h \in Handlers, NEW c, Goes(h, c)
    PROVE  Changes(h, c, None, {}, {})
BY DEF CatInv, CatTyped, Goes, Changes

-----------------------------------------------------------------------------
(* Kinds of steps *)

(* Who rates keeps at it when others take a step. *)
LEMMA RatesStay ==
    ASSUME CatInv, NEW h, NEW c, NEW p, NEW S, NEW what \in SUBSET Notes, NEW q,
           CallsMove(h, c, p, S, what),
           RatedBy(q), h \in Handlers /\ Rates(call[h], q) => Rates(c, q)
    PROVE  RatedBy(q)'
<1>1. PICK g \in Handlers : Rates(call[g], q)
  BY DEF RatedBy
<1>2. CASE g = h
  BY <1>1, <1>2 DEF RatedBy, CallsMove
<1>3. CASE g # h
  <2>1. call[g] \in Calls /\ call'[g] = Marked(call[g], p, S, what)
    BY <1>3 DEF CatInv, CallOK, CallsMove
  <2>2. Told(call[g], call'[g], p, S, what)
    BY <2>1, MarkedIs
  <2>3. Rates(call'[g], q)
    BY <1>1, <2>2 DEF Told, Rates
  <2> QED BY <2>3 DEF RatedBy
<1> QED BY <1>2, <1>3

(* A page stays covered when it, its answer and the calls for it stay. *)
LEMMA CoverKept ==
    ASSUME CatInv, NEW k \in Pages, NEW h, NEW c, NEW p, NEW S, NEW what \in SUBSET Notes,
           CallsMove(h, c, p, S, what), cache'[k] = cache[k], PageNow(k)' = PageNow(k),
           <<"page", k>> \in late => <<"page", k>> \in late',
           h \in Handlers /\ Cleans(call[h], k) =>
             Cleans(c, k) \/ <<"page", k>> \in late' \/ cache[k] = None
    PROVE  Covered(k)'
<1>1. CASE cache[k] \in {None, PageNow(k)} \/ <<"page", k>> \in late
  BY <1>1 DEF Covered
<1>2. ASSUME NEW g \in Handlers, Cleans(call[g], k) PROVE Covered(k)'
  <2>1. CASE g = h
    BY <1>2, <2>1 DEF Covered, CallsMove
  <2>2. CASE g # h
    <3>1. call[g] \in Calls /\ call'[g] = Marked(call[g], p, S, what)
      BY <2>2 DEF CatInv, CallOK, CallsMove
    <3>2. Told(call[g], call'[g], p, S, what)
      BY <3>1, MarkedIs
    <3>3. Cleans(call'[g], k)
      BY <1>2, <3>2 DEF Cleans, Told
    <3> QED BY <3>3 DEF Covered
  <2> QED BY <2>1, <2>2
<1> QED BY <1>1, <1>2 DEF CatInv, Covered

(* What a step that hands on to c, keeping the products and the reviews, owes
   for the call that ends *)
HandsOn(h, c) ==
    h \in Handlers =>
      /\ CallOK(c)'
      /\ \A p \in Products : Rates(call[h], p) => Rates(c, p) \/ <<"rating", p>> \in late'

LateStays ==
    \A p \in Products :
      /\ <<"stock", p>> \in late => <<"stock", p>> \in late'
      /\ <<"rating", p>> \in late => <<"rating", p>> \in late'

(* A step that writes neither products nor reviews *)
LEMMA QuietOK ==
    ASSUME CatInv, NEW h, NEW c, Changes(h, c, None, {}, {}), HandsOn(h, c),
           left' \in 0..MaxRequests, CategoriesHold', CacheTyped', LateStays,
           UNCHANGED <<product, review, held, owned>>,
           CallsMove(h, c, None, {}, {}) => (\A k \in Pages : Covered(k))'
    PROVE  CatInv'
<1>1. Moves(None, {}, {})
  <2>1. None \notin Products
    BY CatalogueAssumption
  <2>2. StockLateStays
    BY DEF LateStays, StockLateStays
  <2>3. \A q \in Products : Stays(q)
    BY DEF Stays, Shown
  <2> QED BY <2>1, <2>2, <2>3 DEF Moves
<1>2. /\ call' \in [Handlers -> Calls] /\ \A g \in Handlers : CallOK(call[g])'
      /\ CallsMove(h, c, None, {}, {})
  BY <1>1, ChangesOK DEF HandsOn
<1>3. CatTyped'
  BY <1>2 DEF CatInv, CatTyped, RowsTyped
<1>4. ASSUME NEW p \in Products PROVE RowOK(p)'
  <2>1. RowOK(p)
    BY DEF CatInv
  <2>2. Unheard(p)'
    BY <2>1 DEF RowOK, Unheard
  <2>3. CountersExact(p)'
    BY <2>1 DEF RowOK, CountersExact, LateStays
  <2>4. ASSUME <<"rating", p>> \notin late', RatedBy(p) PROVE RatedBy(p)'
    <3>1. h \in Handlers /\ Rates(call[h], p) => Rates(c, p)
      BY <2>4 DEF HandsOn
    <3>2. {} \in SUBSET Notes
      OBVIOUS
    <3> QED BY <1>2, <2>4, <3>1, <3>2, RatesStay
  <2>5. ScoresOf(p)' = ScoresOf(p)
    BY DEF ScoresOf
  <2>6. RatingExact(p)'
    BY <2>1, <2>4, <2>5 DEF RowOK, RatingExact, LateStays
  <2> QED BY <2>2, <2>3, <2>6 DEF RowOK
<1>5. \A k \in Pages : Covered(k)'
  BY <1>2
<1> QED BY <1>2, <1>3, <1>4, <1>5 DEF CatInv

(* A handler reads, or gives up, and is going to clean the pages that it was
   going to clean, if they are there and it did not leave word *)
LEMMA ReadOK ==
    ASSUME CatInv, NEW h \in Handlers, NEW c, Goes(h, c), CallOK(c)',
           left' \in 0..MaxRequests,
           UNCHANGED <<product, review, category, cache, held, owned>>, late \subseteq late',
           \A p \in Products : Rates(call[h], p) => Rates(c, p) \/ <<"rating", p>> \in late',
           \A k \in Pages : Cleans(call[h], k) =>
              Cleans(c, k) \/ <<"page", k>> \in late' \/ cache[k] = None
    PROVE  CatInv'
<1>1. Changes(h, c, None, {}, {})
  BY GoesChanges
<1>2. HandsOn(h, c)
  BY DEF HandsOn
<1>3. ASSUME CallsMove(h, c, None, {}, {}), NEW k \in Pages
      PROVE  Covered(k)'
  <2>1. PageNow(k)' = PageNow(k)
    BY DEF PageNow, Shown
  <2>2. {} \in SUBSET Notes
    OBVIOUS
  <2>3. Cleans(call[h], k) => Cleans(c, k) \/ <<"page", k>> \in late' \/ cache[k] = None
    OBVIOUS
  <2>4. cache'[k] = cache[k] /\ (<<"page", k>> \in late => <<"page", k>> \in late')
    OBVIOUS
  <2> QED BY <1>3, <2>1, <2>2, <2>3, <2>4, CoverKept
<1>4. CategoriesHold' /\ CacheTyped'
  BY DEF CatInv, CatTyped, CategoriesHold, CacheTyped
<1>5. LateStays
  BY DEF LateStays
<1> QED BY <1>1, <1>2, <1>3, <1>4, <1>5, QuietOK

(* The categories change, but those of the products are there *)
LEMMA CategoryOK ==
    ASSUME CatInv, NEW h \in Handlers, NEW c, Goes(h, c), c = call[h] \/ c = Idle,
           call[h].at \in {"idle", "resave"}, left' \in 0..MaxRequests, CategoriesHold',
           UNCHANGED <<product, review, cache, held, owned, late>>
    PROVE  CatInv'
<1>1. CallOK(c)'
  <2>1. CallOK(call[h]) /\ CallOK(Idle)
    BY IdleOK DEF CatInv, CallOK, UpToDate
  <2>2. CallOK(c)
    BY <2>1
  <2>3. ScoresOf(c.p)' = ScoresOf(c.p) /\ PageNow(c.p)' = PageNow(c.p)
    BY DEF ScoresOf, PageNow, Shown
  <2> QED BY <2>2, <2>3 DEF CallOK, UpToDate
<1>2. Changes(h, c, None, {}, {})
  BY GoesChanges
<1>3. HandsOn(h, c)
  BY <1>1 DEF HandsOn, Rates
<1>4. ASSUME CallsMove(h, c, None, {}, {}), NEW k \in Pages
      PROVE  Covered(k)'
  <2>1. PageNow(k)' = PageNow(k)
    BY DEF PageNow, Shown
  <2>2. {} \in SUBSET Notes
    OBVIOUS
  <2>3. ~ Cleans(call[h], k)
    BY DEF Cleans
  <2>4. cache'[k] = cache[k] /\ (<<"page", k>> \in late => <<"page", k>> \in late')
    OBVIOUS
  <2> QED BY <1>4, <2>1, <2>2, <2>3, <2>4, CoverKept
<1>5. CacheTyped'
  BY DEF CatInv, CatTyped, CacheTyped
<1>6. LateStays
  BY DEF LateStays
<1> QED BY <1>2, <1>3, <1>4, <1>5, <1>6, QuietOK

(* A cached page is replaced or removed *)
LEMMA CacheOK ==
    ASSUME CatInv, NEW h, NEW c, Changes(h, c, None, {}, {}),
           h \in Handlers => CallOK(c)' /\ call[h].at \notin {"aggregate", "rate"},
           NEW k \in Pages, NEW v \in Maybe(PageOf(k)), cache' = [cache EXCEPT ![k] = v],
           late' \in {late \cup {<<"page", k>>}, late \ {<<"page", k>>}},
           v = None \/ v = PageNow(k) \/ <<"page", k>> \in late',
           h \in Handlers => \A j \in Pages \ {k} : Cleans(call[h], j) => Cleans(c, j),
           UNCHANGED <<product, review, category, left, held, owned>>
    PROVE  CatInv'
<1>1. cache \in [Pages -> Maybe(Views \cup Lists)]
  BY DEF CatInv, CatTyped, CacheTyped
<1>2. cache'[k] = v /\ \A j \in Pages \ {k} : cache'[j] = cache[j]
  BY <1>1
<1>3. CacheTyped'
  <2>1. v \in Maybe(Views \cup Lists)
    BY DEF PageOf, Maybe
  <2>2. cache' \in [Pages -> Maybe(Views \cup Lists)]
    BY <1>1, <2>1
  <2>3. ASSUME NEW j \in Pages, cache'[j] # None PROVE cache'[j] \in PageOf(j)
    BY <1>2, <2>3 DEF CatInv, CatTyped, CacheTyped, Maybe
  <2> QED BY <2>2, <2>3 DEF CacheTyped, PageOf
<1>4. HandsOn(h, c)
  BY DEF HandsOn, Rates
<1>5. ASSUME CallsMove(h, c, None, {}, {}), NEW j \in Pages
      PROVE  Covered(j)'
  <2>1. PageNow(j)' = PageNow(j)
    BY DEF PageNow, Shown
  <2>2. CASE j = k
    BY <1>2, <2>1, <2>2 DEF Covered
  <2>3. CASE j # k
    <3>1. /\ cache'[j] = cache[j] /\ {} \in SUBSET Notes
          /\ <<"page", j>> \in late => <<"page", j>> \in late'
      BY <1>2, <2>3
    <3>2. h \in Handlers /\ Cleans(call[h], j) => Cleans(c, j)
      BY <2>3
    <3> QED BY <1>5, <2>1, <3>1, <3>2, CoverKept
  <2> QED BY <2>2, <2>3
<1>6. LateStays
  BY DEF LateStays
<1>7. left' \in 0..MaxRequests /\ CategoriesHold'
  BY DEF CatInv, CatTyped, CategoriesHold
<1> QED BY <1>3, <1>4, <1>5, <1>6, <1>7, QuietOK

(* What the row of p says after the step *)
RowWritten(p) ==
    /\ product'[p].live
    /\ product'[p].category # None => product'[p].category \in category
    /\ <<"stock", p>> \notin late' =>
         product'[p].reserved = held'[p] /\ product'[p].stock = owned'[p]

(* The pages that show p are what they were, or somebody cleans them *)
PagesKept(h, c, p) ==
    \A k \in {p, "list"} :
      Shown(p)' = Shown(p) \/ <<"page", k>> \in late' \/ (h \in Handlers /\ Cleans(c, k))

(* A step of h, or of the order service, that writes the row of p and moves the
   counters *)
LEMMA WriteOK ==
    ASSUME CatInv, NEW p \in Products, NEW h, NEW c, NEW S, NEW what,
           Changes(h, c, p, S, what), what \in SUBSET Notes, Tells(p, S, what),
           h \in Handlers => CallOK(c)',
           h \in Handlers => call[h].at \notin {"aggregate", "reread", "purge", "delete"},
           h \in Handlers /\ call[h].at = "rate" => call[h].p = p,
           NEW row \in Rows, product' = [product EXCEPT ![p] = row],
           NEW n \in Nat, held' = [held EXCEPT ![p] = n],
           NEW m \in Int, owned' = [owned EXCEPT ![p] = m],
           UNCHANGED <<review, category, cache>>, late \subseteq late',
           left' \in 0..MaxRequests, RowWritten(p), PagesKept(h, c, p),
           CallsMove(h, c, p, S, what) => RatingExact(p)'
    PROVE  CatInv'
<1>1. RowsTyped /\ CategoriesHold /\ CacheTyped
  BY DEF CatInv, CatTyped
<1>2. /\ product'[p] = row /\ held'[p] = n /\ owned'[p] = m
      /\ \A q \in Products \ {p} :
           product'[q] = product[q] /\ held'[q] = held[q] /\ owned'[q] = owned[q]
  BY <1>1 DEF RowsTyped
<1>3. \A q \in Products \ {p} : Stays(q)
  BY <1>2 DEF Stays, Shown
<1>4. StockLateStays
  BY DEF StockLateStays
<1>5. Moves(p, S, what)
  BY <1>3, <1>4 DEF Moves
<1>6. /\ call' \in [Handlers -> Calls] /\ \A g \in Handlers : CallOK(call[g])'
      /\ CallsMove(h, c, p, S, what)
  BY <1>5, ChangesOK
<1>7. RowsTyped'
  BY <1>1 DEF RowsTyped
<1>8. CategoriesHold'
  BY <1>1, <1>2 DEF CategoriesHold, RowWritten
<1>9. CacheTyped'
  BY <1>1 DEF CacheTyped
<1>10. ASSUME NEW q \in Products PROVE RowOK(q)'
  <2>1. RowOK(q)
    BY DEF CatInv
  <2>2. CASE q = p
    <3>1. Unheard(p)' /\ CountersExact(p)'
      BY DEF Unheard, CountersExact, RowWritten
    <3> QED BY <1>6, <2>2, <3>1 DEF RowOK
  <2>3. CASE q # p
    <3>1. product'[q] = product[q] /\ held'[q] = held[q] /\ owned'[q] = owned[q]
      BY <1>2, <2>3
    <3>2. Unheard(q)'
      BY <2>1, <3>1 DEF RowOK, Unheard
    <3>3. CountersExact(q)'
      BY <2>1, <3>1 DEF RowOK, CountersExact
    <3>4. RatedBy(q) => RatedBy(q)'
      <4>1. h \in Handlers => ~ Rates(call[h], q)
        BY <2>3 DEF Rates
      <4> QED BY <1>6, <4>1, RatesStay
    <3>5. ScoresOf(q)' = ScoresOf(q)
      BY DEF ScoresOf
    <3>6. RatingExact(q)'
      BY <2>1, <3>1, <3>4, <3>5 DEF RowOK, RatingExact
    <3> QED BY <3>2, <3>3, <3>6 DEF RowOK
  <2> QED BY <2>2, <2>3
<1>11. ASSUME NEW k \in Pages PROVE Covered(k)'
  <2>1. CASE k \in {p, "list"} /\ Shown(p)' # Shown(p)
    <3>1. <<"page", k>> \in late' \/ (h \in Handlers /\ Cleans(call'[h], k))
      BY <1>6, <2>1 DEF PagesKept, CallsMove
    <3> QED BY <3>1 DEF Covered
  <2>2. CASE k \notin {p, "list"} \/ Shown(p)' = Shown(p)
    <3>1. \A q \in Products : (k = q \/ k = "list") => Shown(q)' = Shown(q)
      BY <1>3, <2>2 DEF Stays
    <3>2. PageNow(k)' = PageNow(k)
      BY <3>1, PageStays
    <3>3. h \in Handlers => ~ Cleans(call[h], k)
      BY DEF Cleans
    <3>4. cache'[k] = cache[k] /\ (<<"page", k>> \in late => <<"page", k>> \in late')
      OBVIOUS
    <3> QED BY <1>6, <3>2, <3>3, <3>4, CoverKept
  <2> QED BY <2>1, <2>2
<1> QED BY <1>6, <1>7, <1>8, <1>9, <1>10, <1>11 DEF CatInv, CatTyped

(* A review of p is written, and h goes on to compute the rating *)
LEMMA ReviewOK ==
    ASSUME CatInv, NEW p \in Products, NEW h \in Handlers, NEW u \in Reviewers,
           NEW r \in Maybe(Reviews), product[p].live,
           review' = [review EXCEPT ![p][u] = r], Rerate(h, p),
           call[h].at \notin {"reread", "purge", "delete", "aggregate", "rate"},
           left' \in 0..MaxRequests,
           UNCHANGED <<product, category, cache, held, owned, late>>
    PROVE  CatInv'
<1> DEFINE c == [Idle EXCEPT !.at = "aggregate", !.p = p]
<1>1. RowsTyped /\ CategoriesHold /\ CacheTyped
  BY DEF CatInv, CatTyped
<1>2. review' \in [Products -> [Reviewers -> Maybe(Reviews)]]
      /\ \A q \in Products \ {p} : review'[q] = review[q]
  BY <1>1 DEF RowsTyped
<1>3. c \in Calls /\ c.at = "aggregate" /\ c.p = p /\ c.old = {} /\ c.todo = {}
  BY DEF Idle, Calls, Steps, Maybe, Pages
<1>4. Changes(h, c, p, {"rate"}, {"rating"})
  BY DEF Rerate
<1> HIDE DEF c
<1>5. CallOK(c)'
  BY <1>3 DEF CallOK, InHand, UpToDate
<1>6. \A q \in Products \ {p} : Stays(q)
  BY <1>2 DEF Stays, Shown
<1>7. StockLateStays /\ Tells(p, {"rate"}, {"rating"})
  BY DEF StockLateStays, Tells, Shown
<1>8. {"rating"} \in SUBSET Notes
  BY DEF Notes
<1>9. Moves(p, {"rate"}, {"rating"})
  BY <1>6, <1>7, <1>8 DEF Moves
<1>10. /\ call' \in [Handlers -> Calls] /\ \A g \in Handlers : CallOK(call[g])'
       /\ CallsMove(h, c, p, {"rate"}, {"rating"})
  BY <1>4, <1>5, <1>9, ChangesOK
<1>11. RowsTyped' /\ CategoriesHold' /\ CacheTyped'
  BY <1>1, <1>2 DEF RowsTyped, CategoriesHold, CacheTyped
<1>12. ASSUME NEW q \in Products PROVE RowOK(q)'
  <2>1. RowOK(q)
    BY DEF CatInv
  <2>2. Unheard(q)'
    BY <1>2, <2>1 DEF RowOK, Unheard
  <2>3. CountersExact(q)'
    BY <2>1 DEF RowOK, CountersExact
  <2>4. CASE q = p
    <3>1. Rates(call'[h], p)
      BY <1>3, <1>10 DEF CallsMove, Rates
    <3>2. RatingExact(p)'
      BY <3>1 DEF RatingExact, RatedBy
    <3> QED BY <2>2, <2>3, <2>4, <3>2 DEF RowOK
  <2>5. CASE q # p
    <3>1. RatedBy(q) => RatedBy(q)'
      <4>1. ~ Rates(call[h], q)
        BY DEF Rates
      <4> QED BY <1>8, <1>10, <4>1, RatesStay
    <3>2. ScoresOf(q)' = ScoresOf(q)
      BY <1>2, <2>5 DEF ScoresOf
    <3>3. RatingExact(q)'
      BY <2>1, <3>1, <3>2 DEF RowOK, RatingExact
    <3> QED BY <2>2, <2>3, <3>3 DEF RowOK
  <2> QED BY <2>4, <2>5
<1>13. ASSUME NEW k \in Pages PROVE Covered(k)'
  <2>1. PageNow(k)' = PageNow(k)
    BY DEF PageNow, Shown
  <2>2. ~ Cleans(call[h], k)
    BY DEF Cleans
  <2>3. cache'[k] = cache[k] /\ (<<"page", k>> \in late => <<"page", k>> \in late')
    OBVIOUS
  <2> QED BY <1>8, <1>10, <2>1, <2>2, <2>3, CoverKept
<1> QED BY <1>10, <1>11, <1>12, <1>13 DEF CatInv, CatTyped

-----------------------------------------------------------------------------
(* The steps that only read *)

(* At these steps a handler relies on nothing that it has read. *)
LEMMA RestingOK ==
    ASSUME NEW c \in Calls, InHand(c),
           c.at \in {"idle", "find", "reread", "purge", "delete", "resave"}
    PROVE  CallOK(c)'
BY DEF CallOK, InHand, UpToDate

(* A request arrives and reads. *)
LEMMA ArriveOK ==
    ASSUME CatInv, NEW h \in Handlers, NEW c, Arrive(h), Goes(h, c), CallOK(c)',
           UNCHANGED <<product, category, review, cache, held, owned, late>>
    PROVE  CatInv'
<1>1. left' \in 0..MaxRequests
  BY RequestsAssumption DEF Arrive, NextRequest, CatInv, CatTyped
<1>2. call[h].at = "idle"
  BY DEF Arrive, At
<1>3. \A p \in Products : ~ Rates(call[h], p)
  BY <1>2 DEF Rates
<1>4. \A k \in Pages : ~ Cleans(call[h], k)
  BY <1>2 DEF Cleans
<1> QED BY <1>1, <1>3, <1>4, ReadOK

(* GetProduct preserves the invariant. *)
LEMMA GetProductOK ==
    ASSUME CatInv, NEW h \in Handlers, NEW p \in Products, GetProduct(h, p)
    PROVE  CatInv'
<1> DEFINE c == [Idle EXCEPT !.at = "find", !.p = p]
<1>1. c \in Calls /\ InHand(c) /\ c.at = "find"
  BY DEF Idle, Calls, Steps, InHand, Maybe, Pages
<1>2. Arrive(h) /\ Goes(h, c)
      /\ UNCHANGED <<product, category, review, cache, held, owned, late>>
  BY DEF GetProduct
<1> HIDE DEF c
<1>3. CallOK(c)'
  BY <1>1, RestingOK
<1> QED BY <1>2, <1>3, ArriveOK

(* ListProducts preserves the invariant. *)
LEMMA ListProductsOK ==
    ASSUME CatInv, NEW h \in Handlers, ListProducts(h)
    PROVE  CatInv'
<1> DEFINE c == [Idle EXCEPT !.at = "find", !.p = "list"]
<1>1. c \in Calls /\ InHand(c) /\ c.at = "find"
  BY DEF Idle, Calls, Steps, InHand, Maybe, Pages
<1>2. Arrive(h) /\ Goes(h, c)
      /\ UNCHANGED <<product, category, review, cache, held, owned, late>>
  BY DEF ListProducts
<1> HIDE DEF c
<1>3. CallOK(c)'
  BY <1>1, RestingOK
<1> QED BY <1>2, <1>3, ArriveOK

(* A category is read. *)
LEMMA CategoryReadOK ==
    ASSUME CatInv, NEW h \in Handlers, NEW k \in Categories, CategoryRead(h, k)
    PROVE  CatInv'
<1> DEFINE c == [Idle EXCEPT !.at = "resave", !.p = k]
<1>1. c \in Calls /\ InHand(c) /\ c.at = "resave"
  BY DEF Idle, Calls, Steps, InHand, Maybe, Pages
<1>2. Arrive(h) /\ Goes(h, c)
      /\ UNCHANGED <<product, category, review, cache, held, owned, late>>
  BY DEF CategoryRead
<1> HIDE DEF c
<1>3. CallOK(c)'
  BY <1>1, RestingOK
<1> QED BY <1>2, <1>3, ArriveOK

(* An edit reads the row and changes what the request has. *)
LEMMA UpdateReadOK ==
    ASSUME CatInv, NEW h \in Handlers, NEW p \in Products, NEW text \in Maybe(Texts),
           NEW stock \in Maybe(0..MaxStock), NEW k \in Maybe(Categories), NEW rest \in BOOLEAN,
           UpdateRead(h, p, text, stock, k, rest)
    PROVE  CatInv'
<1>1. product[p] \in Rows /\ product[p].live
  BY DEF CatInv, CatTyped, RowsTyped, UpdateRead
<1>2. PICK row : row = Edited(product[p], text, stock, k)
  OBVIOUS
<1>3. /\ row \in Rows /\ row.live /\ row.rating = product[p].rating
      /\ row.reserved = product[p].reserved
      /\ stock = None => row.stock = product[p].stock
  BY <1>1, <1>2 DEF Edited, Rows, Maybe
<1> DEFINE c == [Idle EXCEPT !.at = "save", !.p = p, !.rest = rest,
                   !.sets = stock # None, !.row = row]
<1>4. /\ c \in Calls /\ c.at = "save" /\ c.p = p /\ c.row = row /\ c.old = {} /\ c.todo = {}
      /\ c.sets = (stock # None)
  BY <1>3 DEF Idle, Calls, Steps, Maybe, Pages
<1>5. /\ Arrive(h) /\ Goes(h, c)
      /\ UNCHANGED <<product, category, review, cache, held, owned, late>>
  BY <1>2 DEF UpdateRead
<1> HIDE DEF c
<1>6. InHand(c)
  BY <1>3, <1>4 DEF InHand
<1>7. CountersExact(p)
  BY DEF CatInv, RowOK
<1>8. CallOK(c)'
  BY <1>1, <1>3, <1>4, <1>5, <1>6, <1>7 DEF CallOK, UpToDate, CountersExact
<1> QED BY <1>5, <1>8, ArriveOK

(* A review to be edited is read. *)
LEMMA ReviewReadOK ==
    ASSUME CatInv, NEW h \in Handlers, NEW p \in Products, NEW u \in Reviewers,
           NEW score \in Scores, ReviewRead(h, p, u, score)
    PROVE  CatInv'
<1>1. review[p][u] \in Reviews /\ product[p].live
  BY DEF CatInv, CatTyped, RowsTyped, Maybe, RowOK, Unheard, ReviewRead
<1>2. PICK row : row = [review[p][u] EXCEPT !.score = score]
  OBVIOUS
<1>3. row \in Reviews
  BY <1>1, <1>2 DEF Reviews
<1> DEFINE c == [Idle EXCEPT !.at = "rewrite", !.p = p, !.u = u, !.row = row]
<1>4. /\ c \in Calls /\ c.at = "rewrite" /\ c.p = p /\ c.u = u /\ c.row = row /\ c.old = {}
      /\ c.todo = {}
  BY <1>3 DEF Idle, Calls, Steps, Maybe, Pages
<1>5. /\ Arrive(h) /\ Goes(h, c)
      /\ UNCHANGED <<product, category, review, cache, held, owned, late>>
  BY <1>2 DEF ReviewRead
<1> HIDE DEF c
<1>6. CallOK(c)'
  BY <1>1, <1>3, <1>4, <1>5 DEF CallOK, UpToDate, InHand
<1> QED BY <1>5, <1>6, ArriveOK

(* A review to be deleted is found. *)
LEMMA ReviewFindOK ==
    ASSUME CatInv, NEW h \in Handlers, NEW p \in Products, NEW u \in Reviewers,
           ReviewFind(h, p, u)
    PROVE  CatInv'
<1>1. review[p][u] \in Reviews /\ product[p].live
  BY DEF CatInv, CatTyped, RowsTyped, Maybe, RowOK, Unheard, ReviewFind
<1>2. PICK row : row = review[p][u]
  OBVIOUS
<1> DEFINE c == [Idle EXCEPT !.at = "erase", !.p = p, !.u = u, !.row = row]
<1>4. /\ c \in Calls /\ c.at = "erase" /\ c.p = p /\ c.u = u /\ c.row = row /\ c.old = {}
      /\ c.todo = {}
  BY <1>1, <1>2 DEF Idle, Calls, Steps, Maybe, Pages
<1>5. /\ Arrive(h) /\ Goes(h, c)
      /\ UNCHANGED <<product, category, review, cache, held, owned, late>>
  BY <1>2 DEF ReviewFind
<1> HIDE DEF c
<1>6. CallOK(c)'
  BY <1>1, <1>2, <1>4, <1>5 DEF CallOK, UpToDate, InHand
<1> QED BY <1>5, <1>6, ArriveOK

(* A handler that has a request reads; it was not to clean anything. *)
LEMMA ProceedOK ==
    ASSUME CatInv, NEW h \in Handlers, NEW c, Goes(h, c), CallOK(c)',
           call[h].at \notin {"reread", "purge", "delete"},
           \A p \in Products : Rates(call[h], p) => Rates(c, p),
           UNCHANGED <<product, category, review, cache, left, held, owned, late>>
    PROVE  CatInv'
<1>1. left' \in 0..MaxRequests
  BY DEF CatInv, CatTyped
<1>2. \A k \in Pages : ~ Cleans(call[h], k)
  BY DEF Cleans
<1> QED BY <1>1, <1>2, ReadOK

(* Find preserves the invariant. *)
LEMMA FindOK ==
    ASSUME CatInv, NEW h \in Handlers, Find(h)
    PROVE  CatInv'
<1>1. PICK d : d = call[h]
  OBVIOUS
<1>2. d \in Calls /\ InHand(d) /\ d.at = "find" /\ d.p \in Pages
  BY <1>1 DEF CatInv, CallOK, InHand, Find, At
<1>3. PICK row : row = PageNow(d.p)
  OBVIOUS
<1>4. row \in Maybe(PageOf(d.p))
  BY <1>2, <1>3, PageTyped DEF CatInv
<1>5. UNCHANGED <<product, category, review, cache, left, held, owned, late>>
  BY DEF Find
<1>6. \A p \in Products : ~ Rates(call[h], p)
  BY <1>1, <1>2 DEF Rates
<1>7. CASE row = None
  <2>1. Goes(h, Idle)
    BY <1>1, <1>3, <1>7 DEF Find
  <2>2. CallOK(Idle)'
    BY IdleOK, RestingOK
  <2> QED BY <1>1, <1>2, <1>5, <1>6, <2>1, <2>2, ProceedOK
<1>8. CASE row # None
  <2> DEFINE c == [d EXCEPT !.at = "fill", !.row = row]
  <2>1. row \in PageOf(d.p) /\ row \in Maybe(Views \cup Lists \cup Rows \cup Reviews \cup Ratings)
    BY <1>4, <1>8 DEF Maybe, PageOf
  <2>2. /\ c \in Calls /\ c.at = "fill" /\ c.p = d.p /\ c.row = row
        /\ c.old \subseteq {"stock", "rating", "page"} /\ c.todo \subseteq Pages
    BY <1>2, <2>1 DEF Calls, Steps
  <2>3. Goes(h, c)
    BY <1>1, <1>3, <1>8 DEF Find
  <2> HIDE DEF c
  <2>4. PageNow(c.p)' = row
    BY <1>3, <1>5, <2>2 DEF PageNow, Shown
  <2>5. CallOK(c)'
    BY <1>2, <2>1, <2>2, <2>4 DEF CallOK, InHand, UpToDate
  <2> QED BY <1>1, <1>2, <1>5, <1>6, <2>3, <2>5, ProceedOK
<1> QED BY <1>7, <1>8

(* Aggregate preserves the invariant. *)
LEMMA AggregateOK ==
    ASSUME CatInv, NEW h \in Handlers, Aggregate(h)
    PROVE  CatInv'
<1>1. PICK d : d = call[h]
  OBVIOUS
<1>2. /\ d \in Calls /\ InHand(d) /\ d.at = "aggregate" /\ d.p \in Products
      /\ product[d.p].live
  BY <1>1 DEF CatInv, CallOK, InHand, UpToDate, Aggregate, At
<1>3. PICK row : row = ScoresOf(d.p)
  OBVIOUS
<1>4. row \in Ratings
  <2>1. ASSUME NEW u \in Reviewers
        PROVE  (IF review[d.p][u] = None THEN None ELSE review[d.p][u].score) \in Maybe(Scores)
    <3>1. review[d.p][u] \in Maybe(Reviews)
      BY <1>2 DEF CatInv, CatTyped, RowsTyped
    <3> QED BY <3>1 DEF Maybe, Reviews
  <2> QED BY <1>3, <2>1 DEF ScoresOf, Ratings
<1>5. UNCHANGED <<product, category, review, cache, left, held, owned, late>>
  BY DEF Aggregate
<1> DEFINE c == [d EXCEPT !.at = "rate", !.row = row]
<1>6. /\ c \in Calls /\ c.at = "rate" /\ c.p = d.p /\ c.row = row
      /\ c.old \subseteq {"stock", "rating", "page"} /\ c.todo \subseteq Pages
  BY <1>2, <1>4 DEF Calls, Steps, Maybe
<1>7. Goes(h, c)
  BY <1>1, <1>3 DEF Aggregate
<1> HIDE DEF c
<1>8. ScoresOf(c.p)' = row
  BY <1>3, <1>5, <1>6 DEF ScoresOf
<1>9. CallOK(c)'
  BY <1>2, <1>4, <1>5, <1>6, <1>8 DEF CallOK, InHand, UpToDate
<1>10. \A p \in Products : Rates(call[h], p) => Rates(c, p)
  BY <1>1, <1>6 DEF Rates
<1> QED BY <1>1, <1>2, <1>5, <1>7, <1>9, <1>10, ProceedOK

(* Reread preserves the invariant. *)
LEMMA RereadOK ==
    ASSUME CatInv, NEW h \in Handlers, Reread(h)
    PROVE  CatInv'
<1>1. PICK d : d = call[h]
  OBVIOUS
<1>2. d \in Calls /\ InHand(d) /\ d.at = "reread" /\ d.p \in Products
  BY <1>1 DEF CatInv, CallOK, InHand, Reread, At
<1>3. UNCHANGED <<product, category, review, cache, left, held, owned, late>>
  BY DEF Reread
<1> DEFINE c == Purging(d.p)
<1>4. c \in Calls /\ InHand(c) /\ c.at = "purge" /\ c.p = d.p
  BY <1>2 DEF Purging, Idle, Calls, Steps, InHand, Maybe, Pages
<1>5. Goes(h, c)
  BY <1>1 DEF Reread
<1> HIDE DEF c
<1>6. CallOK(c)'
  BY <1>4, RestingOK
<1>7. \A p \in Products : ~ Rates(call[h], p)
  BY <1>1, <1>2 DEF Rates
<1>8. \A k \in Pages : Cleans(call[h], k) => Cleans(c, k)
  BY <1>1, <1>4 DEF Cleans
<1>9. left' \in 0..MaxRequests
  BY <1>3 DEF CatInv, CatTyped
<1> QED BY <1>3, <1>5, <1>6, <1>7, <1>8, <1>9, ReadOK

(* PurgeScan finds every page that is there. *)
LEMMA PurgeScanOK ==
    ASSUME CatInv, NEW h \in Handlers, PurgeScan(h)
    PROVE  CatInv'
<1>1. PICK d : d = call[h]
  OBVIOUS
<1>2. d \in Calls /\ InHand(d) /\ d.at = "purge" /\ d.p \in Products
  BY <1>1 DEF CatInv, CallOK, InHand, PurgeScan, At
<1>3. UNCHANGED <<product, category, review, cache, left, held, owned, late>>
  BY DEF PurgeScan
<1>4. PICK found : found = {k \in Pages : cache[k] # None}
  OBVIOUS
<1>5. \A p \in Products : ~ Rates(call[h], p)
  BY <1>1, <1>2 DEF Rates
<1>6. left' \in 0..MaxRequests
  BY <1>3 DEF CatInv, CatTyped
<1>7. CASE found = {}
  <2>1. Goes(h, Idle)
    BY <1>4, <1>7 DEF PurgeScan
  <2>2. CallOK(Idle)'
    BY IdleOK, RestingOK
  <2>3. \A k \in Pages : cache[k] = None
    BY <1>4, <1>7
  <2> QED BY <1>3, <1>5, <1>6, <2>1, <2>2, <2>3, ReadOK
<1>8. CASE found # {}
  <2> DEFINE c == [d EXCEPT !.at = "delete", !.todo = found]
  <2>1. c \in Calls /\ c.at = "delete" /\ c.p = d.p /\ c.todo = found
    BY <1>2, <1>4 DEF Calls, Steps
  <2>2. c.old \subseteq {"stock", "rating", "page"} /\ c.todo \subseteq Pages
    BY <2>1 DEF Calls
  <2>3. Goes(h, c)
    BY <1>1, <1>4, <1>8 DEF PurgeScan
  <2> HIDE DEF c
  <2>4. InHand(c)
    BY <1>2, <2>1, <2>2 DEF InHand
  <2>5. CallOK(c)'
    BY <2>1, <2>4, RestingOK
  <2>6. \A k \in Pages : Cleans(call[h], k) => Cleans(c, k) \/ cache[k] = None
    BY <1>1, <1>2, <1>4, <2>1 DEF Cleans
  <2> QED BY <1>3, <1>5, <1>6, <2>3, <2>5, <2>6, ReadOK
<1> QED BY <1>7, <1>8

(* A request that fails leaves word of what it leaves undone. *)
LEMMA FailOK ==
    ASSUME CatInv, NEW h \in Handlers, Fail(h)
    PROVE  CatInv'
<1>1. Goes(h, Idle) /\ UNCHANGED <<product, category, review, cache, left, held, owned>>
      /\ late \subseteq late'
  BY DEF Fail
<1>2. CallOK(Idle)'
  BY IdleOK, RestingOK
<1>3. left' \in 0..MaxRequests
  BY <1>1 DEF CatInv, CatTyped
<1>4. ASSUME NEW p \in Products, Rates(call[h], p) PROVE <<"rating", p>> \in late'
  BY <1>4 DEF Fail, Rates
<1>5. ASSUME NEW k \in Pages, Cleans(call[h], k) PROVE <<"page", k>> \in late'
  BY <1>5 DEF Fail, Cleans, Unpurged
<1> QED BY <1>1, <1>2, <1>3, <1>4, <1>5, ReadOK

-----------------------------------------------------------------------------
(* The steps that write the cache or a category *)

(* An answer is cached, and it is what the table says unless the handler has
   been told otherwise. *)
LEMMA FillOK ==
    ASSUME CatInv, NEW h \in Handlers, Fill(h)
    PROVE  CatInv'
<1>1. PICK d : d = call[h]
  OBVIOUS
<1>2. /\ d \in Calls /\ InHand(d) /\ UpToDate(d) /\ d.at = "fill" /\ d.p \in Pages
      /\ d.row \in PageOf(d.p)
  BY <1>1 DEF CatInv, CallOK, InHand, Fill, At
<1>3. /\ Goes(h, Idle) /\ UNCHANGED <<product, category, review, left, held, owned>>
      /\ cache' = [cache EXCEPT ![d.p] = d.row]
      /\ late' = IF "page" \in d.old THEN late \cup {<<"page", d.p>>}
                 ELSE late \ {<<"page", d.p>>}
  BY <1>1 DEF Fill
<1>4. d.row = PageNow(d.p) \/ <<"page", d.p>> \in late'
  BY <1>2, <1>3 DEF UpToDate
<1>5. Changes(h, Idle, None, {}, {})
  BY <1>3, GoesChanges
<1>6. CallOK(Idle)'
  BY IdleOK, RestingOK
<1>7. \A j \in Pages : ~ Cleans(call[h], j)
  BY <1>1, <1>2 DEF Cleans
<1>8. d.row \in Maybe(PageOf(d.p)) /\ call[h].at \notin {"aggregate", "rate"}
  BY <1>1, <1>2 DEF Maybe
<1>9. late' \in {late \cup {<<"page", d.p>>}, late \ {<<"page", d.p>>}}
  BY <1>3
<1> QED BY <1>2, <1>3, <1>4, <1>5, <1>6, <1>7, <1>8, <1>9, CacheOK

(* A page is removed. *)
LEMMA PurgeDeleteOK ==
    ASSUME CatInv, NEW h \in Handlers, PurgeDelete(h)
    PROVE  CatInv'
<1>1. PICK d : d = call[h]
  OBVIOUS
<1>2. d \in Calls /\ InHand(d) /\ d.at = "delete" /\ d.p \in Products /\ d.todo \subseteq Pages
  BY <1>1 DEF CatInv, CallOK, InHand, PurgeDelete, At
<1>3. PICK k \in Pages :
        /\ cache' = [cache EXCEPT ![k] = None]
        /\ late' = late \ {<<"page", k>>}
        /\ Goes(h, IF d.todo \subseteq {k} THEN Idle ELSE [d EXCEPT !.todo = @ \ {k}])
        /\ UNCHANGED <<product, category, review, left, held, owned>>
  BY <1>1, <1>2 DEF PurgeDelete
<1>4. PICK c : c = IF d.todo \subseteq {k} THEN Idle ELSE [d EXCEPT !.todo = @ \ {k}]
  OBVIOUS
<1>5. Goes(h, c)
  BY <1>3, <1>4
<1>6. CASE d.todo \subseteq {k}
  <2>1. c = Idle
    BY <1>4, <1>6
  <2>2. CallOK(c)'
    BY <2>1, IdleOK, RestingOK
  <2>3. \A j \in Pages \ {k} : Cleans(call[h], j) => Cleans(c, j)
    BY <1>1, <1>2, <1>6 DEF Cleans
  <2> QED BY <2>2, <2>3, <1>1, <1>2, <1>3, <1>5, GoesChanges, CacheOK DEF Maybe
<1>7. CASE ~ (d.todo \subseteq {k})
  <2>1. c = [d EXCEPT !.todo = @ \ {k}]
    BY <1>4, <1>7
  <2>2. /\ c \in Calls /\ c.at = "delete" /\ c.p = d.p /\ c.old = d.old
        /\ c.todo = d.todo \ {k}
    BY <1>2, <2>1 DEF Calls
  <2>3. InHand(c)
    BY <1>2, <2>2 DEF InHand, Calls
  <2>4. CallOK(c)'
    BY <2>2, <2>3, RestingOK
  <2>5. \A j \in Pages \ {k} : Cleans(call[h], j) => Cleans(c, j)
    BY <1>1, <1>2, <2>2 DEF Cleans
  <2> QED BY <2>4, <2>5, <1>1, <1>2, <1>3, <1>5, GoesChanges, CacheOK DEF Maybe
<1> QED BY <1>6, <1>7

(* A page expires. *)
LEMMA ExpireOK ==
    ASSUME CatInv, NEW k \in Pages, Expire(k)
    PROVE  CatInv'
<1>1. /\ cache' = [cache EXCEPT ![k] = None] /\ late' = late \ {<<"page", k>>}
      /\ UNCHANGED <<product, category, review, call, left, held, owned>>
  BY DEF Expire
<1>2. None \notin Handlers
  BY CatalogueAssumption
<1>3. Changes(None, Idle, None, {}, {})
  BY <1>1, <1>2 DEF CatInv, CatTyped, Changes
<1> QED BY <1>1, <1>2, <1>3, CacheOK DEF Maybe

(* A category is new. *)
LEMMA CategoryCreateOK ==
    ASSUME CatInv, NEW h \in Handlers, NEW k \in Categories, CategoryCreate(h, k)
    PROVE  CatInv'
<1>1. /\ call[h].at = "idle" /\ left' \in 0..MaxRequests
      /\ UNCHANGED <<product, review, cache, call, held, owned, late>>
      /\ category' = category \cup {k}
  BY RequestsAssumption DEF CategoryCreate, Arrive, NextRequest, At, CatInv, CatTyped
<1>2. Goes(h, call[h])
  BY <1>1 DEF Goes, CatInv, CatTyped
<1>3. CategoriesHold'
  BY <1>1 DEF CatInv, CatTyped, CategoriesHold
<1> QED BY <1>1, <1>2, <1>3, CategoryOK

(* A category in which no product is goes. *)
LEMMA CategoryDeleteOK ==
    ASSUME CatInv, NEW h \in Handlers, NEW k \in Categories, CategoryDelete(h, k)
    PROVE  CatInv'
<1>1. /\ call[h].at = "idle" /\ left' \in 0..MaxRequests
      /\ UNCHANGED <<product, review, cache, call, held, owned, late>>
      /\ category' = category \ {k}
      /\ \A p \in Products : product[p].live => product[p].category # k
  BY RequestsAssumption DEF CategoryDelete, Arrive, NextRequest, At, CatInv, CatTyped
<1>2. Goes(h, call[h])
  BY <1>1 DEF Goes, CatInv, CatTyped
<1>3. CategoriesHold'
  BY <1>1 DEF CatInv, CatTyped, CategoriesHold
<1> QED BY <1>1, <1>2, <1>3, CategoryOK

(* A category is saved. *)
LEMMA CategorySaveOK ==
    ASSUME CatInv, NEW h \in Handlers, CategorySave(h)
    PROVE  CatInv'
<1>1. InHand(call[h]) /\ left \in 0..MaxRequests /\ CategoriesHold
  BY DEF CatInv, CallOK, CatTyped
<1>2. /\ call[h].at = "resave" /\ call[h].p \in Categories /\ left' \in 0..MaxRequests
      /\ UNCHANGED <<product, review, cache, held, owned, late>>
      /\ category' = category \cup {call[h].p} /\ Goes(h, Idle)
  BY <1>1 DEF CategorySave, At, InHand
<1>3. CategoriesHold'
  BY <1>1, <1>2 DEF CategoriesHold
<1> QED BY <1>2, <1>3, CategoryOK

-----------------------------------------------------------------------------
(* The steps that write a review *)

(* A review is new. *)
LEMMA ReviewCreateOK ==
    ASSUME CatInv, NEW h \in Handlers, NEW p \in Products, NEW u \in Reviewers,
           NEW score \in Scores, ReviewCreate(h, p, u, score)
    PROVE  CatInv'
<1>1. /\ call[h].at = "idle" /\ left \in 0..MaxRequests /\ left > 0 /\ left' = left - 1
      /\ product[p].live /\ Rerate(h, p)
      /\ UNCHANGED <<product, category, cache, held, owned, late>>
  BY DEF ReviewCreate, Arrive, NextRequest, At, CatInv, CatTyped
<1>2. PICK r : r = [id |-> left, score |-> score]
  OBVIOUS
<1>3. r \in Maybe(Reviews)
  BY <1>1, <1>2 DEF Reviews, Maybe
<1>4. review' = [review EXCEPT ![p][u] = r]
  BY <1>2 DEF ReviewCreate
<1>5. left' \in 0..MaxRequests
  BY <1>1, RequestsAssumption
<1> QED BY <1>1, <1>3, <1>4, <1>5, ReviewOK

(* A review is saved. *)
LEMMA ReviewSaveOK ==
    ASSUME CatInv, NEW h \in Handlers, ReviewSave(h)
    PROVE  CatInv'
<1>1. PICK d : d = call[h]
  OBVIOUS
<1>2. /\ InHand(d) /\ UpToDate(d) /\ d.at = "rewrite" /\ left \in 0..MaxRequests
  BY <1>1 DEF CatInv, CallOK, CatTyped, ReviewSave, At
<1>3. d.p \in Products /\ d.u \in Reviewers /\ d.row \in Maybe(Reviews) /\ product[d.p].live
  BY <1>2 DEF InHand, UpToDate, Maybe
<1>4. /\ review' = [review EXCEPT ![d.p][d.u] = d.row] /\ Rerate(h, d.p)
      /\ UNCHANGED <<product, category, cache, left, held, owned, late>>
  BY <1>1 DEF ReviewSave
<1> QED BY <1>1, <1>2, <1>3, <1>4, ReviewOK

(* A review is deleted. *)
LEMMA ReviewEraseOK ==
    ASSUME CatInv, NEW h \in Handlers, ReviewErase(h)
    PROVE  CatInv'
<1>1. PICK d : d = call[h]
  OBVIOUS
<1>2. /\ InHand(d) /\ UpToDate(d) /\ d.at = "erase" /\ left \in 0..MaxRequests
  BY <1>1 DEF CatInv, CallOK, CatTyped, ReviewErase, At
<1>3. d.p \in Products /\ d.u \in Reviewers /\ product[d.p].live
  BY <1>2 DEF InHand, UpToDate
<1>4. PICK r : r = IF review[d.p][d.u] # None /\ review[d.p][d.u].id = d.row.id
                     THEN None ELSE review[d.p][d.u]
  OBVIOUS
<1>5. r \in Maybe(Reviews)
  BY <1>3, <1>4 DEF CatInv, CatTyped, RowsTyped, Maybe
<1>6. review' = [review EXCEPT ![d.p][d.u] = r]
  BY <1>1, <1>3, <1>4 DEF ReviewErase, CatInv, CatTyped, RowsTyped
<1>7. Rerate(h, d.p) /\ UNCHANGED <<product, category, cache, left, held, owned, late>>
  BY <1>1 DEF ReviewErase
<1> QED BY <1>1, <1>2, <1>3, <1>5, <1>6, <1>7, ReviewOK

-----------------------------------------------------------------------------
(* The steps that write the row of a product *)

(* The row of p stays exact when who was to rate p still is. *)
LEMMA RatingKept ==
    ASSUME CatInv, NEW p \in Products, NEW h, NEW c, NEW S, NEW what \in SUBSET Notes,
           CallsMove(h, c, p, S, what), h \in Handlers => ~ Rates(call[h], p),
           product[p].live, product'[p].rating = product[p].rating,
           review' = review, late \subseteq late'
    PROVE  RatingExact(p)'
<1>1. RatedBy(p) => RatedBy(p)'
  BY RatesStay
<1>2. RatingExact(p) /\ ScoresOf(p)' = ScoresOf(p)
  BY DEF CatInv, RowOK, ScoresOf
<1> QED BY <1>1, <1>2 DEF RatingExact

(* After a write a REST request is in order, and so is one by gRPC. *)
LEMMA AfterOK ==
    ASSUME NEW p \in Products, NEW c, c.p = p, c.rest \in BOOLEAN
    PROVE  /\ CallOK(After(c))'
           /\ ~ c.rest => Left(c) = Unpurged(p)
           /\ c.rest => After(c).at = "purge" /\ After(c).p = p
<1>1. CASE c.rest
  <2> DEFINE d == Purging(p)
  <2>1. d \in Calls /\ InHand(d) /\ d.at = "purge" /\ d.p = p
    BY DEF Purging, Idle, Calls, Steps, InHand, Maybe, Pages
  <2>2. After(c) = d
    BY <1>1 DEF After
  <2> HIDE DEF d
  <2>3. CallOK(d)'
    BY <2>1, RestingOK
  <2> QED BY <1>1, <2>1, <2>2, <2>3
<1>2. CASE ~ c.rest
  BY <1>2, IdleOK, RestingOK DEF After, Left
<1> QED BY <1>1, <1>2

(* A product is new: nobody held it, reviewed it or read it. *)
LEMMA CreateOK ==
    ASSUME CatInv, NEW h \in Handlers, NEW p \in Products, NEW rest \in BOOLEAN,
           NEW text \in Texts, NEW stock \in 0..MaxStock, NEW k \in Maybe(Categories),
           CreateProduct(h, p, NewRow(text, stock, k), rest)
    PROVE  CatInv'
<1>1. PICK row : row = NewRow(text, stock, k)
  OBVIOUS
<1>2. /\ row \in Rows /\ row.live /\ row.reserved = 0 /\ row.rating = Unrated
      /\ row.category = k /\ row.stock = stock /\ row.stock \in Nat
  <2>1. MaxStock \in Nat /\ 0 \in 0..MaxStock /\ stock \in Nat
    BY CatalogueAssumption
  <2>2. Unrated \in Ratings
    BY DEF Unrated, Ratings, Maybe
  <2> QED BY <1>1, <2>1, <2>2 DEF NewRow, Rows
<1> DEFINE b == [Idle EXCEPT !.p = p, !.rest = rest]
<1>3. b.p = p /\ b.rest = rest
  BY DEF Idle
<1>4. /\ ~ product[p].live /\ (k # None => k \in category)
      /\ product' = [product EXCEPT ![p] = row]
      /\ owned' = [owned EXCEPT ![p] = row.stock]
      /\ Changes(h, After(b), p, {"fill"}, {"page"})
      /\ late' = late \cup Left(b)
      /\ UNCHANGED <<category, review, cache, held>>
  BY <1>1, <1>2 DEF CreateProduct, Storable
<1>5. call[h].at = "idle" /\ left' \in 0..MaxRequests
  BY RequestsAssumption DEF CreateProduct, Arrive, NextRequest, At, CatInv, CatTyped
<1> HIDE DEF b
<1>6. PICK c : c = After(b)
  OBVIOUS
<1>7. /\ CallOK(c)' /\ (~ rest => Left(b) = Unpurged(p))
      /\ (rest => c.at = "purge" /\ c.p = p)
  BY <1>3, <1>6, AfterOK
<1>8. RowsTyped /\ Unheard(p)
  BY DEF CatInv, CatTyped, RowOK
<1>9. held[p] = 0 /\ held' = [held EXCEPT ![p] = held[p]] /\ held[p] \in Nat
      /\ \A u \in Reviewers : review[p][u] = None
  BY <1>4, <1>8 DEF RowsTyped, Unheard
<1>10. product'[p] = row /\ held'[p] = 0 /\ owned'[p] = row.stock /\ late \subseteq late'
  BY <1>4, <1>8, <1>9 DEF RowsTyped
<1>11. Tells(p, {"fill"}, {"page"})
  BY <1>4 DEF Tells
<1>12. RowWritten(p)
  BY <1>2, <1>4, <1>10 DEF RowWritten
<1>13. PagesKept(h, c, p)
  BY <1>4, <1>7 DEF PagesKept, Cleans, Unpurged
<1>14. RatingExact(p)'
  <2>1. ScoresOf(p)' = Unrated
    BY <1>4, <1>9 DEF ScoresOf, Unrated
  <2> QED BY <1>2, <1>10, <2>1 DEF RatingExact
<1>15. {"page"} \in SUBSET Notes /\ row.stock \in Int
  BY <1>2 DEF Notes
<1>16. call[h].at \notin {"aggregate", "reread", "purge", "delete", "rate"}
  BY <1>5
<1> QED BY <1>2, <1>4, <1>5, <1>6, <1>7, <1>9, <1>10, <1>11, <1>12, <1>13, <1>14, <1>15, <1>16,
           WriteOK

(* An edit is saved whole; who has been told says so. *)
LEMMA UpdateSaveOK ==
    ASSUME CatInv, NEW h \in Handlers, UpdateSave(h)
    PROVE  CatInv'
<1>1. PICK d : d = call[h]
  OBVIOUS
<1>2. d \in Calls /\ InHand(d) /\ UpToDate(d) /\ d.at = "save" /\ RowsTyped
  BY <1>1 DEF CatInv, CatTyped, CallOK, UpdateSave, At
<1>3. /\ d.p \in Products /\ d.row \in Rows /\ d.row.live /\ product[d.p].live
      /\ d.rest \in BOOLEAN
  BY <1>2 DEF InHand, UpToDate, Calls
<1>4. PICK p \in Products : p = d.p
  BY <1>3
<1>5. /\ Storable(d.row) /\ product' = [product EXCEPT ![p] = d.row]
      /\ owned' = IF d.sets THEN [owned EXCEPT ![p] = d.row.stock] ELSE owned
      /\ late' = late \cup ((d.old \ {"page"}) \X {p}) \cup Left(d)
      /\ Changes(h, After(d), p, {"save", "fill"}, {"stock", "rating", "page"})
      /\ UNCHANGED <<category, review, cache, left, held>>
  BY <1>1, <1>4 DEF UpdateSave
<1>6. PICK c : c = After(d)
  OBVIOUS
<1>7. /\ CallOK(c)' /\ (~ d.rest => Left(d) = Unpurged(p))
      /\ (d.rest => c.at = "purge" /\ c.p = p)
  BY <1>3, <1>4, <1>6, AfterOK
<1>8. d.row.stock \in Nat
  <2>1. d.row.stock \in 0..MaxStock
    BY <1>3 DEF Rows
  <2> QED BY <2>1, CatalogueAssumption
<1>9. PICK m \in Int : m = IF d.sets THEN d.row.stock ELSE owned[p]
  BY <1>2, <1>8 DEF RowsTyped
<1>10. /\ owned' = [owned EXCEPT ![p] = m] /\ held' = [held EXCEPT ![p] = held[p]]
       /\ held[p] \in Nat
  BY <1>2, <1>5, <1>9 DEF RowsTyped
<1>11. product'[p] = d.row /\ held'[p] = held[p] /\ owned'[p] = m /\ late \subseteq late'
  BY <1>2, <1>5, <1>10 DEF RowsTyped
<1>12. Tells(p, {"save", "fill"}, {"stock", "rating", "page"})
  BY <1>3, <1>5, <1>11 DEF Tells
<1>13. RowWritten(p)
  <2>1. ASSUME <<"stock", p>> \notin late'
        PROVE  d.row.reserved = held[p] /\ d.row.stock = m
    <3>1. "stock" \notin d.old /\ <<"stock", p>> \notin late
      BY <1>5, <2>1
    <3>2. d.row.reserved = held[p] /\ (d.sets \/ d.row.stock = owned[p])
      BY <1>2, <1>4, <3>1 DEF UpToDate
    <3> QED BY <1>9, <3>2
  <2>2. d.row.category # None => d.row.category \in category
    BY <1>5 DEF Storable
  <2> QED BY <1>3, <1>11, <2>1, <2>2 DEF RowWritten
<1>14. PagesKept(h, c, p)
  BY <1>5, <1>7 DEF PagesKept, Cleans, Unpurged
<1>15. {"stock", "rating", "page"} \in SUBSET Notes
  BY DEF Notes
<1>16. call[h].at \notin {"aggregate", "reread", "purge", "delete", "rate"}
  BY <1>1, <1>2
<1>17. ASSUME CallsMove(h, c, p, {"save", "fill"}, {"stock", "rating", "page"})
       PROVE  RatingExact(p)'
  <2>1. CASE <<"rating", p>> \in late'
    BY <2>1 DEF RatingExact
  <2>2. CASE <<"rating", p>> \notin late'
    <3>1. "rating" \notin d.old
      BY <1>5, <2>2
    <3>2. d.row.rating = product[p].rating
      BY <1>2, <1>4, <3>1 DEF UpToDate
    <3>3. ~ Rates(call[h], p)
      BY <1>16 DEF Rates
    <3> QED BY <1>3, <1>4, <1>5, <1>11, <1>15, <1>17, <3>2, <3>3, RatingKept
  <2> QED BY <2>1, <2>2
<1>18. left' \in 0..MaxRequests
  BY <1>5 DEF CatInv, CatTyped
<1> QED BY <1>3, <1>5, <1>6, <1>7, <1>9, <1>10, <1>11, <1>12, <1>13, <1>14, <1>15, <1>16, <1>17,
           <1>18, WriteOK

(* Units are added. *)
LEMMA AddStockOK ==
    ASSUME CatInv, NEW h \in Handlers, NEW p \in Products, AddStock(h, p)
    PROVE  CatInv'
<1> DEFINE c == [Purging(p) EXCEPT !.at = "reread"]
<1>1. c \in Calls /\ InHand(c) /\ c.at = "reread" /\ c.p = p
  BY DEF Purging, Idle, Calls, Steps, InHand, Maybe, Pages
<1>2. /\ product[p].live /\ product[p].stock < MaxStock
      /\ product' = [product EXCEPT ![p].stock = @ + 1]
      /\ owned' = [owned EXCEPT ![p] = @ + 1]
      /\ Changes(h, c, p, {"save", "fill"}, {"stock", "page"})
      /\ UNCHANGED <<category, review, cache, held, late>>
  BY DEF AddStock
<1>3. call[h].at = "idle" /\ left' \in 0..MaxRequests
  BY RequestsAssumption DEF AddStock, Arrive, NextRequest, At, CatInv, CatTyped
<1> HIDE DEF c
<1>4. CallOK(c)'
  BY <1>1, RestingOK
<1>5. RowsTyped /\ CategoriesHold /\ CountersExact(p)
  BY DEF CatInv, CatTyped, RowOK
<1>6. product[p] \in Rows /\ held[p] \in Nat /\ owned[p] \in Int
  BY <1>5 DEF RowsTyped
<1>7. PICK row : row = [product[p] EXCEPT !.stock = @ + 1]
  OBVIOUS
<1>8. /\ row \in Rows /\ row.live /\ row.reserved = product[p].reserved
      /\ row.stock = product[p].stock + 1 /\ row.rating = product[p].rating
      /\ row.category = product[p].category
  <2>1. product[p].stock \in 0..MaxStock
    BY <1>6 DEF Rows
  <2>2. product[p].stock + 1 \in 0..MaxStock
    BY <1>2, <2>1, CatalogueAssumption
  <2> QED BY <1>2, <1>6, <1>7, <2>2 DEF Rows
<1>9. product' = [product EXCEPT ![p] = row]
  BY <1>2, <1>7
<1>10. PICK m \in Int : m = owned[p] + 1
  BY <1>6
<1>11. /\ owned' = [owned EXCEPT ![p] = m] /\ held' = [held EXCEPT ![p] = held[p]]
  BY <1>2, <1>5, <1>10 DEF RowsTyped
<1>12. product'[p] = row /\ held'[p] = held[p] /\ owned'[p] = m /\ late \subseteq late'
  BY <1>2, <1>5, <1>9, <1>11 DEF RowsTyped
<1>13. Tells(p, {"save", "fill"}, {"stock", "page"})
  BY <1>2, <1>8, <1>12 DEF Tells
<1>14. RowWritten(p)
  <2>1. <<"stock", p>> \notin late' => row.reserved = held[p] /\ row.stock = m
    BY <1>2, <1>5, <1>8, <1>10 DEF CountersExact
  <2>2. row.category # None => row.category \in category
    BY <1>2, <1>5, <1>8 DEF CategoriesHold
  <2> QED BY <1>2, <1>8, <1>12, <2>1, <2>2 DEF RowWritten
<1>15. PagesKept(h, c, p)
  BY <1>1 DEF PagesKept, Cleans
<1>16. {"stock", "page"} \in SUBSET Notes
  BY DEF Notes
<1>17. call[h].at \notin {"aggregate", "reread", "purge", "delete", "rate"}
  BY <1>3
<1>18. ASSUME CallsMove(h, c, p, {"save", "fill"}, {"stock", "page"})
       PROVE  RatingExact(p)'
  <2>1. ~ Rates(call[h], p)
    BY <1>17 DEF Rates
  <2> QED BY <1>2, <1>8, <1>12, <1>16, <1>18, <2>1, RatingKept
<1> QED BY <1>2, <1>3, <1>4, <1>6, <1>8, <1>9, <1>10, <1>11, <1>12, <1>13, <1>14, <1>15, <1>16,
           <1>17, <1>18, WriteOK

(* A rating is stored, and it is that of the reviews unless the handler has been
   told otherwise or another is still at it. *)
LEMMA RateOK ==
    ASSUME CatInv, NEW h \in Handlers, Rate(h)
    PROVE  CatInv'
<1>1. PICK d : d = call[h]
  OBVIOUS
<1>2. d \in Calls /\ InHand(d) /\ UpToDate(d) /\ d.at = "rate" /\ RowsTyped
  BY <1>1 DEF CatInv, CatTyped, CallOK, Rate, At
<1>3. d.p \in Products /\ d.row \in Ratings /\ product[d.p].live
  BY <1>2 DEF InHand, UpToDate
<1>4. PICK p \in Products : p = d.p
  BY <1>3
<1>5. /\ product' = [product EXCEPT ![p].rating = d.row]
      /\ late' = late \cup (d.old \X {p}) \cup Unpurged(p)
      /\ Changes(h, Idle, p, {"save", "fill"}, {"rating", "page"})
      /\ UNCHANGED <<category, review, cache, left, held, owned>>
  BY <1>1, <1>4 DEF Rate
<1>6. CallOK(Idle)'
  BY IdleOK, RestingOK
<1>7. product[p] \in Rows /\ held[p] \in Nat /\ owned[p] \in Int
      /\ CategoriesHold /\ CountersExact(p)
  BY <1>2 DEF RowsTyped, CatInv, CatTyped, RowOK
<1>8. PICK row : row = [product[p] EXCEPT !.rating = d.row]
  OBVIOUS
<1>9. /\ row \in Rows /\ row.live /\ row.reserved = product[p].reserved
      /\ row.stock = product[p].stock /\ row.rating = d.row
      /\ row.category = product[p].category
  BY <1>3, <1>4, <1>7, <1>8 DEF Rows
<1>10. /\ product' = [product EXCEPT ![p] = row] /\ owned' = [owned EXCEPT ![p] = owned[p]]
       /\ held' = [held EXCEPT ![p] = held[p]]
  BY <1>2, <1>5, <1>8 DEF RowsTyped
<1>11. product'[p] = row /\ held'[p] = held[p] /\ owned'[p] = owned[p] /\ late \subseteq late'
  BY <1>2, <1>5, <1>10 DEF RowsTyped
<1>12. Tells(p, {"save", "fill"}, {"rating", "page"})
  BY <1>5, <1>9, <1>11 DEF Tells
<1>13. RowWritten(p)
  BY <1>3, <1>4, <1>5, <1>7, <1>9, <1>11 DEF RowWritten, CountersExact, CategoriesHold
<1>14. PagesKept(h, Idle, p)
  BY <1>5 DEF PagesKept, Unpurged
<1>15. {"rating", "page"} \in SUBSET Notes
  BY DEF Notes
<1>16. RatingExact(p)'
  <2>1. CASE <<"rating", p>> \in late'
    BY <2>1 DEF RatingExact
  <2>2. CASE <<"rating", p>> \notin late'
    <3>1. "rating" \notin d.old
      BY <1>5, <2>2
    <3>2. d.row = ScoresOf(p)
      BY <1>2, <1>4, <3>1 DEF UpToDate
    <3>3. ScoresOf(p)' = ScoresOf(p)
      BY <1>5 DEF ScoresOf
    <3> QED BY <1>9, <1>11, <3>2, <3>3 DEF RatingExact
  <2> QED BY <2>1, <2>2
<1>17. call[h].at \notin {"aggregate", "reread", "purge", "delete"} /\ call[h].p = p
  BY <1>1, <1>2, <1>4
<1>18. left' \in 0..MaxRequests
  BY <1>5 DEF CatInv, CatTyped
<1> QED BY <1>5, <1>6, <1>7, <1>9, <1>10, <1>11, <1>12, <1>13, <1>14, <1>15, <1>16, <1>17, <1>18,
           WriteOK

(* An order moves the counters of p, which stay what orders hold and the shop owns. *)
LEMMA OrderMovesOK ==
    ASSUME CatInv, NEW p \in Products, NEW S, NEW what \in SUBSET Notes,
           "save" \in S, "stock" \in what, product[p].live,
           NEW reserved \in 0..MaxStock, NEW stock \in 0..MaxStock, NEW n \in Nat, NEW m \in Int,
           product' = [product EXCEPT ![p].reserved = reserved, ![p].stock = stock],
           held' = [held EXCEPT ![p] = n], owned' = [owned EXCEPT ![p] = m],
           product[p].reserved = held[p] /\ product[p].stock = owned[p] =>
             reserved = n /\ stock = m,
           stock = product[p].stock \/ (/\ "fill" \in S /\ "page" \in what
                                        /\ Unpurged(p) \subseteq late'),
           Changes(None, Idle, p, S, what), late \subseteq late',
           left > 0, left' = left - 1, UNCHANGED <<review, category, cache>>
    PROVE  CatInv'
<1>1. None \notin Handlers
  BY CatalogueAssumption
<1>2. RowsTyped /\ CategoriesHold /\ CountersExact(p) /\ left' \in 0..MaxRequests
  BY CatalogueAssumption, RequestsAssumption DEF CatInv, CatTyped, RowOK
<1>3. product[p] \in Rows
  BY <1>2 DEF RowsTyped
<1>4. PICK row : row = [product[p] EXCEPT !.reserved = reserved, !.stock = stock]
  OBVIOUS
<1>5. /\ row \in Rows /\ row.live /\ row.reserved = reserved /\ row.stock = stock
      /\ row.rating = product[p].rating /\ row.category = product[p].category
      /\ row.text = product[p].text
  BY <1>3, <1>4 DEF Rows
<1>6. product' = [product EXCEPT ![p] = row]
  BY <1>2, <1>4 DEF RowsTyped
<1>7. product'[p] = row /\ held'[p] = n /\ owned'[p] = m
  BY <1>2, <1>6 DEF RowsTyped
<1>8. stock = product[p].stock => Shown(p)' = Shown(p)
  BY <1>5, <1>7 DEF Shown
<1>9. Tells(p, S, what)
  BY <1>5, <1>7, <1>8 DEF Tells
<1>10. RowWritten(p)
  <2>1. <<"stock", p>> \notin late' => row.reserved = n /\ row.stock = m
    BY <1>2, <1>5 DEF CountersExact
  <2>2. row.category # None => row.category \in category
    BY <1>2, <1>5 DEF CategoriesHold
  <2> QED BY <1>5, <1>7, <2>1, <2>2 DEF RowWritten
<1>11. PagesKept(None, Idle, p)
  BY <1>8 DEF PagesKept, Unpurged
<1>12. ASSUME CallsMove(None, Idle, p, S, what)
       PROVE  RatingExact(p)'
  BY <1>1, <1>5, <1>7, <1>12, RatingKept
<1> QED BY <1>1, <1>2, <1>5, <1>6, <1>9, <1>10, <1>11, <1>12, WriteOK

(* A unit is reserved. *)
LEMMA ReserveOK ==
    ASSUME CatInv, NEW p \in Products, Reserve(p)
    PROVE  CatInv'
<1>1. RowsTyped
  BY DEF CatInv, CatTyped
<1>2. product[p] \in Rows /\ held[p] \in Nat /\ owned[p] \in Int
  BY <1>1 DEF RowsTyped
<1>3. product[p].reserved \in 0..MaxStock /\ product[p].stock \in 0..MaxStock
  BY <1>2 DEF Rows
<1>4. product[p].reserved + 1 \in 0..MaxStock /\ held[p] + 1 \in Nat
  BY <1>2, <1>3, CatalogueAssumption DEF Reserve
<1>5. product' = [product EXCEPT ![p].reserved = product[p].reserved + 1,
                                 ![p].stock = product[p].stock]
  <2>1. product' = [product EXCEPT ![p] = [product[p] EXCEPT !.reserved = @ + 1]]
    BY DEF Reserve
  <2>2. [product[p] EXCEPT !.reserved = @ + 1]
          = [product[p] EXCEPT !.reserved = @ + 1, !.stock = product[p].stock]
    BY <1>2 DEF Rows
  <2> QED BY <1>1, <2>1, <2>2 DEF RowsTyped
<1>6. held' = [held EXCEPT ![p] = held[p] + 1] /\ owned' = [owned EXCEPT ![p] = owned[p]]
  BY <1>1 DEF Reserve, RowsTyped
<1>7. {"stock"} \in SUBSET Notes
  BY DEF Notes
<1>8. /\ product[p].live /\ Changes(None, Idle, p, {"save"}, {"stock"})
      /\ left > 0 /\ left' = left - 1 /\ UNCHANGED <<review, category, cache, late>>
  BY DEF Reserve, NextRequest
<1> QED BY <1>2, <1>3, <1>4, <1>5, <1>6, <1>7, <1>8, OrderMovesOK

(* A unit is given back. *)
LEMMA ReleaseOK ==
    ASSUME CatInv, NEW p \in Products, Release(p)
    PROVE  CatInv'
<1>1. RowsTyped /\ Unheard(p)
  BY DEF CatInv, CatTyped, RowOK
<1>2. product[p] \in Rows /\ held[p] \in Nat /\ owned[p] \in Int
  BY <1>1 DEF RowsTyped
<1>3. product[p].reserved \in 0..MaxStock /\ product[p].stock \in 0..MaxStock
  BY <1>2 DEF Rows
<1>4. product[p].reserved - 1 \in 0..MaxStock /\ held[p] - 1 \in Nat
  BY <1>2, <1>3, CatalogueAssumption DEF Release
<1>5. product' = [product EXCEPT ![p].reserved = product[p].reserved - 1,
                                 ![p].stock = product[p].stock]
  <2>1. product' = [product EXCEPT ![p] = [product[p] EXCEPT !.reserved = @ - 1]]
    BY DEF Release
  <2>2. [product[p] EXCEPT !.reserved = @ - 1]
          = [product[p] EXCEPT !.reserved = @ - 1, !.stock = product[p].stock]
    BY <1>2 DEF Rows
  <2> QED BY <1>1, <2>1, <2>2 DEF RowsTyped
<1>6. held' = [held EXCEPT ![p] = held[p] - 1] /\ owned' = [owned EXCEPT ![p] = owned[p]]
  BY <1>1 DEF Release, RowsTyped
<1>7. {"stock"} \in SUBSET Notes
  BY DEF Notes
<1>8. /\ held[p] > 0 /\ Changes(None, Idle, p, {"save"}, {"stock"})
      /\ left > 0 /\ left' = left - 1 /\ UNCHANGED <<review, category, cache, late>>
  BY DEF Release, NextRequest
<1>9. product[p].live
  BY <1>1, <1>8 DEF Unheard
<1> QED BY <1>2, <1>3, <1>4, <1>5, <1>6, <1>7, <1>8, <1>9, OrderMovesOK

(* A unit leaves the shop. *)
LEMMA CommitOK ==
    ASSUME CatInv, NEW p \in Products, Commit(p)
    PROVE  CatInv'
<1>1. RowsTyped /\ Unheard(p)
  BY DEF CatInv, CatTyped, RowOK
<1>2. product[p] \in Rows /\ held[p] \in Nat /\ owned[p] \in Int
  BY <1>1 DEF RowsTyped
<1>3. product[p].reserved \in 0..MaxStock /\ product[p].stock \in 0..MaxStock
  BY <1>2 DEF Rows
<1>4. /\ product[p].reserved - 1 \in 0..MaxStock /\ product[p].stock - 1 \in 0..MaxStock
      /\ held[p] - 1 \in Nat /\ owned[p] - 1 \in Int
  BY <1>2, <1>3, CatalogueAssumption DEF Commit
<1>5. product' = [product EXCEPT ![p].reserved = product[p].reserved - 1,
                                 ![p].stock = product[p].stock - 1]
  BY DEF Commit
<1>6. held' = [held EXCEPT ![p] = held[p] - 1] /\ owned' = [owned EXCEPT ![p] = owned[p] - 1]
  BY DEF Commit
<1>7. {"stock", "page"} \in SUBSET Notes
  BY DEF Notes
<1>8. /\ held[p] > 0 /\ Changes(None, Idle, p, {"save", "fill"}, {"stock", "page"})
      /\ left > 0 /\ left' = left - 1 /\ UNCHANGED <<review, category, cache>>
      /\ late' = late \cup Unpurged(p)
  BY DEF Commit, NextRequest
<1>9. product[p].live
  BY <1>1, <1>8 DEF Unheard
<1> QED BY <1>2, <1>3, <1>4, <1>5, <1>6, <1>7, <1>8, <1>9, OrderMovesOK

-----------------------------------------------------------------------------

(* Every step preserves the invariant. *)
LEMMA CatStep == CatInv /\ [CatNext]_catVars => CatInv'
<1> SUFFICES ASSUME CatInv, [CatNext]_catVars PROVE CatInv'
  OBVIOUS
<1>1. ASSUME NEW h \in Handlers, BeginProduct(h) PROVE CatInv'
  <2>1. ASSUME NEW p \in Products, NEW text \in Texts, NEW stock \in 0..MaxStock,
               NEW c \in Maybe(Categories), CreateByRest(h, p, text, stock, c)
        PROVE  CatInv'
    BY <2>1, CreateOK DEF CreateByRest
  <2>2. ASSUME NEW p \in Products, NEW text \in Texts, CreateByGrpc(h, p, text) PROVE CatInv'
    <3>1. 0 \in 0..MaxStock /\ None \in Maybe(Categories) /\ FALSE \in BOOLEAN
      BY CatalogueAssumption DEF Maybe
    <3> QED BY <2>2, <3>1, CreateOK DEF CreateByGrpc
  <2>3. ASSUME NEW p \in Products, NEW text \in Maybe(Texts), NEW stock \in Maybe(0..MaxStock),
               NEW c \in Maybe(Categories), UpdateByRest(h, p, text, stock, c)
        PROVE  CatInv'
    BY <2>3, UpdateReadOK DEF UpdateByRest
  <2>4. ASSUME NEW p \in Products, NEW text \in Maybe(Texts), UpdateByGrpc(h, p, text)
        PROVE  CatInv'
    <3>1. None \in Maybe(0..MaxStock) /\ None \in Maybe(Categories) /\ FALSE \in BOOLEAN
      BY DEF Maybe
    <3> QED BY <2>4, <3>1, UpdateReadOK DEF UpdateByGrpc
  <2> QED BY <1>1, <2>1, <2>2, <2>3, <2>4, ListProductsOK, GetProductOK, AddStockOK
    DEF BeginProduct
<1>2. ASSUME NEW h \in Handlers, BeginReview(h) PROVE CatInv'
  BY <1>2, ReviewCreateOK, ReviewReadOK, ReviewFindOK DEF BeginReview
<1>3. ASSUME NEW h \in Handlers, BeginCategory(h) PROVE CatInv'
  BY <1>3, CategoryCreateOK, CategoryReadOK, CategoryDeleteOK DEF BeginCategory
<1>4. ASSUME NEW h \in Handlers, Proceed(h) PROVE CatInv'
  BY <1>4, FindOK, FillOK, UpdateSaveOK, RereadOK, PurgeScanOK, PurgeDeleteOK, ReviewSaveOK,
     ReviewEraseOK, AggregateOK, RateOK, CategorySaveOK, FailOK DEF Proceed
<1>5. CASE Orders
  BY <1>5, ReserveOK, ReleaseOK, CommitOK DEF Orders
<1>6. CASE Expiry
  BY <1>6, ExpireOK DEF Expiry
<1>7. CASE UNCHANGED catVars
  <2>1. UNCHANGED <<product, category, review, cache, call, left, held, owned, late>>
    BY <1>7 DEF catVars
  <2>2. CatTyped'
    BY <2>1 DEF CatInv, CatTyped, RowsTyped, CategoriesHold, CacheTyped
  <2>3. \A k \in Pages : PageNow(k)' = PageNow(k) /\ (Covered(k) => Covered(k)')
    BY <2>1 DEF PageNow, Shown, Covered
  <2>4. \A p \in Products : ScoresOf(p)' = ScoresOf(p) /\ (RatedBy(p)' <=> RatedBy(p))
    BY <2>1 DEF ScoresOf, RatedBy
  <2>5. \A p \in Products : RowOK(p) => RowOK(p)'
    BY <2>1, <2>4 DEF RowOK, Unheard, CountersExact, RatingExact
  <2>6. ASSUME NEW h \in Handlers PROVE CallOK(call[h])'
    <3>1. PICK c : c = call[h]
      OBVIOUS
    <3>2. CallOK(c) /\ call'[h] = c
      BY <2>1, <3>1 DEF CatInv
    <3>3. ScoresOf(c.p)' = ScoresOf(c.p) /\ PageNow(c.p)' = PageNow(c.p)
      BY <2>1 DEF ScoresOf, PageNow, Shown
    <3>4. CallOK(c)'
      BY <2>1, <3>2, <3>3 DEF CallOK, UpToDate
    <3> QED BY <3>2, <3>4
  <2> QED BY <2>2, <2>3, <2>5, <2>6 DEF CatInv
<1> QED BY <1>1, <1>2, <1>3, <1>4, <1>5, <1>6, <1>7 DEF CatNext, Begin

(* The invariant holds in every state. *)
LEMMA CatAlways == CatSpec => []CatInv
<1>1. CatInit => CatInv
  BY CatInitInv
<1>2. CatInv /\ [CatNext]_catVars => CatInv'
  BY CatStep
<1> QED BY <1>1, <1>2, PTL DEF CatSpec

(* Every state has its type, and a product's category exists however requests of
   products and categories interleave (internal/product/model/product.go:28). *)
THEOREM CatalogueTyped == CatSpec => []CatTypeOK
<1>1. CatInv => CatTypeOK
  BY CatInvImplies
<1> QED BY <1>1, CatAlways, PTL

(* Edits that no other write overtook keep the counters that orders moved
   (internal/product/service/product.go:129). *)
THEOREM EditsKeepCounters == CatSpec => []LoneEditsKeepCounters
<1>1. CatInv => LoneEditsKeepCounters
  BY CatInvImplies
<1> QED BY <1>1, CatAlways, PTL

(* The rating of a product is that of its reviews once those who write reviews
   are done, unless one of them was overtaken or failed
   (internal/product/service/review.go:94-100). *)
THEOREM RatingsFollowReviews == CatSpec => []LoneRatingsAreExact
<1>1. CatInv => LoneRatingsAreExact
  BY CatInvImplies
<1> QED BY <1>1, CatAlways, PTL

(* Once nobody is cleaning, a cached page is what the table says, unless it was
   overtaken or a writer left it alone (internal/product/port/http/handlers.go). *)
THEOREM CachedIsFresh == CatSpec => []LoneEntriesAreFresh
<1>1. CatInv => LoneEntriesAreFresh
  BY CatInvImplies
<1> QED BY <1>1, CatAlways, PTL
=============================================================================
