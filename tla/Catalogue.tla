------------------------------ MODULE Catalogue ------------------------------
(***************************************************************************)
(* internal/product with the cache of pkg/redis: products, the category    *)
(* they may be in, reviews with the rating that the product row keeps of   *)
(* them, and the cached answers of GET /products and /products/:id.  The   *)
(* order service moves the stock counters of the same rows.                *)
(*                                                                         *)
(* A request is split at its statements: what it read may have changed by  *)
(* the time it writes.  The list of products is one page that shows all;   *)
(* the count that goes with it is left out.                                *)
(***************************************************************************)
EXTENDS Requests

CONSTANTS Products, Categories,
          Reviewers,   \* users, who may review products
          Texts,       \* what a product says of itself: name, description, price, images
          Scores,      \* ratings that a review gives
          FirstRows,   \* the products table at the start
          MaxStock     \* bound on the units of a product

(* AVG and COUNT are stood for by the scores they are computed from *)
Ratings == [Reviewers -> Maybe(Scores)]

Unrated == [u \in Reviewers |-> None]

Rows == [live : BOOLEAN, text : Texts, stock : 0..MaxStock, reserved : 0..MaxStock,
         rating : Ratings, category : Maybe(Categories)]

Reviews == [id : 0..MaxRequests, score : Scores]

Views == [text : Texts, stock : 0..MaxStock, rating : Ratings]

Lists == [Products -> Maybe(Views)]

ASSUME CatalogueAssumption ==
    /\ MaxStock \in Nat
    /\ None \notin Products \cup Categories \cup Scores \cup Views \cup 0..MaxStock
    /\ None \notin Reviews /\ None \notin Lists /\ None \notin Texts /\ None \notin Handlers
    /\ Products \cap Categories = {} /\ "list" \notin Products \cup Categories
    /\ FirstRows \in [Products -> Rows]
    /\ \A p \in Products : FirstRows[p].reserved <= FirstRows[p].stock
    /\ \A p \in Products : FirstRows[p].rating = Unrated
    /\ \A p \in Products : ~ FirstRows[p].live => FirstRows[p].reserved = 0

VARIABLES product,  \* table products
          category, \* table categories: the rows that exist
          review,   \* table reviews, by product and user (unique index)
          cache,    \* Redis: the answers kept for GET /products/:id and /products
          call,     \* the request a handler works on
          held,     \* units that orders hold
          owned,    \* units that the shop owns: what was last set, added and sold
          late      \* what no longer follows, because requests overlapped or failed

catVars == <<product, category, review, cache, call, left, held, owned, late>>

Pages == Products \cup {"list"}

(* What domain.Product shows of a row *)
Shown(p) == IF product[p].live
              THEN [text |-> product[p].text, stock |-> product[p].stock,
                    rating |-> product[p].rating]
              ELSE None

PageOf(k) == IF k \in Products THEN Views ELSE Lists

PageNow(k) == IF k \in Products THEN Shown(k) ELSE [p \in Products |-> Shown(p)]

(* p, u: the product (or page, or category) and user that the request is about;
   row: what it read and is going to write; old: what changed under it since;
   sets: it sets the stock; rest: it came by REST, which keeps the cache *)
Idle == [at |-> "idle", p |-> None, u |-> None, row |-> None, old |-> {},
         todo |-> {}, sets |-> FALSE, rest |-> FALSE]

CatInit ==
    /\ product = FirstRows
    /\ category = Categories
    /\ review = [p \in Products |-> [u \in Reviewers |-> None]]
    /\ cache = [k \in Pages |-> None]
    /\ call = [h \in Handlers |-> Idle]
    /\ left = MaxRequests
    /\ held = [p \in Products |-> FirstRows[p].reserved]
    /\ owned = [p \in Products |-> FirstRows[p].stock]
    /\ late = {}

-----------------------------------------------------------------------------

At(h, step) == call[h].at = step

(* A request arrives and has passed the middleware *)
Arrive(h) == At(h, "idle") /\ NextRequest

Goes(h, c) == call' = [call EXCEPT ![h] = c]

(* h goes on to c; what the handlers at S read about p has changed *)
Changes(h, c, p, S, what) ==
    call' = [g \in Handlers |->
               IF g = h THEN c
               ELSE IF call[g].at \in S /\ call[g].p \in {p, "list"}
                 THEN [call[g] EXCEPT !.old = @ \cup what]
                 ELSE call[g]]

(* The pages that show p are out of date, and nobody is going to remove them *)
Unpurged(p) == {<<"page", p>>, <<"page", "list">>}

(* A REST request that wrote goes on to remove the cached pages *)
Purging(p) == [Idle EXCEPT !.at = "purge", !.p = p, !.rest = TRUE]

(* ... a gRPC request is over, and the pages stay *)
After(c) == IF c.rest THEN Purging(c.p) ELSE Idle

Left(c) == IF c.rest THEN {} ELSE Unpurged(c.p)

-----------------------------------------------------------------------------
(* Reading products *)

(* GetProductByID: the cache has nothing for it, or Redis fails.  A hit is
   answered and changes nothing, and so does a read by gRPC. *)
GetProduct(h, p) ==
    /\ Arrive(h)
    /\ Goes(h, [Idle EXCEPT !.at = "find", !.p = p])
    /\ UNCHANGED <<product, category, review, cache, held, owned, late>>

ListProducts(h) ==
    /\ Arrive(h)
    /\ Goes(h, [Idle EXCEPT !.at = "find", !.p = "list"])
    /\ UNCHANGED <<product, category, review, cache, held, owned, late>>

Find(h) ==
    /\ At(h, "find")
    /\ Goes(h, IF PageNow(call[h].p) = None THEN Idle
               ELSE [call[h] EXCEPT !.at = "fill", !.row = PageNow(call[h].p)])
    /\ UNCHANGED <<product, category, review, cache, left, held, owned, late>>

(* [variant] an answer is cached unless one is there already *)
FillUnlessThere(h) ==
    /\ At(h, "fill")
    /\ LET k == call[h].p IN
         /\ cache' = [cache EXCEPT ![k] = IF @ = None THEN call[h].row ELSE @]
         /\ late' = IF "page" \in call[h].old THEN late \cup {<<"page", k>>}
                    ELSE late \ {<<"page", k>>}
    /\ Goes(h, Idle)
    /\ UNCHANGED <<product, category, review, left, held, owned>>

(* The answer is sent and then cached, with an expiry *)
Fill(h) ==
    /\ At(h, "fill")
    /\ LET k == call[h].p IN
         /\ cache' = [cache EXCEPT ![k] = call[h].row]
         /\ late' = IF "page" \in call[h].old THEN late \cup {<<"page", k>>}
                    ELSE late \ {<<"page", k>>}
    /\ Goes(h, Idle)
    /\ UNCHANGED <<product, category, review, left, held, owned>>

(* A page expires after ProductCachingTime *)
Expire(k) ==
    /\ cache[k] # None
    /\ cache' = [cache EXCEPT ![k] = None]
    /\ late' = late \ {<<"page", k>>}
    /\ UNCHANGED <<product, category, review, call, left, held, owned>>

(* RemovePattern: the cursor goes over the keys page by page.  It meets every
   key that is there all along, and may meet one that was added meanwhile. *)
PurgeScan(h) ==
    /\ At(h, "purge")
    /\ LET found == {k \in Pages : cache[k] # None} IN
       Goes(h, IF found = {} THEN Idle
               ELSE [call[h] EXCEPT !.at = "delete", !.todo = found])
    /\ UNCHANGED <<product, category, review, cache, left, held, owned, late>>

PurgeDelete(h) ==
    /\ At(h, "delete")
    /\ \E k \in call[h].todo \cup {j \in Pages : cache[j] # None} :
         /\ cache' = [cache EXCEPT ![k] = None]
         /\ late' = late \ {<<"page", k>>}
         /\ Goes(h, IF call[h].todo \subseteq {k} THEN Idle
                    ELSE [call[h] EXCEPT !.todo = @ \ {k}])
    /\ UNCHANGED <<product, category, review, left, held, owned>>

-----------------------------------------------------------------------------
(* Writing products *)

(* Unique index on the name *)
NameFree(p, text) == \A q \in Products \ {p} : product[q].live => product[q].text # text

(* The CHECKs and the foreign key of the table products *)
Storable(row) ==
    /\ row.reserved <= row.stock
    /\ row.category # None => row.category \in category

NewRow(text, stock, c) ==
    [live |-> TRUE, text |-> text, stock |-> stock, reserved |-> 0,
     rating |-> Unrated, category |-> c]

CreateProduct(h, p, row, rest) ==
    /\ Arrive(h)
    /\ ~ product[p].live
    /\ NameFree(p, row.text)
    /\ Storable(row)
    /\ product' = [product EXCEPT ![p] = row]
    /\ owned' = [owned EXCEPT ![p] = row.stock]
    /\ LET c == [Idle EXCEPT !.p = p, !.rest = rest] IN
         /\ Changes(h, After(c), p, {"fill"}, {"page"})
         /\ late' = late \cup Left(c)
    /\ UNCHANGED <<category, review, cache, held>>

CreateByRest(h, p, text, stock, c) == CreateProduct(h, p, NewRow(text, stock, c), TRUE)

(* gRPC carries no stock, images or category *)
CreateByGrpc(h, p, text) == CreateProduct(h, p, NewRow(text, 0, None), FALSE)

(* Update reads the row and changes the fields that the request has ... *)
Edited(row, text, stock, c) ==
    [row EXCEPT !.text = IF text = None THEN @ ELSE text,
                !.stock = IF stock = None THEN @ ELSE stock,
                !.category = IF c = None THEN @ ELSE c]

UpdateRead(h, p, text, stock, c, rest) ==
    /\ Arrive(h)
    /\ product[p].live
    /\ Goes(h, [Idle EXCEPT !.at = "save", !.p = p, !.rest = rest,
                  !.sets = stock # None, !.row = Edited(product[p], text, stock, c)])
    /\ UNCHANGED <<product, category, review, cache, held, owned, late>>

UpdateByRest(h, p, text, stock, c) == UpdateRead(h, p, text, stock, c, TRUE)

UpdateByGrpc(h, p, text) == UpdateRead(h, p, text, None, None, FALSE)

(* [variant] an edit that sets the stock clears the reservations *)
UpdateSaveAfresh(h) ==
    /\ At(h, "save")
    /\ LET c == call[h] IN
         /\ NameFree(c.p, c.row.text)
         /\ Storable(c.row)
         /\ product' = [product EXCEPT ![c.p] =
                          IF c.sets THEN [c.row EXCEPT !.reserved = 0] ELSE c.row]
         /\ owned' = IF c.sets THEN [owned EXCEPT ![c.p] = c.row.stock] ELSE owned
         /\ late' = late \cup ((c.old \ {"page"}) \X {c.p}) \cup Left(c)
         /\ Changes(h, After(c), c.p, {"save", "fill"}, {"stock", "rating", "page"})
    /\ UNCHANGED <<category, review, cache, left, held>>

(* ... and saves it whole, counters and rating included *)
UpdateSave(h) ==
    /\ At(h, "save")
    /\ LET c == call[h] IN
         /\ NameFree(c.p, c.row.text)
         /\ Storable(c.row)
         /\ product' = [product EXCEPT ![c.p] = c.row]
         /\ owned' = IF c.sets THEN [owned EXCEPT ![c.p] = c.row.stock] ELSE owned
         /\ late' = late \cup ((c.old \ {"page"}) \X {c.p}) \cup Left(c)
         /\ Changes(h, After(c), c.p, {"save", "fill"}, {"stock", "rating", "page"})
    /\ UNCHANGED <<category, review, cache, left, held>>

(* One UPDATE adds the units, and the row is read again for the answer *)
AddStock(h, p) ==
    /\ Arrive(h)
    /\ product[p].live
    /\ product[p].stock < MaxStock
    /\ product' = [product EXCEPT ![p].stock = @ + 1]
    /\ owned' = [owned EXCEPT ![p] = @ + 1]
    /\ Changes(h, [Purging(p) EXCEPT !.at = "reread"], p, {"save", "fill"}, {"stock", "page"})
    /\ UNCHANGED <<category, review, cache, held, late>>

Reread(h) ==
    /\ At(h, "reread")
    /\ Goes(h, Purging(call[h].p))
    /\ UNCHANGED <<product, category, review, cache, left, held, owned, late>>

-----------------------------------------------------------------------------
(* The order service's statements on a product row, one unit each *)

Reserve(p) ==
    /\ NextRequest
    /\ product[p].live
    /\ product[p].stock > product[p].reserved
    /\ product' = [product EXCEPT ![p].reserved = @ + 1]
    /\ held' = [held EXCEPT ![p] = @ + 1]
    /\ Changes(None, Idle, p, {"save"}, {"stock"})
    /\ UNCHANGED <<category, review, cache, owned, late>>

Release(p) ==
    /\ NextRequest
    /\ held[p] > 0 /\ product[p].reserved > 0
    /\ product' = [product EXCEPT ![p].reserved = @ - 1]
    /\ held' = [held EXCEPT ![p] = @ - 1]
    /\ Changes(None, Idle, p, {"save"}, {"stock"})
    /\ UNCHANGED <<category, review, cache, owned, late>>

(* A unit that is paid leaves the shop; the cached pages stay *)
Commit(p) ==
    /\ NextRequest
    /\ held[p] > 0 /\ product[p].reserved > 0 /\ product[p].stock > 0
    /\ product' = [product EXCEPT ![p].reserved = @ - 1, ![p].stock = @ - 1]
    /\ held' = [held EXCEPT ![p] = @ - 1]
    /\ owned' = [owned EXCEPT ![p] = @ - 1]
    /\ late' = late \cup Unpurged(p)
    /\ Changes(None, Idle, p, {"save", "fill"}, {"stock", "page"})
    /\ UNCHANGED <<category, review, cache>>

-----------------------------------------------------------------------------
(* Reviews *)

(* After a review was written, its product's rating is computed and stored *)
Rerate(h, p) ==
    Changes(h, [Idle EXCEPT !.at = "aggregate", !.p = p], p, {"rate"}, {"rating"})

(* CreateReview: one review of a product per user.  The product is not looked
   up; a review of an id that no product has matters to nothing here. *)
ReviewCreate(h, p, u, score) ==
    /\ Arrive(h)
    /\ product[p].live
    /\ review[p][u] = None
    /\ review' = [review EXCEPT ![p][u] = [id |-> left, score |-> score]]
    /\ Rerate(h, p)
    /\ UNCHANGED <<product, category, cache, held, owned, late>>

(* UpdateReview and DeleteReview read the review, which has to be the user's *)
ReviewRead(h, p, u, score) ==
    /\ Arrive(h)
    /\ review[p][u] # None
    /\ Goes(h, [Idle EXCEPT !.at = "rewrite", !.p = p, !.u = u,
                  !.row = [review[p][u] EXCEPT !.score = score]])
    /\ UNCHANGED <<product, category, review, cache, held, owned, late>>

ReviewFind(h, p, u) ==
    /\ Arrive(h)
    /\ review[p][u] # None
    /\ Goes(h, [Idle EXCEPT !.at = "erase", !.p = p, !.u = u, !.row = review[p][u]])
    /\ UNCHANGED <<product, category, review, cache, held, owned, late>>

(* Saved whole: a review deleted meanwhile is inserted again, unless the user
   has written another *)
ReviewSave(h) ==
    /\ At(h, "rewrite")
    /\ LET c == call[h] IN
         /\ review[c.p][c.u] # None => review[c.p][c.u].id = c.row.id
         /\ review' = [review EXCEPT ![c.p][c.u] = c.row]
         /\ Rerate(h, c.p)
    /\ UNCHANGED <<product, category, cache, left, held, owned, late>>

(* No row to delete is no error *)
ReviewErase(h) ==
    /\ At(h, "erase")
    /\ LET c == call[h] IN
         /\ review' = [review EXCEPT ![c.p][c.u] =
                         IF @ # None /\ @.id = c.row.id THEN None ELSE @]
         /\ Rerate(h, c.p)
    /\ UNCHANGED <<product, category, cache, left, held, owned, late>>

ScoresOf(p) == [u \in Reviewers |-> IF review[p][u] = None THEN None ELSE review[p][u].score]

Aggregate(h) ==
    /\ At(h, "aggregate")
    /\ Goes(h, [call[h] EXCEPT !.at = "rate", !.row = ScoresOf(call[h].p)])
    /\ UNCHANGED <<product, category, review, cache, left, held, owned, late>>

(* [variant] the rating is stored only when the product has one already *)
RateIfRated(h) ==
    /\ At(h, "rate")
    /\ LET p == call[h].p IN
         /\ product' = [product EXCEPT ![p].rating =
                          IF call[h].row = Unrated THEN @ ELSE call[h].row]
         /\ late' = late \cup (call[h].old \X {p}) \cup Unpurged(p)
         /\ Changes(h, Idle, p, {"save", "fill"}, {"rating", "page"})
    /\ UNCHANGED <<category, review, cache, left, held, owned>>

Rate(h) ==
    /\ At(h, "rate")
    /\ LET p == call[h].p IN
         /\ product' = [product EXCEPT ![p].rating = call[h].row]
         /\ late' = late \cup (call[h].old \X {p}) \cup Unpurged(p)
         /\ Changes(h, Idle, p, {"save", "fill"}, {"rating", "page"})
    /\ UNCHANGED <<category, review, cache, left, held, owned>>

-----------------------------------------------------------------------------
(* Categories *)

(* A category gets an id that no request knows yet *)
CategoryCreate(h, c) ==
    /\ Arrive(h)
    /\ c \notin category
    /\ \A g \in Handlers : call[g].p # c
    /\ category' = category \cup {c}
    /\ UNCHANGED <<product, review, cache, call, held, owned, late>>

CategoryRead(h, c) ==
    /\ Arrive(h)
    /\ c \in category
    /\ Goes(h, [Idle EXCEPT !.at = "resave", !.p = c])
    /\ UNCHANGED <<product, category, review, cache, held, owned, late>>

(* A category deleted meanwhile is inserted again *)
CategorySave(h) ==
    /\ At(h, "resave")
    /\ category' = category \cup {call[h].p}
    /\ Goes(h, Idle)
    /\ UNCHANGED <<product, review, cache, left, held, owned, late>>

(* [variant] a category is deleted with products in it *)
CategoryDeleteInUse(h, c) ==
    /\ Arrive(h)
    /\ category' = category \ {c}
    /\ UNCHANGED <<product, review, cache, call, held, owned, late>>

(* The foreign key keeps a category that a product is in *)
CategoryDelete(h, c) ==
    /\ Arrive(h)
    /\ \A p \in Products : product[p].live => product[p].category # c
    /\ category' = category \ {c}
    /\ UNCHANGED <<product, review, cache, call, held, owned, late>>

-----------------------------------------------------------------------------

(* A statement or a command fails: a constraint, a timeout, a client that is
   gone.  What was written before stays, what was to follow does not happen. *)
Fail(h) ==
    /\ ~ At(h, "idle")
    /\ Goes(h, Idle)
    /\ late' = late \cup
         (IF call[h].at \in {"reread", "purge", "delete"} THEN Unpurged(call[h].p)
          ELSE IF call[h].at \in {"aggregate", "rate"} THEN {<<"rating", call[h].p>>}
          ELSE {})
    /\ UNCHANGED <<product, category, review, cache, left, held, owned>>

(* What a handler does next in a request it has *)
Proceed(h) ==
    \/ Find(h) \/ Fill(h) \/ UpdateSave(h) \/ Reread(h) \/ PurgeScan(h) \/ PurgeDelete(h)
    \/ ReviewSave(h) \/ ReviewErase(h) \/ Aggregate(h) \/ Rate(h) \/ CategorySave(h)
    \/ Fail(h)

BeginProduct(h) ==
    \/ ListProducts(h)
    \/ \E p \in Products :
         \/ GetProduct(h, p)
         \/ AddStock(h, p)
         \/ \E text \in Texts, stock \in 0..MaxStock, c \in Maybe(Categories) :
              CreateByRest(h, p, text, stock, c)
         \/ \E text \in Texts : CreateByGrpc(h, p, text)
         \/ \E text \in Maybe(Texts), stock \in Maybe(0..MaxStock), c \in Maybe(Categories) :
              UpdateByRest(h, p, text, stock, c)
         \/ \E text \in Maybe(Texts) : UpdateByGrpc(h, p, text)

BeginReview(h) ==
    \E p \in Products, u \in Reviewers :
      \/ \E score \in Scores : ReviewCreate(h, p, u, score) \/ ReviewRead(h, p, u, score)
      \/ ReviewFind(h, p, u)

BeginCategory(h) ==
    \E c \in Categories : CategoryCreate(h, c) \/ CategoryRead(h, c) \/ CategoryDelete(h, c)

Begin(h) == BeginProduct(h) \/ BeginReview(h) \/ BeginCategory(h)

Orders == \E p \in Products : Reserve(p) \/ Release(p) \/ Commit(p)

Expiry == \E k \in Pages : Expire(k)

CatNext == (\E h \in Handlers : Begin(h) \/ Proceed(h)) \/ Orders \/ Expiry

CatSpec == CatInit /\ [][CatNext]_catVars

-----------------------------------------------------------------------------

(* What a handler has in hand at a step, besides what it is about *)
InHand(c) ==
    /\ c.at \in {"find", "fill"} => c.p \in Pages
    /\ c.at = "resave" => c.p \in Categories
    /\ c.at \notin {"idle", "find", "fill", "resave"} => c.p \in Products
    /\ c.at = "fill" => c.row \in PageOf(c.p)
    /\ c.at = "save" => c.row \in Rows /\ c.row.live
    /\ c.at \in {"rewrite", "erase"} => c.u \in Reviewers /\ c.row \in Reviews
    /\ c.at = "rate" => c.row \in Ratings
    /\ c.old \subseteq {"stock", "rating", "page"} /\ c.todo \subseteq Pages

Steps == {"idle", "find", "fill", "save", "reread", "purge", "delete", "rewrite",
          "erase", "aggregate", "rate", "resave"}

(* The state has its type, and every product's category exists: deleting one,
   and editing a product, keep the reference (internal/product/model/product.go:28) *)
CatTypeOK ==
    /\ product \in [Products -> Rows]
    /\ category \subseteq Categories
    /\ review \in [Products -> [Reviewers -> Maybe(Reviews)]]
    /\ DOMAIN cache = Pages
    /\ \A k \in Pages : cache[k] # None => cache[k] \in PageOf(k)
    /\ DOMAIN call = Handlers
    /\ \A h \in Handlers : call[h].at \in Steps /\ InHand(call[h])
    /\ left \in 0..MaxRequests
    /\ \A p \in Products :
         product[p].live /\ product[p].category # None => product[p].category \in category

(* As long as no edit of p saved stock counters that had moved since it read
   them, the row holds what orders hold and the stock that the shop owns
   (internal/product/service/product.go:129) *)
LoneEditsKeepCounters ==
    \A p \in Products :
      product[p].live /\ <<"stock", p>> \notin late =>
        product[p].reserved = held[p] /\ product[p].stock = owned[p]

(* Once the review requests of p are over, its rating is that of its reviews, as
   long as none stored an aggregate that had changed, no edit saved one and none
   failed half-way (internal/product/service/review.go:94-100) *)
LoneRatingsAreExact ==
    \A p \in Products :
      (/\ product[p].live
       /\ <<"rating", p>> \notin late
       /\ \A h \in Handlers : ~ (call[h].at \in {"aggregate", "rate"} /\ call[h].p = p))
      => product[p].rating = ScoresOf(p)

(* Once those who wrote by REST have removed the pages, a cached page is what the
   table says, as long as it was not computed before a write and stored after
   it, and no writer that leaves the cache alone came by (gRPC, a review, a
   payment) or failed before it was done (internal/product/port/http/handlers.go) *)
LoneEntriesAreFresh ==
    (\A h \in Handlers : call[h].at \notin {"reread", "purge", "delete"}) =>
      \A k \in Pages : <<"page", k>> \notin late => cache[k] \in {None, PageNow(k)}

=============================================================================
