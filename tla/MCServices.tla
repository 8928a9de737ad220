------------------------------ MODULE MCServices ------------------------------
(***************************************************************************)
(* The smaller services, side by side: they share no table and no call, so *)
(* a behaviour is one of the service that focus names, and the others rest *)
(* in their first state.                                                   *)
(***************************************************************************)
EXTENDS Accounts, Addresses, Catalogue, Notices, RateLimit, Checkout, Paging, LowStock, TLC

CONSTANTS p1, p2, t1, t2 \* two products, and two things a product says of itself

CatalogueRequests == 3 \* bound on the requests that the catalogue gets

VARIABLE focus

acctOwn == <<mode, user, account, session, rowOf, here, there, changed>>
addrOwn == <<address, errand, chosen, clobber, unseen>>
catOwn == <<product, category, review, cache, call, held, owned, late>>
noteOwn == <<mailing, progress, history, wish, task, mails, dead, twice, unwanted>>
rateOwn == <<limit, hits, expires, lost, passing, refused>>
checkoutOwn == <<price, coupon, usable, bill, charge>>
lowOwn == <<units, booked, toCheck, events, owed>>

On(service) == focus = service /\ UNCHANGED focus

MCInit ==
    /\ focus \in {"accounts", "addresses", "catalogue", "notices", "rate limit", "checkout",
                 "paging", "low stock"}
    /\ AcctInit
    /\ focus # "accounts" => mode = "jwt" /\ \A i \in Ids : user[i] = None
    /\ AddrInit
    /\ CatInit
    /\ NoteInit
    /\ focus # "notices" => mailing
    /\ RateInit
    /\ focus # "rate limit" => limit = 1
    /\ CheckoutInit
    /\ focus # "checkout" => \A g \in Goods : price[g] = 1
    /\ PageInit
    /\ focus # "paging" => total = 0 /\ ~ desc /\ size = 1 /\ page = 1
    /\ LowInit
    /\ focus # "low stock" => \A w \in Wares : units[w] = 0

MCNext ==
    \/ /\ On("accounts") /\ AcctNext
       /\ UNCHANGED <<addrOwn, catOwn, noteOwn, rateOwn, checkoutOwn, pageVars, lowOwn>>
    \/ /\ On("addresses") /\ AddrNext
       /\ UNCHANGED <<acctOwn, catOwn, noteOwn, rateOwn, checkoutOwn, pageVars, lowOwn>>
    \/ /\ On("catalogue") /\ CatNext /\ left' >= MaxRequests - CatalogueRequests
       /\ UNCHANGED <<acctOwn, addrOwn, noteOwn, rateOwn, checkoutOwn, pageVars, lowOwn>>
    \/ /\ On("notices") /\ NoteNext
       /\ UNCHANGED <<acctOwn, addrOwn, catOwn, rateOwn, checkoutOwn, pageVars, lowOwn>>
    \/ /\ On("rate limit") /\ RateNext
       /\ UNCHANGED <<acctOwn, addrOwn, catOwn, noteOwn, checkoutOwn, pageVars, lowOwn>>
    \/ /\ On("checkout") /\ CheckoutNext
       /\ UNCHANGED <<acctOwn, addrOwn, catOwn, noteOwn, rateOwn, pageVars, lowOwn>>
    \/ /\ On("paging") /\ PageNext
       /\ UNCHANGED <<acctOwn, addrOwn, catOwn, noteOwn, rateOwn, checkoutOwn, lowOwn, left>>
    \/ /\ On("low stock") /\ LowNext
       /\ UNCHANGED <<acctOwn, addrOwn, catOwn, noteOwn, rateOwn, checkoutOwn, pageVars>>

MCSpec ==
    /\ MCInit
    /\ [][MCNext]_<<focus, acctOwn, addrOwn, catOwn, noteOwn, rateOwn, checkoutOwn, pageVars,
                lowOwn, left>>
    /\ RateFairness /\ LowFairness

(* Of two products one is listed at the start *)
MCRows ==
    p1 :> [live |-> TRUE, text |-> t1, stock |-> 1, reserved |-> 0,
           rating |-> Unrated, category |-> None]
    @@ p2 :> [live |-> FALSE, text |-> t2, stock |-> 0, reserved |-> 0,
              rating |-> Unrated, category |-> None]

(* The coupons that administrators ask for: two are refused *)
MCOffers ==
    [kind : {"fixed"}, value : {-1, 199}, least : {0, 150}]
    \cup [kind : {"percentage"}, value : {33, 100, 150}, least : {0}]

=============================================================================
