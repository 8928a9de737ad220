------------------------------- MODULE Paging -------------------------------
(***************************************************************************)
(* Lists in pages (pkg/paging, and the repositories that count rows, make  *)
(* a Pagination and fetch a page): a client walks through the pages while  *)
(* rows are added.  Rows are numbered in the order in which they came.     *)
(***************************************************************************)
EXTENDS Integers

CONSTANTS DefaultPageSize, \* 20 in the code
          PageSizes,       \* the sizes that clients ask for
          MaxRows          \* bound on the number of rows

ASSUME PagingAssumption ==
    /\ DefaultPageSize \in Nat \ {0}
    /\ PageSizes \subseteq Int
    /\ MaxRows \in Nat

VARIABLES
  total,   \* rows there are
  desc,    \* newest first, the default for orders
  size,    \* the page size asked for
  page,    \* the page asked for
  counted, \* between a count and its fetch: the total counted, else -1
  began,   \* rows there were when the walk began
  shown,   \* how often the walk has shown each row
  between, \* rows came between a count and its fetch
  over     \* the client has seen the last page

pageVars == <<total, desc, size, page, counted, began, shown, between, over>>

Limit(pageSize) ==
    IF 0 < pageSize /\ pageSize <= DefaultPageSize THEN pageSize ELSE DefaultPageSize

TotalPage(pageSize, n) == (n + Limit(pageSize) - 1) \div Limit(pageSize)

CurrentPage(p, pageSize, n) == IF p < 1 \/ TotalPage(pageSize, n) = 0 THEN 1 ELSE p

(* [variant] pages are counted from zero *)
SkipFromZero(p, pageSize, n) == CurrentPage(p, pageSize, n) * Limit(pageSize)

Skip(p, pageSize, n) == (CurrentPage(p, pageSize, n) - 1) * Limit(pageSize)

PageInit ==
    /\ total \in 0..MaxRows
    /\ desc \in BOOLEAN
    /\ size \in PageSizes
    /\ page \in {0, 1}
    /\ counted = -1
    /\ began = total
    /\ shown = [r \in 1..MaxRows |-> 0]
    /\ between = FALSE
    /\ over = FALSE

AddRow ==
    /\ total < MaxRows
    /\ total' = total + 1
    /\ between' = (between \/ counted # -1)
    /\ UNCHANGED <<desc, size, page, counted, began, shown, over>>

(* SELECT count( * ) *)
CountRows ==
    /\ ~ over /\ counted = -1
    /\ counted' = total
    /\ UNCHANGED <<total, desc, size, page, began, shown, between, over>>

(* The place of row r in the list *)
Position(r) == IF desc THEN total - r ELSE r - 1

OnPage(r) ==
    LET skip == Skip(page, size, counted) IN
    r <= total /\ skip <= Position(r) /\ Position(r) < skip + Limit(size)

(* SELECT ... ORDER BY ... OFFSET ... LIMIT; the client goes on until the page
   that the answer calls the current one is the last *)
FetchRows ==
    /\ counted # -1
    /\ shown' = [r \in 1..MaxRows |-> IF OnPage(r) THEN shown[r] + 1 ELSE shown[r]]
    /\ over' = (CurrentPage(page, size, counted) >= TotalPage(size, counted))
    /\ page' = CurrentPage(page, size, counted) + 1
    /\ counted' = -1
    /\ UNCHANGED <<total, desc, size, began, between>>

PageNext == AddRow \/ CountRows \/ FetchRows

PageSpec == PageInit /\ [][PageNext]_pageVars

-----------------------------------------------------------------------------

(* A client that walks to the last page has seen every row that was there when
   it began: once if the oldest come first, and at least once if the newest do,
   unless rows came between the count and the fetch of a page
   (pkg/paging/paging.go:21-40) *)
WalksMissNothing ==
    over => \A r \in 1..began : IF desc THEN shown[r] >= 1 \/ between ELSE shown[r] = 1

=============================================================================
