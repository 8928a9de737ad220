# FreshCart: specifications and proofs

TLA+ modules that model the FreshCart backend (Go, `src/`), TLC configurations
that check them on small instances, and TLAPS proofs of what matters most for every instance.
`PROJECT.json` maps each definition to the source lines it stands for.

## The system

One Go process serves REST and gRPC, runs a background sweeper and talks to Postgres (through
gorm), Redis and Stripe. Handlers are goroutines; what they share is the database, the cache
and one database handle.

| Component | State | Operations | Correct when |
|---|---|---|---|
| Orders and reservations (`internal/order`) | `orders`, `stock_reservations`, counters `stock_quantity` and `reserved_quantity` of `products` | PlaceOrder, MarkOrderPaid, CancelOrder, UpdateOrderStatus | no unit is sold or held twice, no unit is lost, an order's rows settle together, cancelled is final |
| Sweeper (`cmd/api/main.go`, order service) | the batch it fetched | SweepExpiredReservations every 60 s | every expired reservation settles in the end |
| Coupons (`internal/order`) | `coupons` with `used_count` | Create, Apply (check and discount), IncrUsedCount | the count is exact, the limit holds, a bill adds up |
| Payments (`internal/payment`) | `payments`, `provider_events` | CreateIntentForOrder, HandleWebhook | paid means charged, an event is handled at most once and is not lost |
| Stripe (`pkg/payment`) | external | create intent, emit and redeliver events | - |
| Database handle (`pkg/dbs`) | the handle shared by all requests | WithTransaction | a transaction's statements, and only these, run in it |
| Catalogue and cache (`internal/product`, `pkg/redis`) | `products` rows, cached pages | product CRUD, AddStock, cached reads, RemovePattern | edits keep the counters, a page is what the table says unless requests overlapped |
| Reviews (`internal/product`) | `reviews`, the product's aggregate | create, update, delete | the aggregate is that of the reviews |
| Categories (`internal/product`) | `categories` | create, update, delete | no product refers to a category that is gone |
| Users (`internal/user`, `pkg/authentik`) | `users`, accounts at the identity provider | register, login, change password, OIDC upsert | what was confirmed lets the user in, an account keeps its row |
| Addresses (`internal/user`) | `addresses` | create, update, delete, SetDefault | the default is the one set last |
| Wishlist (`internal/user`) | `wishlists` | add, remove | unique items |
| Notifications (`pkg/notification`, `internal/notification`) | dead letters, preferences | send, retry, dead-letter, set a preference | a mail is true, is wanted and comes once |
| Event bus (`pkg/eventbus`) | subscribers, a goroutine per event and subscriber | Publish | a sale that leaves a product low is followed by a warning |
| Rate limiter (`pkg/middleware`) | counter per client | Incr with expiry | a refused client is let through again later |
| Paging (`pkg/paging`) | - | New | a walk through the pages misses no row |
| Utilities, errors, configuration | none | pure | - |

How they interact: the HTTP and gRPC handlers call the services; the payment service calls the
order service for each webhook; the sweeper is a second caller of the order service; orders
write the stock counters of the catalogue's rows; order steps start notification goroutines
and publish LowStock on the bus; every statement of every service goes through one database
handle, which a transaction replaces while it runs.

What is hard: requests read a row, decide, and write in a later transaction; the webhook
records an event before its effects and no transaction spans them; Stripe delivers several
times and out of order; handlers fail or die between any two statements; the sweeper takes a
bounded batch. `PROJECT.json` lists each such hazard at its line.

## Modules

| Module | What it is |
|---|---|
| `OrderStatus` | the status machine of `model/order.go`: statuses, table, gate |
| `StockLedger` | abstract specification: units are free, held or sold; hold, give back, sell |
| `OrderService` | orders, reservations, counters, coupon and sweeper: one action per stretch of a request between two database reads |
| `OrderProperties` | the properties of `OrderService`, its fairness, its refinement of `StockLedger` |
| `Payments` | intents, webhooks and Stripe, composed with `OrderService` |
| `DbHandle` | the handle of the process: transactions that swap it, savepoints, statements, restarts |
| `Catalogue` | products, categories, reviews, the cache, and orders that move the counters |
| `Requests` | what the modules below share: handlers and a bound on requests |
| `Accounts` | users in the table and at the identity provider |
| `Addresses` | the address book and the transaction that moves the default |
| `Notices` | order steps, the notices they start, mail, retries, preferences (uses `OrderStatus`) |
| `LowStock` | sales, the checks after them, the bus and its subscriber |
| `RateLimit` | the counter and its expiry |
| `Checkout` | prices, coupons and their discounts, the charge |
| `Paging` | the arithmetic of pages and a walk through a growing list |
| `MCOrders`, `MCPayments`, `MCDbHandle`, `MCServices` | values of the constants for TLC; `MCServices` puts `Catalogue` and the seven modules after `Requests` side by side |
| `SumProofs` | lemmas about sums over finite sets |
| `OrderProofs`, `OrderSerialProofs`, `PaymentsProofs`, `DbHandleProofs`, `CatalogueProofs`, `AccountsProofs` | theorems about the module of that name (the first two: about `OrderProperties`) |
| `ServiceProofs` | theorems about `Addresses`, `Notices`, `Checkout` and `Paging` |

### OrderService

`stock`, `reserved`, `status`, `cart`, `row`, `used` are the tables; `row[o][p]` is the status
of the order's reservation of a product. `call[h]` is the request of a handler: the step it is
at and what it has read. A request is split where it reads the database, because nothing is
locked between a read and the writes that follow:

| Code | Actions |
|---|---|
| PlaceOrder | `PlaceRead` (products, coupon), then `PlaceCommit` or `PlaceReject` (the transaction) |
| MarkOrderPaid | `PayRead` (order and status check), `PayFind` (active reservations), `PayCommit` or `PayReject` |
| CancelOrder | `CancelRead`, `CancelFind`, `CancelCommit` or `CancelReject` |
| UpdateOrderStatus | `MoveRead` (gate), `MoveSave` (the row is saved) |
| SweepExpiredReservations | `SweepFetch`, then per order `SweepRead` or `SweepSkip`, `SweepWrite` or `SweepFail` |
| time | `Expire`: an order's reservations pass their TTL |
| an error, a cancelled context, a crash | `Fail` |

The writes of a transaction are one step. The stock statements are conditional updates that
take the row lock and evaluate the condition on the locked row, the transaction holds its locks
until it commits, and a failing one leaves nothing; at Postgres' default isolation (read
committed) the conditions therefore hold at the commit.
`SetRows` overwrites the rows it is given without looking at them, as `UpdateStatus` does, and
`MoveSave` writes the status whatever happened since it was read, as `Save` does.

Data that no property of it tells apart is left out: users (the buyer is the owner of the
order), and prices, notices and LowStock, which have modules of their own. Two lines of one order for the
same product are one row with the sum of the units. An order is never deleted by the code, so
the sweeper's branch for a missing order is left out. A transaction is taken to have a handle
of its own, which is what `WithTransaction` is for; that the handle is in fact a field shared
by the process (`pkg/dbs/dbs.go:77-84`) is the subject of `DbHandle`.

### Payments

`payment` is the status of an order's payment row, `recorded` the `provider_events` table,
`hook[h]` the step of a handler in CreateIntentForOrder or HandleWebhook. The order service's
actions are reused as they are: `WebhookOrder` begins `PayRead` or `MoveRead`, and
`WebhookFind`, `WebhookCommit`, `WebhookRollback` run the rest. Stripe is external: `Charge`,
`Abandon` and `Attempt` emit one event of each type per order, `Notify` one of a type that this
program has no use for, with an order or without; `sent` never shrinks, so a delivery may come
late, in any order and repeatedly until it is in `acked`. `WebhookNoPayment` is the error for an
event without an order or without a payment row, `WebhookIgnore` the 200 for the other events of
no use. (The comment at `payment/service/service.go:25` has such types ignored; without a payment
row they are answered with an error first, and as a duplicate when they come again.) A
`WebhookFail` may happen at every step. `handled` is history: the events somebody was done with,
with whatever answer; no action of the code reads it. Loading and saving the payment row are one step: the save overwrites the
one column that is modelled with a value that does not depend on what was loaded.

### DbHandle

`handle` is the field `db` of `pkg/dbs`: the pool (`Root`) or a transaction, named by the request
and call that opened it. A request runs the script of its operation, taken from the order
service: PlaceOrder nests the transaction of `CreateOrder` in its own, MarkOrderPaid (and
CancelOrder, and the sweep of an order, which have its shape) reads and writes in one,
UpdateOrderStatus uses none. Two writes in a row stand for two or more, so that the handle may
change between two writes of one transaction. `OpenRoot`, `OpenNested` and `OpenDead` are gorm's `Transaction` on
what the handle is at the moment; `Swap` and `Restore` are the two assignments of
`WithTransaction`, and `Commit`, `Rollback`, `LeaveNested`, `RollbackNested` what gorm does when the
function returns. `Write` and `Read` go to the handle of the moment. `StatementFails` may happen at
each, `Restart` at any time. `mixed` records that a request took a step while another was in a
transaction; it is read by the properties only.

### Catalogue

`product`, `category` and `review` are the tables, `cache` what Redis keeps for `GET /products/:id` and
`GET /products` (the list stands for every query), `call[h]` the step of a handler. A REST read
misses (`GetProduct`, `ListProducts`), reads the table (`Find`) and stores (`Fill`). A REST write goes on to
`PurgeScan` and `PurgeDelete`, the pages of SCAN and DEL in `RemovePattern`; a gRPC write leaves the
cache alone, as its handler does. `UpdateRead` and `UpdateSave` are the read and the save of the
whole row; `AddStock` is one statement. A review is created, rewritten or erased, then the
aggregate is computed (`Aggregate`) and stored (`Rate`). `Reserve`, `Release` and `Commit` are the order
service's statements on the same rows. `Fail` is an error or a crash at any step. `held` and `owned`
are what the counters should be; `late` collects what an overlap or a failure has made out of
date. None of the three is read by an action of the code.

### The smaller services

They share no table and no call, so a behaviour of `MCServices` is one of the service that
`focus` names (`Catalogue` among them); a check of them one after the other would be the same.

- `Accounts`. `mode` is how the process was started. The gRPC server's service has no client of
  the provider and registers locally in either mode, as REST does in mode `jwt`: the row keeps the
  password (`RegisterLocally`). `ChangeRead` and `ChangeSave` change the hash in a row, in either
  mode. Over REST in mode `oidc`, `Register` makes an account at the provider (`CreateAccount`,
  `SetPassword`: two calls), `Login` runs the provider's flow, and both go on with
  `LookupUserByEmail` and UpsertUserFromOIDC, whose statements are the actions `Upsert...`. `GiveUp`
  is a failure at any of them, `RestartIn` a restart in either mode. The provider itself is
  external (`Enroll`, `ChangeEmail`) and is taken to keep the addresses of its accounts apart and
  not to change one while somebody signs in or up with it; an address may be given up and taken
  over by another account. `here` and `there` remember which passwords answers confirmed, locally
  and at the provider, `changed` those of changes that an account signed in by the provider asked
  for, `rowOf` which row an account signed in to last.
- `Addresses`. The statements of `SetDefault` are steps of their own, with the row locks that they
  take in Postgres; `AddrSave` writes the whole row that was read.
- `Notices`. Order operations start a notice (`Notice`) in the handler's goroutine; `FindBuyer`,
  `IsEnabled` or `LookupFails`, `SmtpTakes` or `SmtpFails`, and `RetryRun` are its steps. The notifier
  composed by `factory.go` is a retry around a fan-out, and the fan-out returns no error
  (`MultiNotifier`): the retries and the dead letters, which `retry.go:33-35` and `factory.go:13-14`
  promise, are modelled, and never happen. A mail may be taken by the server although the attempt
  fails.
- `LowStock`. `SellUnits` is MarkOrderPaid's transaction; the products it sold are then read one
  after the other (`PublishLowStock`, `CheckFails`), each event is a goroutine (`Warn`).
- `RateLimit`. `Hit` is INCR, `SetExpiry` or `ExpiryLost` the EXPIRE that follows a first hit.
- `Checkout`. `PriceLine` reads the prices line by line while `Reprice` changes them; `Discount` and
  `MinorUnits` are the arithmetic of the coupon and of the charge, the latter with the choice
  that floating point leaves.
- `Paging`. `Limit`, `TotalPage`, `CurrentPage`, `Skip` are `paging.New`; a client counts and fetches page after
  page while rows are added.

Definitions marked `[variant]` are not part of any specification. Each is the definition below
it with a plausible mistake; with the mistake in place the property that `PROJECT.json` pairs
with it fails, which shows that the property does depend on that piece of code.

## Runs

| Run | Setting | Shows |
|---|---|---|
| `orders_concurrent` | 2 orders, 2 handlers, 2 products; two activities overlap; staff may set paid, payment_failed and in-progress; batch of 1 | `StockWithinBounds`, `NoOversell`, `CouponCountsOrders`, `RowsNeverReactivate`, refinement of `StockLedger` |
| `orders_serial` | 3 orders, one activity at a time, every status move but paid, batch of 1 | exact bookkeeping: `ReservedIsActive`, `StockConserved`, `PaidOrdersAreBacked`, `CouponWithinLimit`, `CancelledIsFinal` |
| `orders_settle` | 2 orders, 2 handlers and the sweeper all overlap, no manual moves, batch of 4 | `RowsSettleTogether`, `SettledOrdersHoldNothing`, and the liveness property `ReservationsSettle` |
| `payments` | 1 order, 2 handlers, four event types (one of no use), staff moves, two activities overlap | `PaidMeansCharged`, `EventHandledOnce`, and that every step is one of `OrderService` (`OrdersSpec`) |
| `payments_deliver` | the same with three event types and staff who may also set paid, under fairness | `DeliveriesEnd` |
| `db_handle` | a placement, a payment and a status move; any overlap, failing statements, restarts | `HandleFollowsCalls`, `LoneRequestsAreAtomic`, `StuckUntilRestart`, and under fairness `TransactionsEnd` |
| `services` | one of eight services; 2 handlers, 4 requests (the catalogue: 3, and orders) | the properties of each, among them the liveness of `BlocksEnd` and `SalesAreWarnedOf` |
| `paid_race` | 1 order, 2 handlers | **violated**: `PaidOrdersAreBacked` |
| `cancel_leak` | 1 order, moves to cancelled; the sweeper runs whatever the handler does | **violated**: `ReservationsSettle` |
| `lost_payment` | 1 order, 1 handler, success events | **violated**: `AckedIsApplied` |
| `handle_overlap` | a placement and a payment | **violated**: `ErrorLeavesNothing` |
| `password_change` | 1 handler, 3 requests | **violated**: `ChangedCanSignIn` |

Which promise holds where is the result of the first three runs. Whatever overlaps, the
conditional updates keep the counters within bounds and no unit is sold that does not exist.
The *meaning* of the counters (`ReservedIsActive`, `StockConserved`) is kept only if
transactions of one order do not overlap: two that found the same rows both take them out of
the counter, and the second takes units that another order holds.

The other runs draw the same kind of line. In `db_handle`, a request is atomic if no other ran
inside its transaction, whatever fails and wherever the process dies; once the handle is left
at a transaction that has ended, nothing is written until a restart; and the connections are
given back all the same. In `services`, the catalogue's counters, ratings and pages are exact until an edit
saves over a reservation, two reviews of a product overlap, or a page computed before a write is
stored after it; the conditions of the properties (`late`) say exactly when. Of the others: a
registration that was confirmed lets its owner in; an account that has the row of its subject
signs in to it unless another row has its new address (then one failed read by subject is enough
to be given that row); a registration cut off between the provider's two calls leaves an account
that nothing repairs; the default address is the one set
last; mails are true and come once, which rests on the sweeper's notifier not mailing
and on the retries not running; a refused client is counted from zero again unless the EXPIRE was
lost; a bill adds up and is charged to within a cent, coupons above 100 percent excepted; a walk
through the pages misses no row; a sale that leaves a product low is followed by a warning.

Five runs disagree with what the code says of itself:

- `paid_race`: MarkOrderPaid checks the status before its transaction. A cancellation (or a
  sweep) that commits in between releases the rows; the transaction then finds nothing to
  commit and marks the order paid. `order.go:40` says it commits the order's reservations.
- `cancel_leak`: the webhook cancels an order with UpdateOrderStatus and leaves the rest to
  "the sweeper / order flow" (`payment/service/service.go:147`), but the sweeper skips orders
  that are cancelled, on every tick.
- `lost_payment`: the event is recorded before its effects. If the handler dies in
  between, the retry is a duplicate and is answered 200; the payment stays pending.
  `payment/model/payment.go:48` promises exactly-once processing.
- `handle_overlap`: while a transaction runs, the statements of other requests join it, and those
  of the request itself may run in another one or in none. In the counterexample another request
  restores the pool while a placement is under way; the placement's next statements are then
  committed one by one, and stay when it fails and is answered with an error.
  `order/service/order.go:125` says that they are done atomically.
- `password_change`: the route that "changes the password" (`user/port/http/handlers.go:132`) is
  mounted in mode `oidc` too, where it changes the hash in the row and nothing at the provider. A
  user whose row has a local password and who signs in by the provider is told that the password
  was changed, and cannot sign in there with the new one.

### Bounds

Two products with two and one units make the last unit contested between two orders; one cart
takes one product and one takes both, so rows of an order can part. Two handlers
and the sweeper are all pairs of overlapping activities, and `orders_settle` has all three.
Three orders (serial) let a release free units for a third. One use of the coupon makes its
limit bite. `MaxInFlight` bounds how many activities overlap, the sweeper among them (`cancel_leak` has 2, so
that its one handler never keeps the sweeper waiting and only the leak violates the property); a
batch of 1 is the limit that
cuts orders, a batch of 4 holds every row of two orders. `payments` has one order because the
payment service never relates two; the competition for stock is in the order runs. The provider
emits one event per type and order, and one of no use. Handlers (and orders, in safety runs) are symmetric.
Deadlock is not checked: orders (and, elsewhere, requests) are finitely many and the shop may
come to rest.

`db_handle` has one request of each shape, so that every pair overlaps and a third can be caught
in the handle that the two leave; no request is repeated, as each is finite. `services`
has four requests: enough for two that overlap, a failure and one that meets what they left. The
catalogue gets three besides the orders: a reader whose entry is late, the writer and one that
follows; one unit of stock and one score are enough for a lost reservation and a wrong aggregate.
Accounts: two addresses, two subjects, two passwords. Addresses: two shoppers, three rows, so
that one has two. Notices: one order with every status that matters and `MaxAttempts` as in the
code. RateLimit: the limits 0 (off), 1 and 2. Checkout: two products, prices of 1 and 149 cents, a
coupon of each kind at its boundaries (refused, capped, rounded, 100 and 150 percent). Paging: up
to four rows and page sizes 0 (the default, here 2) to 3. LowStock: a threshold of 1 between 0 and
`MaxUnits`, 3.

### Fairness

`Fairness` says that time passes, that the ticker fires and a sweep goes on (`SweepFetch`,
`SweepRead`, `SweepSkip`: one goroutine in a loop), that a request past its first read goes on
to its next statement, and that an order's release that is tried again on every tick does not fail
for ever (strong fairness of `SweepWrite`: a failure drops the group and a later tick fetches it
again). Nothing forces a customer to pay, cancel or order.
`PayFairness` says that a handler goes on or fails, and that Stripe goes on delivering an event
it has no answer for (strong fairness of its first delivery, since handlers may be busy in
between).

`DbHandle`'s `FairSpec` says that some handler goes on as long as one can: statements return, and
nothing needs a restart. `RateFairness` and `LowFairness` say that a handler past its first command goes on to the
next, that the window of a client ends, and that a goroutine that was started is run.

## Proofs

Assumptions are those of the modules (`OrderServiceAssumption`, `PaymentsAssumption`,
`HandleAssumption`, `CatalogueAssumption`, `RequestsAssumption`, `AccountsAssumption`,
`AddressesAssumption`, `CheckoutAssumption`, `PagingAssumption`: types of the constants, positive
limits, tables that could be in the database at the start, and that the moves include the two
that webhooks ask for) and those a theorem states. All theorems hold for any number of orders,
products, shoppers, handlers and, but for `OrderSerialProofs`, overlapping requests. A theorem
about a sum assumes that what it sums over is finite.

- `SumProofs`. `SumTakeOut` takes one element out of a sum; from it follow how a sum moves with
  one summand, that it is monotone and that it depends on the summands only. The sum of the
  community modules is defined by recursion over a chosen element; the lemmas are proved by taking
  a least counterexample under strict inclusion of finite sets, which `FiniteSetTheorems` shows
  well-founded, not by an induction rule with an operator as its parameter.
- `OrderProofs`. `TypeCorrect`: the type invariant, strengthened by "a request that is not idle
  has an order". `CounterSteps` says that a step reserves free units, gives held ones back or
  sells held ones; from it follow `StockIsBounded` (0 <= reserved <= stock) and, with "stock
  never grows", `ServiceImplementsLedger`: the counters refine `StockLedger`.
  The inductive invariant `ApartInv` says that a placement in flight is the only user of its
  fresh order id, that a row exists exactly for the lines of a placed order, and that whatever a
  request or the sweeper has found are such rows. From it: `ReservationsStaySettled` (no row
  becomes active again), `CouponIsCounted`, and `NothingOversold`: a step that adds units to the
  committed rows takes at least as many from the shelf.
  `WholeInv` adds that what was found is always all of an order's rows or none; it gives
  `OrdersSettleWhole` if a batch holds every due row (`BatchHolds`: without it the sweeper does
  cut orders). `HoldInv` adds that no status move is in flight and gives `SettledHoldNothing`
  if `Moves = {}`.
- `OrderSerialProofs`, under `Serial` (finitely many handlers, `MaxInFlight = 1`). `SerialInv`
  says that one request or sweep runs at a time and that what it has read is still so
  (`StillRead`, `SweptIsOpen`), and that only cancelled orders have released rows. It gives
  `CouponNotOverused`, `CancelledStays` and, if nobody moves an order to `"paid"` by hand,
  `PaidAreBacked`; with the sums, `ReservedIsExact` and `NothingLost`: the rows a transaction
  changes are active when it does, so the counters move by just their units.
  The run `paid_race` shows that `PaidAreBacked` fails when two requests overlap; the others rest
  on reads of the same kind, which nothing protects.
- `PaymentsProofs`. `PaymentsTyped` is the type invariant. `PaymentsUseOrders`: every
  behaviour of `Payments` is one of `OrderService`, which carries all theorems above over.
  `EventsHandledOnce` rests on "the event a handler works on was recorded, and so was every event
  somebody was done with": a recorded event is never begun again.
  `PaidOnlyWhenCharged` (if `"paid"` is no move of the staff) rests on "only a handler of a
  success event runs MarkOrderPaid, for the order of its event" and "success events come from
  charges".
- `DbHandleProofs`. `DbTypeCorrect` needs to know where in its script a request is: the invariant
  `Shape` relates its position, the calls it is in and the stage of the innermost. From it,
  `HandleRestored` and `LoneRequestsAtomic`, by an invariant of what a request that ran alone has
  written and what its transaction holds (`LoneInv`). `LeftoverIsDead` is about requests that do
  overlap: a transaction that goes on belongs to a call that is under way and began it
  (`HeldInv`), so one that is the handle when no call is under way has ended.
- `CatalogueProofs`. `CatInv` says of every handler that what it read is as it was or that it has
  been told (`UpToDate`, with the set `old` of the call), of every product that its row is exact
  as far as nothing is `late` (`RowOK`), and of every page that it is fresh, late, or about to
  be removed by a request (`Covered`). The frame reasoning is the same for all actions: `Moves`
  is what a step must tell whom, `OthersUpToDate` that this is enough, and `QuietOK`, `CacheOK`,
  `WriteOK` and `ReviewOK` are the kinds of steps that the lemma of each action cites.
  `CatalogueTyped`, `EditsKeepCounters`, `RatingsFollowReviews` and `CachedIsFresh` follow.
- `AccountsProofs`. `AcctInv` adds to the types what a request knows of its account and row at
  each step, what was answered and still counts, and that a row made for an account bears the
  account's subject and has no password. From it: `AccountsTyped` (with unique addresses),
  `AnswersHold`, `LinkStable`, `HalfStays`. No theorem is about password changes as the provider
  sees them, which `password_change` refutes.
- `ServiceProofs`. `DefaultsHold`: `Known` says that a handler's rows belong to its shopper and
  that no row has two locks; `BookKept` says of a shopper whom no stale save or new address has
  touched that the UPDATE has reached all rows (`Reached`) and that of two SetDefaults about to
  commit one has no row left (`OneMarks`).
  `MailsTrue`, `MailsOnce` and `OptOutsHold` rest on one invariant of what each worker is about to
  mail (`TaskOK`): a status the order has had, not mailed before by this worker, and wanted by the
  preference it saw. `MailsOnce` holds because no attempt is repeated, which is how the notifier is
  composed and not how it is documented.
  `BillsHold`: the total is the sum of the lines priced so far (`Priced`), and
  `DiscountFits` bounds each kind of discount, by integer division.
  `WalksMissNothingAlways`: `PagesSpan` says which rows TotalPage pages span, and the invariant
  that the pages seen span the first `Gone` rows, or with the newest first all but those pushed on
  since.

Every invariant and every action property of the passing runs is proved. Only model-checked are
the liveness properties (`ReservationsSettle`, `DeliveriesEnd`, `TransactionsEnd`,
`BlocksEnd`, `SalesAreWarnedOf`), which need fairness and ENABLED, and the
violations.

## Not modelled

- The wishlist: one insert or delete per request under a unique index.
- Tokens, roles and the middleware that checks them, password hashing, the signature of a
  webhook: cryptography and one decision per request. That the two servers take a user's id from
  different places is listed as a hazard.
- HTTP and gRPC routing, encodings, error texts, mail templates, logging, the snapshot of a cart
  that is only logged, configuration and migrations. The unique indexes and references of
  the schema are guards of the modules whose tables they are on.
- Time as a number: expiry and timeouts are actions that may happen.
- The composition of `DbHandle` with the services: `OrderService`, `Payments` and `Addresses` take
  each transaction to have a handle of its own, and `DbHandle` says when it has.
- Row locks between transactions of `OrderService`: its conditional updates evaluate on the locked
  row, so a transaction is one step; deadlocks, which Postgres ends with an error, are its `Fail`.
- Generated code, mocks and the web client, which keeps no state the server relies on.

What would come next: the safety facts that the liveness properties rest on (in `RateLimit`, `LowStock`
and the sweeper) as theorems, and a run with a full batch of reservations that the sweeper skips.
