# BipFlow in TLA+

BipFlow is a store platform: a Django REST server (`src/bipdelivery`), a Vue
client with a public storefront and a merchant dashboard
(`src/bipflow-frontend`), and a WhatsApp hand-off for orders.  This directory
models the parts of it where several requests, tabs or transactions meet in the
same rows: the life of an order and of its money, the stock and its ledger, the
checkout with its retries, the cached dashboard figures, the browser sessions,
the second factor, and the smaller protocols of categories, banners, store
settings, the bot, accounts, carts and product search.  TLC checks the models on small instances
and TLAPS proves the central properties for every instance.

Paths below are relative to `src/`; `api/` is `bipdelivery/api/`, `web/` is
`bipflow-frontend/src/`.

## 1. The system

### How it runs

In production the server is gunicorn with two workers of four threads each, a
PostgreSQL database and one Redis cache shared by the workers.  Every request
is a thread of its own, `ATOMIC_REQUESTS` is off, and a transaction exists only
where the code opens one (`transaction.atomic`).  Row locks exist only where
the code asks for them (`select_for_update`).  So two requests interleave at
every statement outside a transaction, and a transaction that locks its rows
before reading them is one step for everything that also locks them.

### Components

| Component | State it keeps | Operations | Hard behaviour | What makes it correct |
|---|---|---|---|---|
| Payments (`api/payments.py`) | `SaleOrder.payment_status`, `paid_at`, `refunded_at`, the `PaymentStatusEvent` rows | `transition_payment`, `settle_payment_for_cancelled_order` | a confirmation races a cancellation | the events are a walk along the graph and end where the order is; a cancelled order never keeps money or an open payment; each settlement happens once |
| Order endpoints (`api/views.py` `SaleOrderViewSet`, `api/shipping.py`) | `SaleOrder.status`, carrier, tracking, `shipped_at`, `delivered_at` | `update_status`, `update_payment` | the copy that is validated is read without a lock, and two of the three status moves save that copy | a delivery order is delivered after it was sent |
| Stock ledger (`api/stock.py`) | `StockMovement` rows | `apply_stock_movement`, `apply_order_cancellation`, `sync_product_stock_from_variants` | returned units meet products that have changed since the sale | the ledger adds up to the stock |
| Products and variants (`api/serializers.py`, `ProductViewSet`) | `Product.stock_quantity`, `is_available`, `ProductVariant.stock_quantity`, `is_active` | create (three transactions), update (unlocked save, then variants), delete | whole-row save of a stale copy; creation that stops half way | the aggregate equals the active variants; a product is on sale exactly while it has stock |
| Point of sale (`api/pdv.py`) | orders, movements, first payment event | `PdvSaleView.post` | its own way to compute the aggregate | as the two above |
| Checkout, server (`CheckoutWhatsAppView`) | `SaleOrder.idempotency_key`, `idempotency_payload_hash` | `post` | lookups outside the transaction, a unique key inside it, settings read in between | one order per key; an answer names the request's own order; a failed attempt keeps nothing reserved |
| Checkout, browser (`web/services/order.service.ts`, `web/views/products/ProductsView.vue`) | one key per storefront in `localStorage` | submit, confirm, fail, time out, retry; refresh the token after a 401 and post again | answers lost after the server has acted; an expired token; several tabs | one order per purchase; no attempt hangs |
| Dashboard aggregates (`_cached_dashboard_aggregate`, `api/signals.py`) | cache entries per action, store and period | `summary`, `timeseries`, `breakdown`, `customers`; bust on save | nothing locks the cache; the bust runs before the commit | no stale figure for longer than the time limit |
| Commerce settings | `StoreCommerceSettings` | get, patch; made on first use | validated against a copy read without a lock; read by a checkout in progress | an open store can deliver and be paid; see Checkout |
| Row locking (all of the above) | locks held | `select_for_update` in checkout, PDV, movement, form, cancellation, payment; the bulk change of category and deletion | lock order; joined locks; paths without an order | no deadlock among the paths that keep the order of the ids |
| Sessions (`api/views.py`, `web/services/api.ts`, `auth.service.ts`, `token-store.ts`, `web/router`) | refresh tokens and their blacklist; cookie, hint, access tokens, waiting calls | login, refresh with rotation, logout, revocation; boot, guard, retry | a rotation whose answer is lost; several tabs with one cookie; one refresh in flight for many calls | the cookie and the tabs agree wherever an answer was heard; nobody waits for ever |
| Multi-factor login (`api/mfa.py`, `api/views.py`) | `TOTPDevice`, `MFABackupCode`, the mark of used challenges | set up, confirm, disable, verify | no row is locked | a code counts once; a challenge makes one session; a confirmed secret was shown |
| Customer accounts | users, stores and their slugs, `CustomerProfile` | register, open a store, edit the profile; a checkout writes to it | slugs searched without a lock; a whole-row save | one store per slug, an account all or nothing; a profile keeps what was given last |
| Categories | a two-level tree, slugs | create, update, delete | the rule is checked on an unlocked parent | following parents ends |
| Banners, appearance | positions of two lists | create, edit, delete, reorder | positions computed and written row by row without a transaction | positions are the ranks |
| Bot (`api/bot_engine.py`) | conversations, messages, status | message; link to an order | two messages of one session at once | one conversation per session; the status is the last message's |
| Storefront cart and search (`web/composables/useCart.ts`, `useProductSearch.ts`, `web/services/store-scope.ts`) | carts of each store in `localStorage` and in each tab; list, filters, cache | add, remove, switch stores, type; search, page, late answers | watchers run after the store has changed; answers in any order | carts stay apart; the list is the one wanted |
| Django admin (`api/admin.py`) | any row | whole-row saves | goes past the services, with the row its page showed | for settings: nothing is undone except where a page saved over a write it had not seen |
| Delivery regions | fee and name | CRUD | none of its own: an order snapshots them | — |
| Tenancy (`api/store_scope.py`, `api/permissions.py`) | memberships | resolve the store of a request | precedence of header, membership and default | a decision equals its reference definition |
| Throttling, captcha | counters | — | kept by the REST framework and an external service | — |
| Feedback | rows | insert, set status | none | — |
| Store, merchant, label and receipt settings | columns of `Store`; a row each of `MerchantProfile`, `LabelSettings`, `StorefrontAppearance` | get, patch; made on first use | four endpoints write one `Store` row; the other rows are saved whole; no locks | the settings are those given last, unless a row saved whole was read before; the constraints never refuse a save |
| Order references, encryption, pagination, errors, `api/caching.py` | — | stateless helpers (the last is imported nowhere) | none | — |
| Management commands | — | seed and maintenance scripts | run by hand | — |
| User interface | component state | rendering and forms | the protocols are listed apart | — |
| Legacy and sample services (`legacy`, `api-order-validation`) | — | not part of the running system | — | — |
| Infrastructure | — | deployment descriptions | — | — |

### How they interact

- Checkout and PDV create orders, take stock, write movements and the first
  payment state in one transaction.  `update_status` with "cancelled" locks the
  order, puts the items back, and calls the payment settlement inside the same
  transaction.  `update_payment` calls `transition_payment`.
- The product form, manual movements, checkout, PDV and cancellation all write
  `Product.stock_quantity`, each with its own way to compute it.
- Saving a `SaleOrder` fires `post_save`, which busts the dashboard cache; the
  order endpoints bust it once more before they answer.
- The browser keeps the idempotency key until an order is confirmed, and the
  server finds the order of a repeated key.
- A checkout for delivery writes to the customer's profile, and links the bot
  conversation of its session to the order.
- A login passes the second factor before it makes the first refresh token of a
  session; every other call of the browser waits for a refresh when its access
  token has expired.
- The selected store decides which cart a tab has and which list it asks for;
  the two follow it at different moments.

## 2. Modules

| Module | Models | Properties |
|---|---|---|
| `PaymentStates` | the tables of `payments.py` | — |
| `Orders` | the life of an order behind the dashboard API | `TypeOK`, `EventTrail`, `CancelledIsSettled`, `ReversalsAreSystem`, `SettlementsHappenOnce`, `TimestampsAgree`, `DeliveredWasShipped`, `RestockedAtMostOnce` |
| `Settlement` | abstract: what the payment lifecycle promises a shop | its specification |
| `OrdersRefinement` | the mapping from `Orders` to `Settlement` | `ImplementsSettlement` |
| `OrdersInvariant` | the inductive invariant of `Orders` | `IInv` |
| `Stock` | products, variants, sales, movements | `StockTypeOK`, `VariantLedgerExact`, `ProductLedgerExact`, `AggregateInSync`, `AvailableIffStocked`, `ChangesAreExplained` |
| `Checkout` | browser tabs and the checkout endpoint | `CheckoutTypeOK`, `OneOrderPerPurchase`, `ConfirmedIsReal`, `NothingStaysReserved`, `RefusedHasNoOrder`, `AttemptsEnd` |
| `SalesDashboard` | the cached aggregates, their writers and readers | `DashboardTypeOK`, `StalenessExplained`, `CatchesUp`, `AnswersItsFilter` |
| `Sessions` | tabs, cookie and refresh tokens | `SessionsTypeOK`, `CookieExplained`, `AnsweredLogoutEnds`, `AppPagesAreSignedIn`, `WaitsEnd`, `LogoutSticks` |
| `Mfa` | the second factor of one user | `ChallengeMintsOnce`, `ConfirmedIsProven`, `BackupCodeCountsOnce` |
| `RowLocks` | the row locks of the write paths | `DeadlockHasACause`, `NoDeadlock` |
| `Accounts` | accounts, stores, customer profiles | `ProfileKeepsEdits` |
| `Categories` | the category tree of a store | `ParentsEnd` |
| `Banners` | the banner lists of a store | `PositionsAreRanks` |
| `BotConversations` | the storefront bot | `OneConversationPerTab`, `StatusIsOfLastMessage` |
| `Carts` | the carts of a visitor, by store and tab | `CartsStayApart`, `SavedWhenTyped`, `CartNeverBleeds` |
| `ProductSearch` | the product list of the shop page | `ShownIsWanted` |
| `StoreSettings` | the settings rows of a store | `LossHasACause`, `ConstraintsNeverBite` |
| `OrdersProofs`, `StockProofs`, `CheckoutProofs`, `SessionsProofs` | the theorems about these modules | — |
| `AccessProofs` | the theorems about `Mfa` and `Accounts` | — |
| `StorefrontProofs` | the theorems about `ProductSearch`, `Carts` and `BotConversations` | — |
| `BackOfficeProofs` | the theorems about `Categories`, `Banners`, `SalesDashboard`, `RowLocks` and `StoreSettings` | — |
| `SubsystemsProofs` | the theorem about the nine modules of `MCSubsystems` together | — |
| `MCOrders`, `MCStock`, `MCCheckout`, `MCSalesDashboard`, `MCSessions`, `MCRowLocks`, `MCSubsystems` | instances for TLC | — |

`Accounts`, `Categories`, `Banners`, `BotConversations`, `Mfa`, `RowLocks`,
`Carts`, `ProductSearch` and `StoreSettings` share no state with one another.
`MCSubsystems` instantiates all nine at once; its variable `subject` picks, in
the initial state, the one that moves.  The behaviours it explores are those of
the nine modules, one at a time; its type invariant `SubsystemsTypeOK` asks
of the one that moves its own.

An operator whose comment starts with "Mutated form" is not part of a model.  It
is the definition that follows it with a plausible bug, kept next to it to show
that the properties notice.

Where the code lets two requests overwrite one another, a model has a history
variable for the rows that happened to (`drifted`, `lapped`, `untidy`,
`overlapped`, `contested`, `raced`, `crossed`, `missed`, `lost`, `undone`,
`overtaken`, `strays`, `moved`), and its property speaks of all others, or names
what the loss is due to.  A mutated form that breaks the code's care
elsewhere is noticed all the same, and the comment of each property says what is
exempt and why.

### Orders

`status`, `method`, `payment`, `paidAt`, `refundedAt`, `shippedAt` are the
columns of `SaleOrder` (dates as "set or not"), `events` its
`PaymentStatusEvent` rows, `restocks` the number of times its items went back.
`req` holds the requests in progress with the copy `get_object()` gave them.

A request is two steps, since the code reads and validates without a lock and
then acts: `LoadForStatus` / `LoadForPayment`, then one of `StatusUnchanged`,
`Send`, `Deliver`, `Cancel`, `CancelTooLate`, `PaymentUnchanged`, `ApplyPayment`.
`Send` and `Deliver` save the copy.  `Cancel` and `ApplyPayment` re-read the row
under its lock and use the committed values, as the code does; what they re-check
there is exactly what the code re-checks.  `Checkout` and `PdvSale` create
orders.  Carrier and tracking code are abstract: a "sent" may lack them, and then
changes nothing (`StatusUnchanged`).

### Stock

`pStock`, `pAvail`, `vStock`, `vRow` are the rows.  The movements are kept as
their sums: `pLedger[p]` over those that name only the product, `vLedger[v]` over
those that name the variant.  Deleting a variant makes its movements and order
lines name only the product (`on_delete=SET_NULL`), which moves its sum.
`making` follows the creation of a product through its three transactions, with
`made` the stock in the memory of the creating request; `editor` holds the product forms in
progress with the stock they have read.

`drifted` is a history variable: the products whose stock was moved by a write the
code does not reconcile (a form that saves a stale copy, a reload of a stock that
was sold from, units returned to something that is not on sale), until the code
recomputes the aggregate.  The properties about the
product's own stock hold outside that set; that the set is not empty is what the
run `stock_changes_explained` shows.  `VariantLedgerExact` and `AvailableIffStocked` hold
everywhere.

Checkout and PDV differ as in the code: checkout subtracts the sold units from
the aggregate and relies on the database CHECK for their sum (`Reserve`), PDV
recomputes the aggregate of a product sold by variant (`RingUp`).

An order is cancelled once here (`Restock` needs a held order, the "already
cancelled" check on the locked row).  That an unlocked save can undo a
cancellation, so that the items go back twice, belongs to `Orders`
(`RestockedAtMostOnce`); putting the two together is the plan's next module.

### Checkout

A tab posts its cart with the key in `slot` (`localStorage`) if that was made for
this cart (`Submit`), and ends the attempt by `Confirm`, `Fail` or `TimesOut`.  The
server serves a request in the steps between which others can run: `Lookup`,
`CheckRules`, `Place` or `RollBack`, `LookupAgain`; `Dies` ends it anywhere.
`tries[t]` is history: the keys the tab has sent its present cart with.  The
settings change and the customer signs in at any time.  The composition of the
cart and the stock is abstract: an order takes one unit.

The access token of a tab (`account`) may have expired, and the request is then
answered 401 before the view is reached (`Unauthenticated`).  The client marks the
post as tried again and asks for a token (`RefreshToken`), then sends the same post
once more (`Replay`) or signs the tab out (`RefreshFails`); `call` says where a post is.
A second 401 is a failure.  The call for the token is outside the 15 s limit.
`handleAuthFailure` also clears the selected store of the tab; what a visitor does
in the default storefront until they are back in this one is left out.

The checkout form locks the cart while it waits, so a change of cart is modelled
as coming after an attempt has ended.

### SalesDashboard

An aggregate is represented by how many committed writes its first and its last
query have seen.  `compute()` runs several queries outside a transaction, so it is
two steps.  The four aggregates share the cache code and differ in their queries
only, so one stands for all; `PROJECT.json` maps its steps to lines of `summary`,
`breakdown` and `timeseries`.  A write of an order is either a transaction whose `post_save` signal
runs before the commit (`Save`, `Commit`), with or without a second bust
afterwards (`AnswerOrder`), or a single save that commits before its signal
(`SaveShipping`, `Signal`, `AnswerOrder`).  `Abandon` is a rollback or a worker that
dies.  Custom date ranges are cached under keys no bust reaches.  `overtaken` is
history: whether the figures of the period miss a write that nobody is going to
bust them for, because they were stored after that bust, or because its worker died.

### Sessions

`fate` is what became of each refresh token on the server (valid, rotated, ended
by a logout, over), `cookie` the one the browser holds, `hint` the mark in
`localStorage`.  `tab[t]` is what a page has in memory: what it shows, its
access token, whether its boot is done, and who waits for the refresh.
`call` holds the requests of a tab: the one refresh all its calls share
(`refreshRequest`), a logout beside it, and one `stray` that its page gave up and
the server may still serve.

The server's steps are those between which others run: `Verify`, then `Rotate`
(blacklist and heir, not atomic with the verification), and `EndSession`.  The
browser's: `Open` (a page load, which forgets memory and may leave a stray),
`Navigate`, `Login`, `Call` (a 401), `StartLogout`; `Refreshed`, `Denied`, `Broken`
(no answer: one retry with the cookie of the moment, then the end) and `LoggedOut`.
`Expire` and `RevokeAll` come from outside.  `lost` is history: tokens rotated
by a request whose answer nobody received.  How an access token expires is in
`Call`: any call may meet it.

### Mfa

The `TOTPDevice` row has a key, so that a row that is deleted and made again is
another row.  Each view is the sequence of its statements: `SetupRead`,
`SetupReset`, `SetupSave`; `ConfirmRead`, `ConfirmSave`, `ConfirmDelete`,
`ConfirmInsert`; `DisableRead`, `DisableDevice`, `DisableCodes`; `VerifyRead`,
`Consume`, `Mint`.  The mark of a used challenge is atomic (`cache.add`).  A set of
eight backup codes is one code, since the codes of a set are treated alike.

### RowLocks

A write path is the set of its steps: `CheckoutLocks`, `PdvLocks`,
`MovementLocks`, `CancelLocks`, `FormLocks`, and a payment's single order (`Plans`: those of
an order's products, of one product, and of single rows), and the three of
`StrayPlans`, which do not keep the order of the ids: a checkout that names
a variant of a product outside its cart (which the view checks only after both
queries), `BulkLocks` (one UPDATE of several products, `bulk_update_category`) and
`DeletionLocks` (the variants before their product).  `strays` are the
transactions on such a path.  A step
is a row with its place: the query it belongs to, the id the query is ordered by,
and the part of the line of a joined table, so that `Earlier` orders the steps as
PostgreSQL locks them.  A query over `select_related("category")` has, for each
product in the order of ids, a step for the product and then one for its
category; a category that is already locked is not waited for again.  The query of
the variants joins their products in the same way.  `Scans` are the orders in which
an UPDATE or DELETE may meet its rows.  `Begin`,
`Acquire` (the first step left) and `Finish` are a transaction's life.  That rows of a
joined table are locked along with each line of the result is PostgreSQL's behaviour.
Left out are the key-share locks a foreign key takes on the row it points to, the
bulk deletion and inline forms of the admin, and a category that changes while a
transaction that has read it runs.

### Accounts

A registration or a further store is two steps, the check and the insert
(`StartRegistration`, `Enrol`; `StartStore`, `OpenStore`); the unique columns decide the
second.  A profile edit is the read and the whole-row save of a form
(`ReadProfile`, `SaveProfile`), or the read and the partial save of a checkout
(`SyncProfile`).  A profile is three groups of columns; `given` is history, what
the customer gave last for each.

### Categories, Banners, BotConversations

Three protocols that check and then act without a lock.  A category form is
`Validate` and `SaveCategory`, with the database's constraints in the second.  A
banner is created after a read of the last position, deleted in steps (row,
list, one write per remaining row), edited by a whole-row save, and reordered
under locks; a request may give up in between.  What a deletion or a reorder is
about to write is a set of moves, each a row and its position, and a deletion
makes the moves in the order of the positions.  A bot message is resolved to a
conversation, inserted, and its status saved; the tab may give up and send again.

### StoreSettings

A behaviour follows one row of one of the five tables (`table`), since the tables
share nothing.  `setting` is its content, a column at a time; `settingsCall` holds the
calls that have read and validated and are about to save, with the row they will
write.  The endpoints of the `Store` row (`RenameStore`, `PatchPhone`, `PatchLook`,
`PatchReceipt`) write the columns they were sent, by `update_fields`; those of the other tables
(`PatchLabels`, `PatchProfile`, `PatchAppearance`, `PatchCommerce`) and the pages of
the admin (`OpenAdminPage`) write the whole row (`Written`).  `Materialise` is
`get_or_create` on behalf of anyone who only reads.  `SaveSetting` meets the
constraints of the table.  The history follows one column (`watched`, any of the row):
`settingsGiven` is the content a request or a page last gave for it, and `undone`
says that since then a row was saved whole over it without giving it, by a call that had read
the row before the column changed (`old`).

### Carts, ProductSearch

`Carts` has the stored carts, the tabs with their cart in memory, the selected
store, and the list on the screen, which may be the previous store's.  The
watchers and the listener of `useCart` are whole: `Switch` writes what it holds and
reads the other cart, `SetItems` and `UpdateCustomer` persist.  Items are known by
the store they come from, customer details by the day they were typed.
`ProductSearch` has what is wanted, what was asked last, the requests that have
been overtaken, the typing timer and the cache.  `moved` is history: a store was
selected elsewhere (`SelectStore`, which fetches nothing) since the last fetch.

## 3. What is checked

| Run | Instance | States | Shows |
|---|---|---|---|
| `orders` | 1 order, 3 requests, at most 4 events when a payment request starts, 2 cancellations | about 291,000 | the invariants of `Orders` and the refinement of `Settlement` |
| `orders_restocked_once` | 1 order, 3 requests | violated | cancel, a stale "delivered" or "sent" save, cancel: items go back twice |
| `stock` | 1 product, 2 variants, 1 order, 1 form, quantities and entered stock up to 1 | about 145,000 | ledgers, aggregate and availability |
| `stock_changes_explained` | the same with stock up to 2 | violated | the form writes back a stale stock with no movement |
| `checkout` | 1 tab, 2 carts, 3 requests, 2 units | about 954,000 | one order per purchase, honest answers, nothing left reserved, attempts end |
| `dashboard` | 2 filters, 2 readers, 1 writer, 2 writes, workers may die | about 1,104,000 | stale figures are explained; the cached figures catch up |
| `dashboard_filter` | the same | violated | an answer is of another filter |
| `sessions` | 2 tabs, 3 refresh tokens, 2 events | about 343,000 | the cookie is explained, an answered logout is final, dashboard pages are signed in, waiting ends |
| `sessions_logout` | 1 tab | violated | a logout whose call fails is undone by the next boot |
| `subsystems` | the nine modules of `MCSubsystems`, see below | about 1,041,000 | their properties, one module at a time |
| `locks_deadlock` | 2 products of one category, 2 variants of one of them, 2 transactions | violated | two checkouts wait for one another through the category row |
| `cart_bleeds` | 2 stores, 1 tab | violated | an item of the previous store's list lands in the new store's cart |

A violated run shows a sentence of the repository's own text that the code does
not keep; `PROJECT.json` quotes each sentence with its line.

### The bounds and why they are enough

- **Orders.** Orders do not touch each other, so one is enough.  The deepest
  hazard needs three requests whose copies are all old at once (two cancellations
  and a stale save).  `MaxEvents` and `MaxCancels` limit when a request may
  *start*, never what it may do, so a ledger can still grow past the bound by the requests in
  progress.  The longest acyclic walk of the payment graph has three edges; four
  also takes in a failed attempt and its retry.  The proofs need no bound.
- **Stock.** One product with two variants has every case of the code: sold
  plainly, by one variant, by two, with one of them off sale, and deleted.  One
  order is sold and cancelled; one form is stale against it.  Quantities up to 1
  keep the exploration small while zero, "last unit" and "one too many" all occur.  The violation run uses 2.
- **Checkout.** Three requests let a first attempt, its overlapping retry, and a later attempt
  coincide; two units let one purchase succeed and another compete for the last unit; two
  carts let a key belong to the wrong cart.  A post that is sent again after a 401 is
  the same request and takes none of the three.
- **Dashboard.** Two readers let one store an old figure after the other has
  stored a new one; two writes let a figure be one behind, or torn between the
  two.
- **Sessions.** Two tabs let two refreshes carry one cookie.  Three tokens are a
  session, its heir and the heir's heir, or a session and a login with its heir.
  `MaxEvents` counts what starts something (a page load, a 401, a logout, an
  expiry), not what follows from it: two of them let a refresh overlap a logout, a
  reload, an expiry or another tab's refresh.
- **The second factor.** Two requests are every pair of statements; four secrets
  and sets of codes allow two enrolments and their codes; two seconds (`MaxClock`
  1) two challenges.
- **Row locks.** Two products of one category, one of them with two variants,
  one order and two transactions: all pairs of paths.  Circles of three and more
  are left to the theorem.
- **Accounts.** Two emails for one slug name with two suffixes: both search the
  same slug; two requests: a form and a checkout over one profile.
- **Categories.** Three ids allow a third level and a cycle; two slugs a clash;
  two forms the race.
- **Banners.** Three banners in two lists, two requests: a deletion renumbers two
  rows while another request writes.
- **Store settings.** Two calls are every pair of endpoints and pages.  The
  `Store` row has one column of each of its four endpoints, the commerce settings
  two ways to deliver and one to be paid, a plain table two columns.  The
  history watches each column of the settings rows in turn, and of the `Store` row
  the name; its columns are treated alike.
- **Bot.** Two tabs, three messages, one order: two messages of one tab overlap
  and a third comes after.
- **Carts.** Two stores, the default one being the key without a store; two
  tabs; a day that passes, with details kept for no longer than the day they were
  typed (`CartTtl` 0); three events: two tabs open one store and one of them
  writes, or one opens, is typed in and goes to another store.  The run that looks
  for an item in the wrong cart has one tab and four events; the proofs need no bound.
- **Product search.** Two stores, two filter sets, two pages, one overtaken
  request at a time: a late answer for other filters, another page or another store.

Symmetry is used where the names are interchangeable: requests and orders in
`MCOrders`, variants in `MCStock`, and in `MCSubsystems` requests (`a`, `b`)
and placements and slugs (`x`, `y`).  No run with symmetry checks a liveness
property.

`CHECK_DEADLOCK FALSE` is set where the models really come to a stop: `Stock` and
`Checkout` (everything created and deleted, every request sent and answered),
`Sessions` (every token made, every event used), and `MCSubsystems` (every banner
made, every message sent; and two checkouts that wait for one another).  Deadlock
is checked in the other passing runs.

### Fairness

- `Checkout`: weak fairness of `TimesOut` for each tab.  The HTTP client aborts
  a post after 15 s whatever the server does (`web/services/api.ts:133`), so
  waiting for it ends even if every worker dies.  And weak fairness of the end of
  the call for a token (`Replay` or `RefreshFails`): it goes out through an axios
  instance of its own, without a limit (`web/services/api.ts:77`), so what is assumed is that a
  connection is answered or breaks in the end; it is repeated once at most.  No server step is
  assumed fair, since a worker may be killed.  `AttemptsEnd` does not follow from the fairness of
  each call alone: an expired token can answer 401 to every post, and without the mark
  that allows one refresh (`RefreshUnmarked`) post and refresh would follow each
  other for ever.
- `SalesDashboard`: weak fairness of `Expire` for each key.  Redis drops an entry
  90 s after it was stored (`api/views.py:786`).  No reader, writer or bust is
  assumed fair.  `CatchesUp` is a statement about what happens once orders stop
  changing; the bound `MaxWrites` supplies the "once".
- `Sessions`: weak fairness of `Broken` for each tab.  The refresh has no time limit
  of its own (`web/services/api.ts:77`); what is assumed is that a connection which stays
  without an answer breaks in the end.  The server is not assumed to answer.

## 4. What is proved

All proofs hold for any sets of tabs, orders, requests, products, forms and so on,
and any bounds.  They assume what the modules assume of their constants:
`BoundsAssumption` (`Orders`), `ProductOfAssumption`, `ItemsAssumption` and
`StockBoundsAssumption` (`Stock`: each variant has one product, products and
variants are different things), `CheckoutBoundsAssumption` and `CartsAssumption`
(`Checkout`: there is a cart), `SessionBoundsAssumption` (at least one token can
exist), `MfaBoundsAssumption`, `AccountsAssumption`, `CategoryIdsAssumption` (ids
are positive), `SearchBoundsAssumption` (a list may have a page),
`VariantsAssumption`, `WritersAssumption` and `RowLocksAssumption` (a store has
finitely many variants, a server finitely many writers and transactions at a
time; ids are naturals), `PlacementsAssumption`, `MarksAssumption`,
`EmailsAssumption` and `SlugsAssumption` (a mark is none of the values it is told
apart from).  The rest of them say that bounds are
naturals.

### Orders (`OrdersProofs`)

`Invariance` proves `Spec => []IInv`.  None of the properties is inductive alone,
because what a request may do depends on how far the order can have moved since
the request read it.  `IInv` has four parts:

- `WellFormed`: types; an order has a payment exactly when it exists; requests
  are about orders that exist.
- `ShippingInv`: `DeliveredWasShipped` and `SentWasShipped`.  A stale "delivered"
  is saved from a copy that was "sent", so whoever has *seen* "sent" must know the
  order was shipped.
- `MoneyInv`: `CancelledIsSettled`, `TimestampsAgree`, `CancelSettles` (the orders
  cancelled at least once are exactly the settled ones) and `SeenBehind` (a
  payment request has seen a status the present one can follow).  `SeenBehind` is what
  shows that an operator's stale choice can never be a move the operator may not
  make: the committed status has only moved on from the one that was seen.
- `TrailInv`: `EventTrail`, `ReversalsAreSystem` and `RankAdvances` (along the
  events the settlement of an order only advances).  `SettlementsHappenOnce` is a
  statement about two positions of a growing sequence; it follows from the order
  `RankAdvances` puts on them.

From it follow `TypeCorrect`, `TrailExplainsPayment`, `CancellationSettles`,
`OnlyCancellationReverses`, `SettlementIsUnique`, `TimestampsCorrect`,
`DeliveryFollowsShipping`, and `OrdersSettle`: `Orders` implements `Settlement`
step by step, so that stale, failed and repeated requests never change where the
money of an order is.

### Stock (`StockProofs`)

`VariantLedger`, `ProductLedger`, `Aggregate`, `FlagFollowsStock` and `StockTypes`
prove the five invariants.  Their invariant
`StockInv` is their conjunction with two facts about what is not there:
`NothingUnmade` (a product or a variant that was never made has no stock, no ledger and
no order lines) and `AllExplained` (while a product is being created, what its creator
remembers is missing from its ledger; afterwards the two agree).  `VariantInv`
keeps a variant's sum by itself, for every store.

The sums are folds over sets of variants, and a fold is defined by a recursion
whose induction the provers cannot instantiate.  The lemmas about `Total` therefore
argue by a smallest counterexample: among the finite sets that refute the
statement there is one of least cardinality (least numbers exist by a fact of
arithmetic, not by an induction over an operator), and taking one element out of it
gives a smaller one.  `VariantsAssumption` is there for this.

### Checkout (`CheckoutProofs`)

`CheckoutInv` says what the server keeps (one order per key, the units left and
those of the orders add up, what confirmed requests were told) and what the
browser keeps (the slot is never ahead of the keys made; `WaitingInv`: a tab that waits,
waits for a request that was sent, so that a replay changes nothing but where
that request is).  From it follow
`CheckoutTypes`, `AnswersAreReal`, `StockIsConserved` and `RefusalsAreTrue`, for any number
of tabs.  `PurchasesArePlacedOnce` needs one more fact, `KeyIsKept`: while a tab goes
on trying its cart, the slot holds the only key it has tried it with.  That is
true of one tab, and the theorem assumes it; a second tab of the same storefront
takes the slot for its own cart, and the first then retries under a new key.

### Sessions (`SessionsProofs`)

`SessionsInv` turns on the heirs: `HeirsInv` says that a token on its way to the
browser in the answer to a rotation is held by no cookie and no other request, so
nothing can have used it when it arrives.  `CallsInv` says what a request in each
slot may look like and that it carries a token that was made.  From them follow
`SessionsTypes`, `UsedCookiesAreExplained`, `AnsweredLogoutsAreFinal` (no refresh of any tab
carries a token any more) and `AppPagesStaySignedIn`.

### The second factor and accounts (`AccessProofs`)

Three invariants, each about what a request in progress knows of the rows it
has read: `ChallengeInv` (a session comes after the mark), `ConfirmationInv` (keys
of rows are never used again, so a confirmation flags the row it has read), and
`BackupInv` (a code that one request alone has found has not counted).  From them
follow `ChallengesMintOnce`, `ConfirmationIsProven` and `BackupCodesCountOnce`.

`EditsAreKept`: a form that has not grown old agrees with the profile on every
column it does not change.

### The back office (`BackOfficeProofs`)

- `NoCategoryIsAboveItself`: the rule a form is checked by asks only that the new
  parent has none.  That is enough: such a parent cannot be below the category put
  under it.  The invariant adds that a form whose rows have not changed since still
  satisfies the rule.
- `BannersInOrder`: `BannersInv` adds what a request knows of the rows while nobody
  has written since it read them (`RequestIsFresh`): a creation has the number of
  rows for its position, and a renumbering knows that once its moves are made
  (`Becomes`) the list is 0, 1, 2, ...  That ranks in a finite list are all
  different and leave no gap is `RanksAreAll`.
- `DashboardTypes`: no figure counts writes that were never begun, since the writes
  that wait for their commit are as many as the writers that have one.
- `StaleIsExplained`: figures that are not overtaken, and that nobody is about to bust,
  have seen every committed write, and no sale is waiting for its commit while they
  are in the cache: the bust of its signal emptied the entry, and a read that stored
  one since marks it.
- `DeadlocksHaveACause`: `PlansAreOrderly` shows what the plans have in common, those of
  `StrayPlans` excepted.  An order is locked before anything else, a variant after
  its product, a product after those with a smaller id only; a product joined
  to a variant is locked already.  `LocksInv` says that each
  transaction that is not astray has locked the beginning of such a plan.  So in a circle
  without a stray nobody waits for a variant, whoever is waited for waits
  for a product with a greater id than the one it is asked for, and in a finite circle
  that cannot go on (`NoEndlessRise`), unless a category is in it.
- `LossesHaveACause` and `OpenStoresSell`: `CallHolds` says that the row a call is about
  to save whole is one the rules allow, and that it agrees with the table on the watched
  column, if the call does not give that, as long as the call has not grown old.  The
  endpoints of the `Store` row never write a column they were not sent, so they appear
  in no loss.  The row that was validated is the row that is saved, so the
  constraints have nothing to refuse; saving only what was sent would break this (`WriteSent`).

### The storefront (`StorefrontProofs`)

- `ListSettles`: when nothing is under way, no text is being typed and no error is shown,
  the list is the answer to the last request; that request asked for the filters and page
  chosen last, and for the selected store unless that was selected elsewhere since.
- `CartsOfStores` and `DetailsAreStamped`: `CartsInv` says of storage what it says of the tabs (`Fits`: each
  item belongs to the store, is old, or came late from a list left over), that the old
  items of the cart without a store are in one cart only, and that a tab alone in its store
  has in memory the details that are stored.
- `ConversationOfTab` and `LastMessageDecides`: `Answered` (a tab that has had every
  answer has at most one message under way, the others are in the conversation
  of its session) and `OneAtATime` (in a conversation that is not shared, the
  message under way comes after all those stored).

### The subsystems together (`SubsystemsProofs`)

The nine modules that share no state are explored in one run (`MCSubsystems`).
`EachByItself` shows that each of them follows its own specification there, so that the theorems
above are about what that run explores.  `SubsystemTypes` joins their type invariants,
which say more than types: no account without what it registered for
(`AccountTypes`); the foreign key and the unique constraints of categories, whatever
the order of the saves (`CategoryTypes`); no challenge used that was not signed, no secret
confirmed that was not in the app (`MfaTypes`); no page shown but one that
exists (`SearchTypes`); no row locked by two transactions (`RowLockTypes`).

### Only model-checked

Every invariant and every action property of the runs is a theorem.  Liveness (`AttemptsEnd`,
`CatchesUp`, `WaitsEnd`) needs fairness, which is out of the prover's reach, and is
checked by TLC only.

## 5. What the checks found

Each entry is a place where the code does something else than a sentence of
the repository says; the lines and quotations are in `PROJECT.json`.

1. An order's terminal state can be overwritten through a stale copy, and as a
   consequence its items can go back twice (`orders_restocked_once`).  The money is
   unaffected: `ImplementsSettlement` holds all the same.
2. The product form overwrites stock sold meanwhile, without a movement
   (`stock_changes_explained`).
3. The dashboard cache key leaves out the channel, status and search filters
   (`dashboard_filter`).
4. Two checkouts of products of one category can deadlock, because the query that
   locks the products also locks their categories (`locks_deadlock`).
   `DeadlockHasACause` shows that among the paths that keep the order of the ids
  this row is the only way to a deadlock; a checkout that names variants of products
  outside its cart, a bulk change of category and a deletion keep no order, and a
  circle with one of them needs no category.
5. An item picked from the list of the store a visitor comes from lands in the
   cart of the store they go to (`cart_bleeds`).
6. A logout whose call fails leaves the refresh cookie, and the next boot signs
   the user in again (`sessions_logout`).

Some further behaviours are in the models and no run checks them, since the
repository makes no statement they would contradict: cancelling an order whose
variant went off sale moves the aggregate away from the active variants (`drifted`); a
retry that overlaps its first attempt can be told that the store is closed
although its order exists; two tabs share one idempotency key slot, and one purchase
can be placed twice; a slow dashboard read can store an old figure after a write,
for up to 90 s; a setup under way while a confirmation saves its flag leaves an
unshown secret confirmed (`crossed`); a settings row saved whole by its endpoint or the
admin takes back a column another save changed since it was read (`undone`); two logins
may use one backup code (`raced`);
and two edits at once can each make the other's category its parent (`lapped`).

## 6. What is left out, and why

- **Inside the modelled parts.**  Names, texts, prices, images, codes, the
  formatting of the WhatsApp message and receipts.  Outside `RowLocks` a
  transaction that locks its rows before it reads them is one step.  A password
  reset is the revocation it makes (`RevokeAll`); its mail and token are the
  framework's.
- **Not modelled.**  The Django admin apart from its settings pages (declarations
  for the framework, whose whole-row saves of products and orders follow no rule of
  this repository); delivery regions and feedback
  (single-row operations); tenancy (a stateless decision; the modules take
  the store of a request as given); throttling and captcha (kept by the framework and an
  external service); order references, encryption, pagination
  and errors (stateless); management commands; rendering and forms; the legacy
  services and deployment files.
- **Planned.**  In this order:
  1. `Sales`: `Orders` composed with `Stock` (both as instances over shared
     orders), so that restocking is tied to a cancellation; property: the units of
     an order are in stock or with the customer, never both.
  2. `TenantResolution`: the decision as an operator, checked against a reference
     definition over bounded inputs.
  3. `OrdersAdmin`: the whole-row saves of the Django admin over `Orders`.

## 7. Running

    tlc -config MCOrders.cfg MCOrders
    tlc -config MCStock.cfg MCStock
    tlc -config MCCheckout.cfg MCCheckout
    tlc -config MCSalesDashboard.cfg MCSalesDashboard
    tlc -config MCSessions.cfg MCSessions
    tlc -config MCSubsystems.cfg MCSubsystems
    tlapm OrdersProofs.tla
    tlapm StockProofs.tla
    tlapm CheckoutProofs.tla
    tlapm SessionsProofs.tla
    tlapm AccessProofs.tla
    tlapm BackOfficeProofs.tla
    tlapm StorefrontProofs.tla
    tlapm SubsystemsProofs.tla

The violation runs use the same MC modules (`RowLocksNoDeadlock.cfg` uses
`MCRowLocks`, `CartsNeverBleed.cfg` the module `Carts` itself) with the
configuration named after the property.
