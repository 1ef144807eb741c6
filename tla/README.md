# A verification of the Nextora POS back end

This directory models Nextora POS: orders, money, stock, events, and the
services around them. TLC checks the models; TLAPS proves the most important
results. The system is a Django application (`src/src`) over PostgreSQL, with
Celery workers, Redis and a browser front end. It serves many restaurants;
nearly every model is about one tenant, one database and, inside it, the rows
that can disturb each other.

Paths below are relative to the repository; `contexts/` stands for
`src/contexts/`.

## Running it

    tlc -workers 2 -config MCOrdersMoney.cfg MCOrders.tla      # any run of the table in section 3
    tlapm Orders_proofs.tla                                    # or any other *_proofs module

`PROJECT.json` lists every run, the source lines of every definition, a mutant
of the code for every property, the hazards and the theorems.

## 1. Inventory of the system

Transactions: the settings do not set `ATOMIC_REQUESTS`, so a request runs as a
sequence of transactions, one for each `@transaction.atomic` service it calls
and one for each statement outside them. The isolation level is PostgreSQL's
READ COMMITTED. Services lock rows with `SELECT ... FOR UPDATE`; most views
read the same rows without a lock first. `Model.save()` without `update_fields`
writes every column of the copy the caller has, also those that others have
changed since.

### Ordering (`contexts/ordering`)

| Part | State | Operations | Hard behaviour | What makes it correct |
|---|---|---|---|---|
| Order engine (`services/order_service.py`, `domain/billing.py`) | `Order`, `OrderItem`: status, lines, stored bill, discount, service charge, merge link | create, add, set quantity, modifiers, void item, discount, service charge, void order, split, merge | the bill is a snapshot that each operation must recompute, also those that move lines between orders; some operations look at no status | the bill is that of the lines; moving lines conserves units; merged orders stay empty; closed carts stay frozen |
| Payments and invoices (`payment_service`, `invoice_service`, `checkout_service`, `refund_service`) | `Payment`, `Invoice`, `Refund` rows, `order.paid_amount`, stock movements | add payment, refund payment, settle, void invoice, complete checkout, initiate refund | copies of sums, idempotency keys, two refund services with a ledger each, several ways to settle | an invoice is covered by captured money; status and invoice agree; nothing is reopened; stock leaves with a sale |
| Kitchen tickets (`kot_service`, the display in `views.py`) | `KOT`, `KOTItem` | generate, press status, press item, move all tickets of an order | cooks press rows they read without a lock | a line goes to the kitchen once; tickets follow the presses |
| Combos and offers (`discount_service`) | `OrderCombo`, combo lines, usages | add, list eligible, recognise, apply afterwards, remove | splits and re-prices lines; limits are looked at when the list is drawn | units and savings add up; an offer is used as it says |
| HTTP views and web POS (`api/views.py`, `views.py`) | the session's `active_order_id` | about a hundred views | read, decide, then call a service: everything they read may be stale | no race breaks what the services guarantee; no press or dish is lost |
| Printing and receipts (`printing`, `print_service_client`, `receipt_data_mapper`, `tasks.py`) | `PrintJob`, `InvoiceSnapshot`, `InvoiceConfiguration` | create, send, retry, reprint; freeze, render | HTTP inside the checkout's transaction; answers that are lost; a live configuration beside a frozen one | what is marked printed is on paper; history shows the sale as it was |
| Numbering (`sequences.py`, `invoice_service`) | one counter row per day | next number | two first orders of a day, roll-backs, midnight, old numbers | no number twice, none missing |
| Offline sync (`api/offline_views.py`, `static/js/offline`) | browser queue, sync log | push, pull | retries, partial failure | see section 6 |
| Board updates (`consumers.py`, `realtime.py`) | none | signal after commit | lost signals | clients fetch again |

Orders call inventory (the stock movements of a checkout and of a restocking
refund), customers (loyalty through events), the outbox (`publish`), printing,
tables (seating and releasing) and the realtime layer.

### Inventory (`contexts/inventory`)

State: `InventoryItem` (a balance and an average cost per product and
warehouse), `Batch`, `StockMovement` (append-only, one row per posting), and
documents: `StockTransfer`, `PurchaseOrder` and its lines, `StockAdjustment`,
`DamagedStock`; `InventoryAlert`. Every posting goes through
`apply_stock_movement` (lock the record, check the two balances, write movement
and balances). Hard: documents, records and batches are edited by plain REST
views between the services' steps; creating a record is three transactions;
damage reports, consumption, alert scans and reconciliation decide on unlocked
reads; the counter may sell what is not there, nobody else may. Correct when
stock is conserved, balances are the sums of their ledgers, receipts stay within
orders, only sales oversell, and each record has the alert its level asks for.

### Shared kernel (`src/shared`)

| Part | State | Hard behaviour | What makes it correct |
|---|---|---|---|
| Outbox (`infrastructure/events`) | `OutboxEvent`, `EventConsumption`, `DeadLetterEvent`, Celery messages | late acknowledgement, crashes, broker outages, retries, a sweep | each handler works at most once, and once or given up without faults |
| Tenancy kernel (`tenancy`) | a context variable, a bypass flag and a session setting | nested scopes, tasks that share a process, exceptions, lost connections | work for a tenant touches that tenant's rows only |
| Base models (`infrastructure/models`) | the soft-delete mark, audit entries | whole-row saves of stale copies | the audit trail tells the row; deletion stays |
| Cache, lock, rate limiter (`infrastructure/cache`) | Redis keys | read-load-store races | no stale value outlives its time |
| Maintenance tasks, monitoring, storage, logging, API base classes | none that others read | | |

### Other contexts

| Context | State | What is hard | What makes it correct |
|---|---|---|---|
| Subscription billing (`contexts/billing`) | subscription, invoices, payments, coupons, plan prices | hourly cycle against webhooks; late and repeated payments; three price computations | a period is invoiced once; who does not pay is cut off; who signs up pays what was shown |
| Marketing, super admin | the sign-up wizard, plans, coupons, discounts | overlapping sign-ups beside edits | workspaces are whole, limits hold |
| Customers | points, wallet, store credit, coupons: keyed ledgers with a cached balance | keys looked up before the lock; stale forms | the balance is the ledger; a key posts once |
| Restaurant | tables, merge groups, reservations, hours, printers | table states written by unlocked views | a merged table can be split again |
| Employees | attendance, leave balances, payouts, master data | check-then-write without a lock | a day, a leave and a period count once |
| Identity | users, roles, cached grants, sessions | the cache's version moves inside the change's transaction | changes take hold in the end |
| Notifications | one row and one task per message | a send is repeated after a crash; bulk rows are read back by age | sent once, never forgotten |
| Features, tenants | configuration behind a cache | stale cache, forms that never clear it | a settled value is served |
| Catalog | products, categories, modifiers, offers | overlapping whole-row updates, with and without events | readers of the events know the menu |
| Reporting | none: a query per page, export and resource | the same money under a dozen queries | figures shown side by side agree |
| Search, audit | rows without a protocol | | |

`PROJECT.json` lists each of these as a component with its status, and 40
hazards at their lines, each with the properties about it.

## 2. The modules and the code they model

    Sums ──────────┬── Orders ── MCOrders (runs) ── INSTANCE OrderLifecycle
    OrderStages ───┤
                   └── OrderApi ── MCOrderApi, OrderApiClaims ── INSTANCE OrderLifecycle
    Sums ── Stock ── MCPremises ── INSTANCE Tables, PrintJobs, Receipts, StockAlerts, RowLocks,
        Combos, OfferListings, Products, Counter, KitchenBoard
    Outbox ──┬── OutboxClaims
             └── MCBackground ── INSTANCE Subscriptions, Workspaces
    Numbering ── MCPlatform ── INSTANCE Authorization, Settings, Tenancy, Notifications,
        Customers, LeaveRequests, StaffRecords, Reports, Records, StockItems
    PrintJobs, Receipts ── (runs of a claim): PrintJobs, ReceiptClaims
    Sums_proofs ──┬── Orders_proofs, OrderApi_proofs, Platform_proofs
                  └── Stock_proofs
    Premises_proofs ── FrontOfHouse_proofs      Background_proofs

`MCPremises`, `MCPlatform` and `MCBackground` each gather modules that share no
state: a variable `part` says which of them a behaviour is about, the others
keep their first state. Nothing is checked of their interplay; what they gather
is what the code keeps apart. Where components do meet (a sale and its stock, a
sale and its receipt, a movement and its alerts, tills and the kitchen, a
sign-up and the coupons) they are in one module.

A **mark** is a variable the code does not have. It remembers that something
happened after which the code promises nothing (a stale form was saved over the
row, two calls overlapped), and a property then excepts exactly that. Marks are
`edited`, `disturbed`, `untold`, `overwritten`, `crossed`, `crossing`, `left`,
`late`, `doubled`, `overlapped`, `editedByHand`, `addedByHand`, `savedOver`,
`loose`, `recreated`, `excused`, `lost`. What the code does in the excepted
cases is in section 4.

### Orders

The ordering services. Each is one transaction whose first statement locks the
order's row, so each is one action; an exception rolls back, so a refused call
is no step. The variables are the columns the services write:

| Variables | Columns |
|---|---|
| `status`, `mergedInto` | `Order.status`, `Order.merged_into` |
| `line` | `OrderItem` rows: order, quantity, price, modifier price and stored modifier total, whether ACTIVE, and the quantity on their kitchen ticket |
| `discount`, `rate`, `total` | the bill's inputs and its stored total |
| `paid` | `Order.paid_amount` |
| `captured`, `refunded`, `keyUsed` | sums of the order's `Payment` rows of either kind, the idempotency keys those rows hold |
| `refundRows` | the sum of its `Refund` rows, the other refund ledger |
| `invStatus`, `invTotal` | the order's `Invoice` |
| `stockOut`, `modOut` | what checkouts took from stock for a line and refunds gave back, in hundredths of a unit; what they took for its modifiers |

The actions come in three groups, as in `Next`. `EditCart`: `CreateOrder`,
`AddItem`, `SetItemQty`, `UpdateItemModifiers`, `VoidItem`, `ApplyDiscount`,
`SetServiceCharge`, `VoidOrder`. `MoveLines`: `SplitOrder` (lines whole, and one
line in part) and `MergeOrders`. `MoveMoney`: `AddPayment`, `RefundPayment`,
`SettleAndInvoice`, `VoidInvoice`, `CompleteCheckout`, `InitiateRefund`.
`GenerateKots` stands alone and is also part of the checkout. Guards are the
services' own, also where one is missing: `VoidItem` and `SetServiceCharge` look
at no status, `InitiateRefund` does not refresh `paid_amount`, a partial split
copies the whole modifier total.

Abstracted: money is whole currency units, GST and paisa rounding are not
computed (no property compares amounts that they would change differently); the
due amount is derived, as the code writes it only together with `total` or
`paid_amount` and always as their difference. Complimentary orders and per-line
discounts are left out; combos, printing and numbers are in modules of their own.

### OrderLifecycle, OrderStages

The abstract promise about an order and its invoice taken together: absent,
open, invoiced, written off, cancelled, refunded; nothing is reopened.
The end of `Orders` maps the status of an order and of its invoice to such a
stage (`Stage`; "broken" when the two contradict each other) and states that
`Orders` implements `OrderLifecycle`.

### OrderApi

Requests that race on one order. `Receive` is the view's unlocked `get_object`;
the request keeps what it saw in `seen`. What the view decides on `seen` and
what the service decides on the locked row are kept apart, as they are in the
code. The ten views are `add`, `bump` (the web POS's + and -), `clear`, `pay`,
`web_pay`, `refund`, and four branches of the status view: `reopen`,
`complete`, `void`, `cancel`. A locking service is one step, enabled while the
lock is free. Two things take several: the checkout (`CheckoutBegin`,
`CheckoutCommit`) reads the lines, and an UPDATE of the lines by another request
does not wait for the order's lock; `clear_cart` (`ClearLines`, `ClearRead`,
`ClearSave`) is three statements without a transaction, the last of which saves
the totals it computed. A unit costs one, so that a bill is a number of units.

### Outbox

`Publish` commits the event's row and sends the dispatch message, or loses it
when the broker is down or the process dies. `SweepSelect`/`SweepSend` are the
sweep, `TakeDispatch` to `MarkProcessed` are `dispatch_event_to_handlers`,
`TakeHandle` to `RetryHandler` are `execute_handler`: the consumption row is
committed (`ClaimTask`) before the handler runs (`RunHandler`), deleted when it
fails (`DeleteRow`). `Crash` ends a worker at any point and gives its message
back, as tasks are acknowledged late. Crashes and outages together are the
`faults`. Celery and the broker are modelled from the settings and from how the
tasks use them: a task that raises is acknowledged; `self.retry(exc=exc)` raises
the handler's error once retries are used up. Time is left out: an event may be
"older than a minute", and a retry's countdown over, at any moment.

### Stock, StockItems, StockAlerts

`Stock` is the stock of one product, one record per warehouse. `Move` is
`apply_stock_movement`: refuse when the record or the batch would fall below
zero, else write movement and balances; `Direct` is the form of sales, returns
and opening balances. On it stand the transfer, the purchase order
(`ReceivePurchaseOrder` accepts lines of another order, as the code does), the
adjustment, the damage report in its three steps (`ReadDamaged`, `DraftDamaged`,
`WriteOffDamaged`) and keyed consumption (`CheckKey`, `Consume`).
`EditTransfer` is the REST view's PATCH or DELETE, which asks for no status.
`moved[m]` is the sum of the movement rows of type `m`, the ledger the balances
must agree with. Batches are numbered in the order in which they expire.
`MCPremises` names three warehouses, two orders and three lines.

`StockItems` is one record as its screens and REST resources keep it: creation
in three transactions (`FindRecord`, `InsertRecord`, `PostOpening`,
`LinkProduct`; `BreaksOff` between them), the average cost (`Average` is
`_recompute_wac`), levels, whole-row saves of record, batch and order, and the
two queries of `reconcile_item`. `StockAlerts` has one record's alerts: every
movement owes an evaluation after its commit (`due`), the scan lists first and
raises later, people acknowledge and resolve.

Abstracted: quantities and costs are whole; a transfer has one line; a purchase
line names the batch number its supplier delivers under; removals by an
adjustment have one movement type.

### Counter, KitchenBoard, Tables

`Counter` is the web point of sale: a browser session per till, requests that
take its cart when they start and write the session as a whole when they end,
and every view that changes the cart, pays, takes another table's order or
prints the kitchen's ticket. `intended` counts what the presses asked for, the
yardstick of the property. `KitchenBoard` has the display's presses
(`PressStatus`/`WriteStatus`, `PressItem`/`WriteItem`: a read, then one column
written) beside the API's `MoveOrder` and `PatchTicket`. `Tables` has the table
services, each one transaction, and the views of web POS, order API and table
API that read first and write later, one statement at a time (`visit` is what a
request has yet to do).

### Combos, OfferListings, Products

`Combos` is one order's lines under `add_combo`, `_match_combo`,
`apply_retrospective_combo` and `remove_combo`, in cents, with the sharing of
savings (of a recognised combo in hundredths of a cent, each share rounded by
itself) and the splitting of lines into covered units and a remainder.
`OfferListings` has the discount dialog, which alone looks at availability,
eligibility and usage limits (`evaluate_order_combos`), and the applying calls,
which look at none of it. `Products` has a product's overlapping reads and
whole-row updates and what their events say (`told`).

### PrintJobs, Receipts, RowLocks, Numbering

`PrintJobs` is a sale's jobs between the checkout's transaction (`Settle`,
`DispatchInCheckout`, `Commit` or `Abort`), reprints, the retry button and the
task. The print service prints or refuses, and its answer may be lost.
`Receipts` has the invoice configuration, the snapshot of the checkout and what
each kind of copy is built from. `RowLocks` gives, for each service, the rows it
locks in their order (`Locks`), with waiting and PostgreSQL's abort of a victim.
`Numbering` is the counter row that stays locked until its caller ends.

### Subscriptions, Workspaces

`Subscriptions` is a tenant's subscription with the hourly cycle
(`StartCycle`, `NextBatch`, `Process`), the webhook (`ReceiveEvent`,
`PaymentAccepted`, `MarkPaid`, `RecordProcessed`, each of which may be the last
the request does) and time. `Workspaces` is the sign-up wizard, its price
dialog, the provisioning transaction statement by statement (unique indexes make
a second insert wait), the super admin's screens, and the upgrade screen with
the pricing engine.

### Authorization, Settings, Tenancy

`Authorization`: a user's grants under a versioned key; the signal moves the
version inside the transaction of the change, and a request may store what it
loaded before. `Settings`: host, configuration and flag, each loaded and stored
in two steps and saved by writers that read first, some of which never delete
the entry. `Tenancy`: one process and the blocks it is in (request, task, scope,
bypass, `atomic`), with exceptions, failed transactions, lost connections and
what a Celery process inherits from the task before.

### Notifications, Customers, LeaveRequests, StaffRecords, Records, Reports

`Notifications`: creation, the caller's `delay()` after its commit, bulk sends,
the sweep, the retry button, and workers that send, store, retry and die.
`Customers`: four keyed ledgers and coupons under the row's lock, beside REST
forms that save the whole row. `LeaveRequests` and `StaffRecords`: approvals,
attendance and payroll that look first and write later, beside forms.
`Records`: the screens and REST resources of rows that have no service of their
own, in thirteen groups; `desk` says which, and they differ in their guards (what a delete refuses, which status a service asks for, whether a form
runs in a transaction, which rows a default flag excludes). `Reports`: the
orders, items, payments and invoices of two days, and each page, export and API
resource as a query of its own.

### Sums

The sum of a function's values, over its domain (`SumOver`) or a part of it
(`SumIn`), in a first-order form the provers can handle; the community modules'
folds take an operator and cannot be proved about.

## 3. What is checked

A run that passes explores every state within its bounds. `CHECK_DEADLOCK FALSE`
stands in each cfg because every bounded system here may stop: an order ends
void, requests are all answered, an event is handled, documents are used up.
Symmetry is used in one run only, which has no liveness property.

### The runs that pass

| Run | Instance | Shows |
|---|---|---|
| `orders_money` | one order, one line, one key, payments of 1 and 2, at most 5 captured, rates 0 and 50 % | `TypeOK`; an invoice is covered by money (`InvoiceBacked`); status and invoice agree (`StatusMatchesInvoice`); `paid_amount` is the ledger unless `initiate_refund` left it stale (`PaidMatchesLedger`); stock moves only with a sale or its refund (`StockFollowsSale`); `ClosedStaysClosed`; the life cycle (`ImplementsLifecycle`) |
| `orders_moves` | three orders, two lines, quantities 1 and 2, a discount of 50 % | the stored bill is that of the lines (`BillIsCurrent`), also of a split's and a merge's orders; the cart of a closed order is frozen but for voiding (`ClosedCartFrozen`); splitting and merging conserve units (`MovesConserveUnits`); merged orders are empty for good (`MergedOrdersAreEmpty`) |
| `api` | three requests, either of seven views that include those which write back what they read, or of the eight whose services check again under the lock | an invoice is final (`InvoiceFinal`); every request is answered (`EveryRequestAnswered`); of the second mix, an order is sold at most once (`SoldIsInvoicedOnRecheck`) and its total follows its lines when no request is half done (`TotalFollowsLinesOnRecheck`) |
| `background` | an event, two handlers, two workers, one retry, two faults; a subscription, two runs of the cycle, two webhooks; two sign-ups with a coupon and one edit by the super admin | below |
| `platform` | eleven parts of two or three actors each | below |
| `premises` | eleven parts: stock (three warehouses, two records, two batches, three documents at once), a dining room, a sale's print jobs, alerts, two locking transactions, a cart of four lines, a product, a receipt, a till, a kitchen ticket, two offers | below |

`background`

  - `EffectAtMostOnce`: a handler works at most once, whatever is delivered again;
    `NoTaskForgotten`: a processed event has forgotten no handler;
    `HandledWhereFair`: without faults each works or runs out of retries.
  - `PeriodsAreInvoiced`: overlapping and dying cycles never make a tenant owe a
    period twice, and an active (past due) subscription is in a period whose
    invoice is paid (open). `UnpaidIsCutOff`: who is past due after the grace
    period is so no longer, in the end.
  - `OffersAreKept`: a workspace has its address, slug and plan for itself; who
    signs up pays what the page showed; a coupon's limit holds; the two price
    computations agree; each with its exceptions, named as marks.

`platform`

  - `GaplessAndUnique`: every number up to the counter belongs to one document,
    whoever rolls back, whatever date a waiting caller had fixed.
  - `OwnRowsOnly`: work for a tenant reads and writes that tenant's rows only.
  - `SentAndOnce`: a notification goes out once, and one shown as on its way is
    in somebody's hands, but for retries by hand and crashes.
  - `CountersFollowRows`: balances are their ledgers' sums, a key posts once, a
    coupon keeps its limits.
  - `StaffBookedOnce`: leave is charged, a day opened and a period paid once.
  - `BooksAgree`: pages, exports and resources agree on revenue, rows add up to
    the figures above them, items make the sales, tax is accounted for, and
    money counts on one day of each page.
  - `RecordsKeep`: rows that no stale copy was saved over are what the audit
    trail says, stay deleted or closed, and post their document once; stock
    records agree with their ledgers, their averages lie between the costs that
    went in, products point at their records, reconciliation raises no false
    alarm.
  - `CachesCatchUp`: once nobody edits, cached grants and settings are the
    committed ones from some moment on.

`premises`

  - `StockAgrees`: every unit is in a record or accounted for, receipts are what
    the orders say; `OnlySalesOversell`; `FirstExpiredFirstOut`.
  - `PaperIsTrue`: a job shown as printed came out of a printer; history pages
    and the payload of a copy show the sale as it was.
  - `FollowersKnow`: a record has the alert its level asks for once every
    movement is evaluated; who follows the catalog's events knows the menu.
  - `OrderedNeverCircle`: payments, dispatches and adjustments never wait in a
    circle, nor do payments and checkouts.
  - `TillsKeepTrack`: no cart, press or dish is lost and an order is paid once,
    unless requests overlap on it or a till lets it go; an offer is used as its
    limit, days and minimum say when its listing is not out of date; a table shown
    as merged has the primary by which it can be split again.
  - `CombosKeepTheCart`: what a bill takes off for a combo is the savings the
    combo shows, to half a cent a line and for the savings where each share of a
    recognised combo is rounded; recognising one loses no unit.
  - `CooksAgree`: a ticket goes back only by a press that was overtaken or by its
    own API; an item is marked after an odd number of presses.

### Bounds, and why they are enough

Orders: one order suffices for money, as no service moves money between orders;
five units of captured money allow a part payment, a retried one and a checkout
that captures the whole bill again, with refunds in between. Two lines suffice
for a bill, one moved while the other stays. Three orders are the least at which
a merged order can be the target or the source of another merge. Requests: three
allow a reader, a writer between its read and its write, and a third that sees
the result. The `api` run leaves `reopen`, `complete` and `clear` out of what it
says of sales and totals: they write what they read before any lock (section 4).

Outbox: two workers and two faults allow a redelivery that races the first
delivery and a crash of the recovery; two handlers allow a dispatch that dies
half way. Billing: two runs of the cycle overlap, one may die and start again;
two units of time pass a trial of one, a period of two being renewed while a
grace of one is open. Sign-ups: two, at the same or another address and name,
with one edit between any two of their steps.

Premises: three documents at once allow two to move the stock a third has read;
two batches and three lines allow a short batch, an incomplete order and a
receipt through the wrong order. Two tables and a request are enough for a merge
group that a waiter's unlocked tap, a transfer or a form takes apart, as the
services act beside the request at any moment. Two transactions can wait in a
circle; a circle of three needs no other pair of services than those named. Four
lines hold a combo of two groups with a remainder each. Two requests of one till
with up to three presses give two carts at once, a press between another's read
and write, and a payment beside either. Two cooks and three presses overtake
each other. Two orders, two days and two rows of uses reach every limit, `MaxLoose`
one unit the minimum.

Platform: three callers of a counter let one roll back while two wait, one with
yesterday's date; two tenants and four nested blocks are the least at which a
scope inside a scope inside a request unwinds past another tenant. One request
and one retry of a notification beside a sweep and a second worker; two calls
and a form of a customer; two approvers of two leaves; two requests of each
screen; three begun operations on a stock record; two orders on two days, paid
by two methods, refunded in part and in full.

Bounds that stand in guards: `MaxCaptured`, `MaxFaults`, `MaxCopies`,
`MaxBegun`, `MaxTime`, `MaxChanges`, `MaxVersion`, `MaxEdits`, `MaxDepth`,
`MaxNotes`, `MaxMessages`, `MaxAccepted`, `MaxPosted`, `MaxUsed`, `MaxRows`,
`MaxDay`, `MaxNumber`, `MaxAttempts`, `MaxQty`, `MaxSends`, `MaxOnHand`, `MaxDue`,
`MaxUnits`, `MaxPresses`, `MaxTurns`, `MaxLoose`. `MaxRetries` and `PerCustomer`
are the code's own limits, made small. Some first states are fixed in the MC
modules to keep the product of choices small: `MCBackground` ties the
restaurants' names to the coupon and lets trials and discounts come with an edit.

### Fairness

  - `api`: weak fairness of each request's `Serve`. The server runs a request it
    has accepted until it answers; a transaction that waits for the row lock gets
    it, as a checkout that holds it commits.
  - Outbox (`HandledWhereFair` assumes `Fairness`): weak fairness of what a worker
    does with the message it holds, strong fairness of taking a message, because
    the broker's queue is first in, first out while the workers are at times all
    busy. Crashes, outages and failing handlers are never required. The sweep has
    no fairness: no entry of `CELERY_BEAT_SCHEDULE`
    (`src/config/settings/base.py:227`) starts it.
  - Subscriptions: Celery Beat starts the cycle hourly (weak fairness of
    `StartCycle`); a run may die, but not always at the same place (strong
    fairness of `NextBatch` and of reaching a tenant). No payment is required.
  - Authorization and Settings: cache entries expire (`Expire`), and a request
    that loaded a setting goes on (`StoreEntry`). No writer needs to clear.
  - Everything else is safety and assumes nothing.

## 4. Where the code and its text disagree

Each of these has a run that finds the counterexample.

| Run | The text | The code |
|---|---|---|
| `checkout_due` | `checkout_service.py:101`: recording the payment first sets the amount due to 0 | an order of 2 with 1 paid is checked out: 2 more are captured, 3 are paid, the amount due is -1. The pay view sends every payment that completes the balance here |
| `api_reopen` | `api/views.py:674`: "Cannot reopen a settled order." | the status view reads OPEN; a checkout settles the order; the view saves OPEN. The invoice stays issued and the order can be sold again |
| `api_idempotent` | `docs/api_specification.md:178`: pay is "Fully idempotent via idempotency key" | half the bill is paid under a key; the retry now equals the amount due, becomes a checkout, and that records its payment without the key |
| `outbox_sweep` | `docs/walkthrough.md:38`: the sweep recovers stuck IN_PROGRESS events | a worker dies after marking the event; every later message returns early because it is IN_PROGRESS, and none of its handlers runs. The run grants that the sweep is scheduled |
| `receipt_commit` | `checkout_service.py:204`: the dispatch only executes after the transaction commits | it is an ordinary call inside `transaction.atomic`: the receipt is on paper, then the commit fails |
| `receipts_frozen` | `models/invoice_config.py:188`: historical invoices always render from their snapshot, not live config | `render_receipt_html`, which a reprint sends to the printer, reads today's configuration and today's lines |

What follows was met while modelling. It is in the models as it is in the code,
and is the reason for the exceptions that marks make.

**Orders and money.** The limit of `initiate_refund` counts `Refund` rows only,
`refund_payment` counts `Payment` rows: a refund by the second and then one by
the first can pay out more than was captured. `initiate_refund` also takes void
orders that were never paid; payments are accepted on settled and void orders.
`void_item` and `set_service_charge` re-derive the total of a settled order,
whose invoice keeps the old one. A partial split copies the whole modifier total
to the clone and leaves it on the source. A merge closes its sources, a split
that empties its source leaves it open. The web POS's clear and void act on an
order of any status. Two presses of + that read the same quantity add one unit.

**Combos and offers.** An order has no customer field, so offers for new,
returning or loyal customers, and once per customer, are never eligible.
`current_uses` is never incremented, so the overall limit is never reached;
once per order ignores its value, and a value of 0 disables any limit. Applying
an offer (web POS, `apply_combo`, `add_combo`) checks nothing of what the list
checked, and the web POS applies it to the order the session has by then. Uses
of void orders count for ever. Groups of an offer are not checked by
`add_combo`; an offer without groups takes the whole cart; a retrospective flat
discount is not capped by the lines; `set_item_qty` keeps the line's discount;
bundles and buy-x-get-y are treated as flat discounts. `POSComboModalView`
filters by a column the model does not have.

**Tills, kitchen, tables.** Two overlapping first taps open two carts, and the
session's last writer keeps one. Tapping a table or logging out abandons an
unsaved walk-in cart; an error after a committed line loses the session's
pointer. A + on a line already sent never reaches the kitchen; `generate_kots`
ignores the order's status; voiding or settling leaves tickets on the display,
where nothing serves them. Two waiters at a vacant table open two orders on it
(`docs/business_workflows.md:550`); a deleted primary leaves its secondaries
unsplittable; the API deletes an occupied table.

**Printing and receipts.** The retry task has no schedule entry and lists jobs
before a tenant is bound, so it finds none. A job whose worker died while
printing is in no list. The snapshot is taken by the checkout only, and its
failure is swallowed; a blank name in it falls back to the live configuration;
totals and toggles are live. There are two printer models.

**Locks.** `concurrency.py:3-6` and `docs/adr/ADR-0003-billing-engine-architecture.md:144`
claim one order of locking. Merges of orders, table merges and receipts lock in
their callers' order and do wait in circles, as the model shows before a victim
is aborted; `lock_in_order` is never called. What orders payments and checkouts
is the day's invoice counter, so a payment before midnight and one after may
still meet.

**Stock.** A damage report reads the balance twice without a lock, so that what
is written off is not what was reported (`adjustment_service.py:179`). The second
delivery of one consumption skips only its first posting (`ledger.py:60`). A
received transfer is credited to the batch it left, of the source record
(`transfer_service.py:167`). The opening balance is lost or repeated around the
three transactions of a record's creation. `ReorderLevelsForm` changes the
instance it compares with, so that `is_active` is never saved. A PUT or PATCH of
a record writes its balance back as it was read, although
`models/movement.py:8-14` says the sum of movements equals it; a stale PUT of an
adjustment or transfer un-approves it, and it is posted twice; one of a purchase
order writes its old status back. Reconciliation reports discrepancies that are
movements between its two queries. Sales find the record by product, not by the
product's link. `create_warehouse` passes a column a migration removed, so it
and everything that falls back on it fails.

**Outbox and notifications.** The dead letter of an exhausted handler is never
written (`events/tasks.py:118`), and for the same reason no notification becomes
FAILED: the exhausted retry raises the handler's own error. The refetch of a
bulk send may take other callers' rows. Early acknowledgement loses a message
whose worker dies.

**Billing and onboarding.** The cycle does not list cancelled subscriptions, so
they never expire (`lifecycle.py:7` says they do). `mark_paid` is called
idempotent (`invoice_service.py:67`); two webhooks with different payments both
capture. A late payment revives an expired or cancelled subscription. Nothing
writes the gateway's order id that webhooks look invoices up by. A plan of price
0 (`0002_seed_default_plans.py:98-101`) has invoices nobody settles. The page
shows the plan's effective price, sign-up charges the `PlanPrice` row; the
dialog ignores a coupon's cap, sign-up applies it and ignores the plans and the
per-user limit; the upgrade screen's engine ignores cap and minimum and adds GST,
which `plan.py:47-50` says may be included. Two sign-ups exceed a coupon's
limit; trials never consume one; deleting a coupon deletes its usages,
though `subscription_views.py:303-313` says a used one cannot go. Tenant
discounts have scopes the engine does not know. Two tenants of one name race for
the slug and one gets an uncaught error. `renew_or_upgrade` always raises, so a
verified payment activates nothing. `subscription_views.py` lacks an import and
writes two columns that do not exist.

**Identity, tenancy, settings.** `signals.py:5-6` guarantees no stale grants;
the version moves before the commit, so a request may cache old grants under the
new version for ten minutes, and `.update(is_active=False)` sends no signal.
Work for no tenant may see a tenant's rows after a failed exit in the same
Celery process. The tenant resolver's documentation says its entries are
invalidated by events; nothing does, nor does the billing form clear the
configuration. Two editors of a configuration lose one edit.

**Customers, staff, catalog, restaurant.** REST forms save stale balances.
Overlapping approvals lose a charge of leave; overlapping clock-ins and payrolls
duplicate rows. The employee form has no transaction: a user that was created
while the profile failed makes every retry fail. Two updates of a product, or an
update and a deletion, overlap and the second revives the row without an event;
REST and the CSV import publish none, against `product_service.py:10-11`. A
stale PUT reopens a closed restaurant.

**Reports.** Refunds of today are totals of void orders on one page and captured
refunds on another. Item pages and the item GST export count voided lines; the
HSN summary adds an order's tax once per item row. The filter by payment method
joins payments without `distinct`. "Non-taxable" sales are the discounts of taxed
orders. "Total collected today" adds refunds. The B2C filing counts void
invoices. Collected tax misses overpaid orders. A full refund voids the order
and also shows as a refund. `TableAnalytics` filters by a status in capitals and
finds nothing.

## 5. What is proved

37 theorems, in eight modules. They hold for any finite sets of lines, records,
batches, uses and leaves; any orders, keys, events, tasks, workers, tenants,
requests, tables, tills, cooks, transactions and callers of a counter; any
natural prices, amounts and bounds; any offers, combos, coupons and discounts; any
number of orders, lines and payments in the reports. Every safety property of a
passing run is a theorem.

The assumptions, each at the head of its module and evaluated by TLC:

  - `OrdersAssumption`, `StockAssumption`, `ApiAssumption`, `OutboxAssumption`,
    `NumberingAssumption`, `PlatformAssumption`, `PremisesAssumption`: constants
    have their types, "no order", "no table", "no key" and the like are none of
    the others, quantities that are asked for are positive.
  - `LocksAssumption`: a transaction names finitely many stock records, and their
    ids are numbers, by which the services sort them.
  - `DealsAssumption`, `OffersAssumption`: prices, minimums and limits are numbers,
    prices and limits not negative ones (`PositiveIntegerField`).
  - `CombosAssumption`: a cart has finitely many rows, quantities are positive, what
    a client picks for a combo is a sequence of products and quantities, an offer
    is of one of the three types, and prices, the value of an offer and what its
    groups ask for are not negative. The form sets no lower bound on an offer's
    value (`discount_value`); with a negative one a sold combo worth nothing would
    show savings that no line carries.
  - `BooksAssumption`: the reports have finitely many orders (numbered from one),
    lines and methods of payment; what a line costs and the rate of its tax are
    natural numbers, a discount is a percentage, and orders are paid by methods that
    exist.
  - `AlertsAssumption`: a record's behaviour starts above its minimum.
  - `BillingAssumption`: a webhook names a payment, and two webhooks about one
    order of the gateway name the same payment: the gateway captures an order
    once. Without it two payments do settle one invoice (section 4), which is a
    finding about `mark_paid`, not about the cycle.

**Sums_proofs.** `SumOverNat`: a sum of naturals over a finite domain is a
natural. `SumOver` is the value of a recursively defined function, so its
defining equation holds only if a solution exists; the proof builds solutions
over the subsets of at most n elements, takes the least n without one and
refutes it. (Induction as a theorem takes an operator and cannot be
instantiated; a least counterexample needs none.) `SubsetInduction` repeats the
argument once for a *set* of subsets, which can be instantiated; from it follow
the laws the other modules cite: a sum changes by what one value changes, equal
values give equal sums, a sum splits in two, it does not depend on the choice of
the next element. The same is said of sums over a part of a domain (`SumIn`), and
`GroupsAddUp` says what every report relies on: however rows are grouped by a
key, the groups' sums add up to that of the rows.

**Orders_proofs.** Four inductive invariants, each with the former as its base:

  1. `TypeOK` (`TypeCorrect`): bills and sums never go negative. The lemmas under
     it bound rounding, discounts (a discount never exceeds the subtotal) and
     what a split does to a line (`SplitLines`).
  2. `Books`: `StatusMatchesInvoice`, `InvoiceBacked` and `PaidMatchesLedger`,
     with the strengthening that only settled and void orders have refund rows.
     The three need each other: settlement reads `paid_amount`, so an invoice is
     covered only because `paid_amount` never exceeds what was captured, and that
     needs to know where `initiate_refund`, which leaves it stale, can occur.
     Gives `InvoicesBacked`, `StatusInvoice`, `PaidIsLedger` and, as an action
     property, `ClosedForGood`.
  3. `Rows`: adds `MergedOrdersAreEmpty`, `StockFollowsSale` and `LinesOwned` (a
     line that lives belongs to an order that exists). Each step is shown to
     keep, open or move each line (`LineSteps`), and the property follows from
     that alone. Gives `MergedEmpty`, `StockWithSale`, `CartFrozen`.
  4. `Bills`: adds `BillIsCurrent`, with the strengthening that an order that
     does not exist bills nothing. Gives `BillCurrent`. It covers modifiers, flat
     discounts and service charges, which the run of section 3 holds fixed.

`UnitsConserved` compares two sums, one before and one after a split or merge:
the units of an order are the sum of what every line counts for, each moved line
counts the same in its new order, and a partly moved line and its clone count
together what the line did. `OrdersImplementLifecycle` maps initial states to
initial states and, under `Books`, each step to a step of `OrderLifecycle` or a
stutter (`LifecycleStep`); `Books` is needed because the mapping sends a
contradictory pair of statuses to "broken".

**OrderApi_proofs.** `Typed` and `Covered` hold of all ten views: `paid_amount`,
in the row and in every copy a request holds, never exceeds what was captured, so
that whatever stale copy is written back an invoice is covered. This gives
`OneInvoice`. `Guarded` holds of the views that check again under the lock: the
holder of the lock has read the cart that is there, the total is that of the
cart, and nothing is sold before the invoice. It gives `SoldOnce` and
`TotalFollows`.

**Stock_proofs.** `TypeCorrect`: no batch falls below zero. `Shortages` (sales
take out, they never put in) makes `OnlySalesOversell` inductive:
every other movement leaves its record at zero or more (`SalesAloneOversell`).
`Conserving` adds that a transfer has sent and received nothing until it does so,
and `Receipts` that an order's lines count nothing before it exists; with the sum
laws they give `StockAndOrdersAgree`: what is in the records, on its way and
posted to the outside adds up, and no receipt exceeds its line, through
whichever order it is booked. `EarliestFirst` unfolds the recursive choice of
batches: a batch is taken from only when the need exceeds the sum of all that
expire earlier (`EarlierFirst`).

**Premises_proofs.** `NoCircle`: `LockOrder` gives the shape of what each service
holds and still wants. Payments want one row and hold none while they wait; an
adjustment or dispatch wants stock records in the order of their ids, all above
those it holds; a checkout holds its order before the counter, and the counter
before nothing another of them waits for. A circle of dispatches and adjustments
would have a waiter for the largest wanted id whose holder wants a larger one.
`PaperTrue` rests on `PaperInv` (a draft says printed only of what is on paper,
and so does an answer on its way) and `ReceiptInv` (snapshots are written once and
the sale never changes under them). `FollowersInformed` rests on `AlertInv`, where
both thresholds are considered at either side of a movement, and `MenuInv`: a
caller's copy is one of the menu's former rows, and who writes it back over a
newer one is marked.

**FrontOfHouse_proofs.** The parts whose screens act on what they read before.
`TillsTracked` joins three invariants. `TillInv`: requests that share a cart or a
session have it marked; a session has the cart its request took until that
request writes; a ticket says what its line has unless the line is marked late; a
quantity about to be set is the one the press asked for; a cart with unsent lines
is held by a request or a session. `DealInv`: an offer a listing still shows
rightly is usable now, and fresh uses keep to its limit, whichever kind that is. `DiningInv`: what a
request is about to save never takes the group from a merged table.
`CooksAgreed` rests on `BoardInv`: between the press of an item and its write, the
mark is what the press read and one behind the parity of the presses.
`CombosKept` rests on `CartInv`: every line of a combo belongs to one the order
has, and the shares of a combo make its savings. The last share of a sold combo is
what the others left (`SoldSharesAddUp`); each share of a recognised one is off by
half a cent at most, and so is the combo's own number (`MatchedSharesAddUp`). The
loop of the matching keeps that no line gives more than it has and no group takes
more than it needs (`TakesFits`, `MatchedFits`), a least visit that breaks it
refuting itself. Hence no two visits end in the same row and what stays of a line
that is not covered whole is positive (`PlacesAre`); grouping the visits once by the
line they came from and once by the row they went to, the units of every product
are what they were (`UnitsRegrouped`).

**Platform_proofs.** `NumbersAreGapless` rests on `Counting`: a day's row has one
holder; a number is issued exactly when the committed counter has passed it and
older software had not given it out; and a holder's number is above the counter,
with nothing but older numbers between. The last part is what makes a committed
number both the next one and a new one, and a roll-back harmless. It needs that
only invoices meet older numbers, since orders and tickets do not retry.
`OwnRows` rests on `BindingInv`: while the connection lives, the innermost block
that names a tenant owns what is bound, and the session setting too unless the
transaction has failed, in which case an exception is on its way out; nesting is
unbounded in the proof. `StaffBooked` joins `StaffInv` (what a call found
missing is missing still, nobody else has the employee in hand) and `LeavingInv`
(what an approver has read is what is charged, at worst less than what was
approved since). `CountersFollow` rests on `ClubInv`: a row no form was saved over
agrees with its ledgers, and a coupon's uses are the sum of its redemptions.
`SentOnceAndKept` rests on `NoticeInv`: a notification nobody sent again is in one
place at most (owed by its caller, in the queue once, with one worker), and in
none once the provider has it. `RecordsKept` joins two. `DeskInv`: a row no
stale copy was saved over is what the audit trail last said, stays deleted or
closed once it was, and has moved stock at most once and then is no draft
(`RowsKeep`); copies that requests hold are rows their desk allows
(`FormsProper`); one row has the default flag, and while a form has taken it no
other has (`OneDefault`). Each screen of the thirteen is a move of a row, and the
invariant is proved of the moves. `ShelfInv`: the record's balance is the sum of its
movements and its average lies between the lowest and the highest cost that went
in (`RecordSound`); the balances of batch and order follow (`LotSound`,
`OrderSound`); a begun request holds what its next step relies on, and a
reconciliation nobody disturbed has read one balance (`HandSound`); there is one
live record to a product, and the product points at it unless a creation is under
way or broke off (`OneLive`, `LiveLinked`). `BooksKept` rests on `BookInv`: an order's
stored subtotal is the sum of its live lines, it is taxed only where it has lines,
its invoice follows its status, and lines and payments belong to orders that
exist and methods that are known. From there each equation between two pages is
one between two sums of the same rows, split by status, day or live line, or
grouped by product, method, category or rate.

**Background_proofs.** `TypeCorrect` types the outbox. `EffectsOnce` rests on
`Once`: at most one worker runs a task, it holds the task's consumption row, and
once the work is done the row stays. `NoneForgotten` rests on `Fanned`: a
dispatching worker has seen to every handler it no longer has to do, where a
task that is seen to is queued, being started, consumed or failed, and never
dropped (`HeldStays`). `PeriodsInvoiced` rests on `BillingInv`: who has an invoice
has begun and is in its last period or a later one, an open invoice is the
tenant's last, orders of the gateway lead to different invoices, and a paid
invoice has its order's payment. `OffersKept` rests on `OfferInv`: past the insert
of the user an address is a visitor's own, past that of the tenant the slug; a
visitor nobody excused would be shown the same price again; and who is about to
use the coupon has counted its uses as they are. It is proved from any first
state of `Workspaces`, not only from those `BackgroundInit` picks for the run.

Only model-checked: the liveness properties `EveryRequestAnswered`, `HandledWhereFair`, `UnpaidIsCutOff` and
`CachesCatchUp` (the prover has no reasoning about fairness or ENABLED); and the
counterexamples of section 4, which are TLC's to find. No module with a theorem
reaches a RECURSIVE operator; there is none in the project.


## 6. What is not modelled, and why

  - **Offline sync.** The server creates orders with a column the model does not
    have: every item of a batch is answered with an error and nothing is stored,
    while the client marks all of them synced (`static/js/offline/sync.js:183`).
    There is no behaviour to check until that works.
  - **Sign-in**, lockout, password reset and sessions: they belong to a separate
    review.
  - **Board updates, search, audit, storage, maintenance jobs, monitoring**: they
    send, read or write once and nothing depends on the order.
  - **Distributed lock, rate limiter**: no service takes the lock.
  - **A category's place in the tree**: moving a category under its own
    descendant makes `ancestors()` loop; a sequential fault, which no
    interleaving is needed for.
  - **Prices and taxes to the paisa**, complimentary orders, per-line discounts,
    upgrade surcharges, proration, entitlements, payout amounts, table, staff and
    stock analytics, valuation: pure arithmetic on rows, best tested directly.
  - **The web checkout's guard** against a second checkout within 60 seconds,
    which depends on clock and cache alone.
  - **Services without a caller**: `change_plan`, `activate_trial`,
    `check_transaction_access`, `create_restaurant` and others. Those that would
    write what is modelled (`cancel` of a subscription, a customer's store credit
    and coupon redemption) are modelled nevertheless.
  - **External**: the print service, the payment gateway, Celery, the broker,
    Redis and the browser appear as what the code in `src` expects of them.
  - **Templates, styles, serializers' formatting, admin**: layout.

Every service is one action in `Orders` and `Stock`, so the order in which a
service locks several rows is seen in `RowLocks` only. `PROJECT.json` says for
each component what is missing.

## 7. What is left to do

Abstract specifications worth stating next: an at-most-once effect per key
(implemented by the outbox, by customer ledgers and by keyed payments), and a
lock-ordered allocator for `RowLocks`.
