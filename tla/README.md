# A formal model of the Shopify integration

TLA+ modules, TLC configurations and TLAPS proofs for `shopify_integration`, the
Frappe/ERPNext app under `src/`. Every definition is translated from the Python; `PROJECT.json`
maps each to its lines. Paths below are relative to `src/shopify_integration/` unless they say
otherwise.

| Question | Module | Run(s) | Answer |
|---|---|---|---|
| Does the outbound queue forget a change, or push an old one over a new one? | `SyncQueue` | `queue` | No; proved for all parameters |
| Does every change reach the shop, or a person? | `SyncQueue`, `Outbox` | `queue_promise` | Yes, once outages end; the safety half is proved |
| Does a retired retry keep its batch? | `SyncQueue` | `queue_retiring` | No: the drain dies of a `KeyError` |
| Does a save ever wait on the network? | `SyncQueue` | `queue_save_path` | Yes, behind an uncommitted requeue |
| Is an answered webhook logged, a logged success real, a broken event given up? | `EventLog` | `event_log`, `event_log_settles` | Yes; the safety half is proved |
| Is a dropped job only a delay? | `EventLog` | `event_log_dropped_job` | No: its event stays `Queued` for ever |
| Do an order's books follow Shopify through retries, refunds and cancellation? | `OrderLifecycle` | `order_books` | Yes, one handler at a time; money is safe even when they overlap; both proved |
| Does a cancellation that comes first hold? | `OrderLifecycle` | `order_cancelled_first` | No: the order is booked afterwards |
| One note per fulfilment? | `OrderLifecycle` | `order_two_notes` | Not when two handlers overlap |
| Does an Item get one listing, and does its opening stock follow, whichever of drain and echo writes first? | `Listing` | `integration` | Yes, unless a publish is cut short or its reply is lost |
| Does an Item that the app publishes keep its own name and text? | `Listing` | `integration` | As long as it is ticked or its link is the app's; proved |
| Is an Item without a price kept off sale? | `Listing` | `listing_free_on_sale` | No: its own follow-up row activates it |
| Does Shopify end up with ERPNext's stock figure? | `Stock` | `integration` | Yes, once what is queued, told or sold has been dealt with; not for an Item linked while ERPNext held none, nor after a row that Failed |
| Does a bulk import skip or double a product when a run dies? | `BulkImport` | `integration` | No |
| Does the throttle leak points? | `Throttle` | `integration` | No; it may count too few |
| Do lost replies and moved sites leave doubled or stray webhooks? | `Registration` | `integration` | The next registration that runs heals them |
| Is a photograph uploaded twice, or one of the app's left for ever? | `Media` | `integration` | Not unless an upload is torn from its record, or a failed one's deletion is refused |
| Is a note fulfilled once, with its tracking? | `Fulfilment` | `integration` | Unless a reply is lost or a worker dies before the commit |
| Does the shop charge ERPNext's price and tax? | `Pricing` | `integration` | Once pushed, where the variants agree on the tax; a few changes queue nothing |
| Is a Shopify account on one customer? | `Customers` | `integration` | Unless two of its own first events overlap |

What `integration` answers is proved too, for every value of the parameters (section 5); only the
liveness properties rest on TLC alone.

## 1. The system

The app keeps an ERPNext site and one or more Shopify shops in step. Web workers answer
webhooks and run saves; background workers (RQ over Redis) run drains and handlers; a scheduler
starts periodic jobs. Everybody shares one MariaDB, at REPEATABLE READ, and each request or job
is one transaction unless it commits on the way.

| Component | State it keeps | Operations | What makes it hard | Correct means | Module |
|---|---|---|---|---|---|
| Outbound queue `sync/engine.py`, `Shopify Sync Queue` | queue rows, the unique `pending_dedupe_key`, a file lock per shop, RQ job ids | enqueue in a save, claim, run handlers by operation, settle, retry with backoff, park, follow-on, janitor, scheduler, operator's requeue | coalescing against a claim, stale snapshots, kills between claim and outcome, partial commits of handlers, lost jobs | no change is forgotten; a key is queued once; the shop never goes back; all converge | `SyncQueue`, `Outbox` |
| Circuit breaker `sync/engine.py` | counters and a flag in Redis | count an enqueue, trip, refuse | increment and expiry are two calls; a refused enqueue is a lost change | trips on loops only | not modelled |
| Webhook intake and event log `inbound/webhook.py`, `Shopify Event Log` | event rows, RQ jobs | receive, deduplicate, log, hand over, run, mark, sweep, Retry | two copies at once, a death between log and job, handlers of one event in parallel | answered means logged; success means booked; bounded attempts | `EventLog` |
| Reconciliation `sync/reconcile.py` | `last_reconciled_on`, replay events | list the window, book what is missing, queue stock corrections, check tax collections | a pass that breaks off half way; snapshots that are old when they are written | no order slips past the window | `EventLog` (orders), `Stock`, `Pricing` |
| Order documents `inbound/order.py` | Sales Order, Sales Invoice, Payment Entry, Delivery Notes | create, paid, fulfilled, cancelled | events in any order, repeated, overlapping; commits on the way | the books follow Shopify; received money stays recorded | `OrderLifecycle` |
| Refunds `inbound/refund.py` | credit notes, return notes, reversing payments | book once, settle the order | against cancellation and shipment in any order | booked once; what is not owed is not reserved | `OrderLifecycle` |
| Customers `inbound/customer.py` | Customer, Contact, `shopify_customer_gid` | match by account, mobile, email; make; enrich; claim | two first orders of one customer; claims beside bookings | one customer per account; what is given up is empty | `Customers` |
| Products, mapping, echo guard `outbound/product.py`, `inbound/product.py`, `catalogue/` | `Shopify Item Link`, marks on documents | create, update, attach a variant, link; import, map, unlink, recognise own echoes | the webhook of our own push is handled beside the push | one listing per Item; no twins; nothing taken over | `Listing` |
| Stock `outbound/inventory.py`, `inbound/inventory.py` | nothing of its own | push absolute quantities, compare, hold on drift | reads, compares and writes another system's number | converges on ERPNext's figure | `Stock` |
| Media `outbound/media.py` | `app_media` of the link | delete, upload, record, order | Shopify lists uploads late; replies are lost | one copy of each file; the merchant's own are left alone | `Media` |
| Prices, collections `outbound/price.py`, `outbound/collections.py` | nothing of their own | push a price, keep the tax collection, recheck a group | what decides a price or a band changes while it is pushed | the shop charges what the books do | `Pricing` |
| Fulfilment `outbound/fulfillment.py` | `shopify_fulfillment_gid` of a note | fulfil a note, send tracking | a group in one transaction; note and shipment share a key | one fulfilment per note | `Fulfilment` |
| Content `outbound/content.py` | ids written back | metafields, SEO, description | an ordinary push of the state read | what the queue assumes of a handler | as `Push` of `SyncQueue` |
| Bulk import `api/bulk.py` | `Shopify Bulk Operation` | start, poll, import, cancel | two pollers, a run that dies between checkpoints | every product, once | `BulkImport` |
| Client and throttle `api/client.py`, `api/throttle.py` | a snapshot of the bucket and a counter in Redis | reserve, send, retry, release, correct from the answer | concurrent reservations, expiring keys, deaths | never stops a store for points nobody holds | `Throttle` |
| Registration `api/webhooks.py`, store | subscriptions at Shopify | register, unregister | calls repeated without an idempotency key, one job id for both | one subscription per topic, here | `Registration` |
| OAuth `api/oauth.py` | state tokens, tokens | begin, callback | none but the handshake | a token for the right store | not modelled |
| Money, taxes, timestamps `utils/` | none | read Shopify's figures, build tax rows, round, convert | sums that must come out exactly | the document's total is the order's | not modelled |
| Installation, patches, commands | schema | create fields and indexes | none at run time | its unique indexes are premises here | not modelled |

How they interact: a save enqueues through the queue (the same transaction); the queue's drain
calls the `outbound/` handlers, which read ERPNext through the drain's snapshot and call the
client. A webhook is logged by the intake and handled by `inbound/` in a job; reconciliation
writes replay events to the same log. Inbound handlers save documents, which may enqueue again
(the echo guard's business).

`PROJECT.json` lists under `hazards` what is hard to test, each at its line, with the properties
that would catch it.

## 2. The plan

Done, in this order: `Outbox` → `SyncQueue` → `SyncQueueInv` → `SyncQueueProofs`;
`EventLog` → `EventLogInv` → `EventLogProofs`; `OrderLifecycle` → `OrderLifecycleInv` →
`OrderLifecycleProofs`; then the parts around them, one module each: `Listing`, `Stock`,
`BulkImport`, `Throttle`, `Registration`, `Media`, `Fulfilment`, `Pricing`, `Customers`. They share
no state, so `MCIntegration` explores them side by side in one run. Their proofs are in
`OutboundProofs`, `InboundProofs` and `ListingProofs`, put together in `IntegrationProofs`; what all
of them need of sets and sums is in `SetFacts`.

Left, most important first:

1. More of `Outbox` for the other parts: `Stock` promises what `Outbox` does (a level is taken to a
   figure that moves), with a notice or a check in place of a parked row, and could implement it.
2. Algorithms over bounded inputs against a reference: tax rows of an order (`utils/taxes.py`), the
   split of refunded taxes (`refund.py`).
3. The circuit breaker, in `SyncQueue`'s enqueue.

`OrderLifecycle` is to get an abstract specification (books as a function of the shop's order) if
the overlaps recorded in section 6 turn out to be closable; as the code stands it refines one only
for handlers that run one at a time, which `BooksFollowShopify` and its neighbours state directly.

## 3. The modules

### `SyncQueue`: `sync/engine.py` and `Shopify Sync Queue`

| State | In the code |
|---|---|
| `src[k]`, `shop[k]` | version of a key's ERPNext data, and the version the shop shows. A key is one dedupe key: store, operation, entity |
| `row` | the committed queue table; `slot` is `pending_dedupe_key`, `due` is `next_attempt_at` in the past, `age` is `modified` in ticks. `asked` is not in the code: the version committed when the row was claimed |
| `tx` | the open transaction of a save: which key it enqueued, whether it inserted or coalesced, whether it will queue a drain job |
| `pc, serves, batch, left, op, snap, held, out` | a worker's drain: its place, store, claimed rows, operations still to run, the current one, the snapshot of the data and of the slots, and what became of each row in this transaction |
| `lock`, `plain`, `follow` | the file lock, the deduplicated job, the undeduplicated follow-on jobs of a store |
| `jan` | the janitor's pass: the orphans it listed and the slots its snapshot shows |

Each function of the engine is the action of its name (`enqueue_sync`, `drain_store`,
`claim_rows`, `recover_stale_running`, `drain_all_stores`, `requeue`). `_drain_locked` is
`OpenSnapshot`, `Push`, `Settle` per operation and then `Commit`; `quiet_filelock`'s exit is
`Release`, the request for the next drain `FollowOn`. `HandlerCommit` is a handler that commits on
the way (`outbound/product.py` does): what had been settled before is committed with it.
`SettleKeyError` and `SettleCollides` are the two ways a drain dies in its own error handling.

The database is modelled as the code relies on it. Reads come from the snapshot opened by the
transaction's first read. A write sees committed rows and waits for uncommitted ones: `Locked(k)`.
A save that coalesced holds a lock on the index entry it collided with, so the claim that would
clear that entry waits for the save to end. This wait is what makes coalescing safe, and is why
`claim_rows` has a guard about `tx`. A follow-on enqueue made inside a handler is treated as a
save without a change (`CommitInsert` with `changes = FALSE`).

A handler is anything that pushes the state it read, all rows of an operation at once or row by
row, and reports ok, a retryable or a permanent error. An error may be reported although the shop
took the change; ok is never reported when it did not.

### `Outbox`: what the queue promises

Three variables, no queue: a key changes, the shop takes a version no older than the one it has,
keys are given up on and come back. `Convergence` says each version reaches the shop or its key is
parked. `SyncQueue` implements it with `src <- src`, `shop <- shop` and `parked` computed from the
rows: a key is parked while only Failed rows carry its last change.

### `EventLog`: `inbound/webhook.py`, `Shopify Event Log`, `sync/reconcile.py` (orders)

| State | In the code |
|---|---|
| `placed`, `acked` | orders at Shopify; webhooks answered 200, which Shopify stops sending |
| `req` | a request between the exists check, the committed row and the enqueued job |
| `log` | committed rows: `status`, `attempts`, and `next_retry_at` as none, waiting or due |
| `job` | per event and per kind of job id (webhook, retry, replay): none, queued, started. The kinds deduplicate separately, so two handlers of one event can run at once |
| `run` | a worker's handler with the `attempts` it read when it began |
| `sweep` | events the retry sweep has listed and not yet written |
| `recon`, `fresh` | the pass: window, orders still to look at, the replay whose job goes out with the next commit; orders placed since `last_reconciled_on` |
| `booked` | orders with documents (how they are made is `OrderLifecycle`) |

`webhook`, `log_event` and `respond` are three steps of the one function. `HandlerCommits` and
`mark_success` are apart because the documents are committed first. `mark_error` counts from
`run.attempts`, not from the row. `attempts` can pass `MAX_ATTEMPTS`: the sweep can queue an event
it listed before an operator's retry of it was given up, hence the `>=` in `ErrorIsScheduled`.

### `OrderLifecycle`: `inbound/order.py`, `inbound/refund.py`

| State | In the code |
|---|---|
| `store` | `cancel_invoiced_orders` of the Shopify Store |
| `shop` | the order at Shopify: paid, cancelled, fulfilments, refunds |
| `due` | events raised and not yet handled with success |
| `books` | committed documents: status of the Sales Order, invoice and payment, submitted notes per fulfilment, units on return notes, credit notes and reversing payments per refund; `torn`: refunds whose credit note was cancelled, whose unique key stays taken |
| `h` | a handler: its event, its snapshot of `books`, the order it fetched |
| `overlapped` | not in the code: whether two handlers of this order ever ran at once |
| `unsettled` | not in the code: ERPNext refused to close the order after a refund (the warning of `_settle_safely`), and no later settlement made up for it |

A handler is `Begin` (the event's row is its first read, which fixes the snapshot), `fetch_order`,
then the step named after it, which decides from the snapshot `b` and the fetched order and commits
on top of `books`. `HandlerFails` can come at any point and puts the event back. `Reopens` is the
one commit on the way (`order.py:171`). What ERPNext refuses is a guard: a second Sales Order or
credit note (the unique indexes), delivering, billing or returning more than there is, and
cancelling a document changed since the snapshot. Status writes are blind. Settling a refunded order
is the exception: `_settle_safely` (`refund.py:188-216`) swallows what ERPNext says, so
`create_credit_note` commits the note either with the order closed or, `unsettled`, with it open.
Those rules are ERPNext's; they are modelled from how the code relies on them, and marked external
in the map.

### `Listing`: `outbound/product.py`, `catalogue/mapping.py`, `inbound/product.py`, `Shopify Item Link`

One Item, plain or a template with sizes. `items`, `disabled`, `links` and `rows` (Pending product
rows) are ERPNext's; `shop` Shopify's products; `mail` the webhooks on their way. `drain` is the
push of one row with the snapshot it links through, `handler` a product webhook with its own.
`ticked` is `publish_to_shopify`; a user may take it off and put it on again. Creating is a step per
call, as in the code: `CreateProduct`, `link_template` (which commits), `create_variants` or
`fill_variant`, `LinkProduct`; another row is `PushUpdate`, `AttachVariant` or `PushNothing`. A
webhook is `HookFetch` and `HookMaps`. `upsert_link` is shared by both: it finds a row through the
writer's snapshot and, where the unique index shows that somebody was faster, settles on the
committed row. A variant is named by its SKU, so that `Ghost`, the placeholder that `productCreate`
leaves, and an Item an import invents for it (`Handle`) are the only other codes. `CreateProduct` is
one call of the client, which sends `productCreate` again when a reply is lost
(`api/client.py:152-160`), up to `MaxSends` times: Shopify makes a product each time (`NextIds`),
and the app learns of the last. Three variables are not in the code. `cut`: a publish left a product
without a link, because it stopped after `productCreate`, because the product was deleted under it,
or because it was sent again. The code says it accepts the first. `marked` and `released` are what
`ContentIsOurs` is about: the Items whose link was made out as the app's own at some moment since
there is one, and those that at some moment were neither ticked nor so linked (`Remember` keeps
both), whose content a webhook may take over (`erpnext_owns_content`).

### `Stock`: `outbound/inventory.py`, `inbound/inventory.py`, `sync/reconcile.py` (inventory)

`actual` and `reserved` per leaf warehouse, counted in parts of a unit; `level` is what Shopify has.
`pending` says of a key whether a row is queued, and due or held; `push` is the drain's batch, with
quantities read after the claim, sent blindly or compared (`verify`), and sent again when a reply is
lost (`Replied`); `told` are `inventory_levels/update` webhooks, `look` the drift check of one,
`audit` the nightly run's snapshot. A sale on Shopify (`Checkout`) lowers the level and is reserved
when its order is imported (`Import`). `Before` is what Shopify may have of an Item before it is
linked. `Open` links it, and queues a push if ERPNext holds any (`_erpnext_holds_stock`).
`RowsReturn` is what becomes of the rows of a push that fails: some are Failed for good, the others
come back. `unsaid` is not in the code: the keys that were linked without a push, or whose last row
Failed, and that nothing has queued since. What the engine does with rows in general is
`SyncQueue`'s.

### `BulkImport`: `api/bulk.py`

`exports`, `latest` and `cut_at` are Shopify's: one export at a time, questions answered about the
latest, a failed one with part of its lines. `op` is the Shopify Bulk Operation; `polls` and `answer`
are the polling jobs, `jobs` and `worker` the import with its uncommitted part since the last
checkpoint. `lines_done` is `iter_product_groups`: which line a product ends at, unreadable lines
included.

### `Throttle`: `api/client.py`, `api/throttle.py`

`snapshot` and `in_flight` are the two Redis keys, `expires` the time to live of the second, `bucket`
Shopify's own count. `call` is what a worker does, one step per Redis command: look, nap, reserve,
set the expiry, post, back off, release, clamp, interpret.

### `Registration`: `api/webhooks.py`, `Shopify Store.on_update`

`subs` are Shopify's; `registration` is the one job id that register and unregister share; `runner`
the job with the subscriptions it listed when it began. A create may be carried out twice, a delete
be answered as unknown (`delete_unheard`), and the job die anywhere (`job_dies`).

### `Media`: `outbound/media.py`

`files` is what ERPNext holds, `gallery` what Shopify does, `owned` is `app_media`. A pass is
`start_sync` (plan, listing and record), `delete_media`, `create_media`, `record_owned`. `young` are
uploads within `MEDIA_SETTLE_SECONDS`, `held` a copy of the link that a webhook handler has loaded and
will save. Two variables are not in the code. `torn`: an upload happened and its record was lost, by a
lost reply, by a death before the commit or by such a save. `stranded`: media that Shopify could not
process, which `start_sync` takes off the record before it asks for their deletion
(`media.py:391-396`), and which Shopify then did not delete.

### `Fulfilment`: `outbound/fulfillment.py`

Notes with their units, the stamp of each, `owed` per fulfilment order. `parcel` is
`push_fulfillments` with one claimed group, one snapshot and one transaction: it takes the notes one
after the other, and their stamps are committed with the group. A lost reply (`reply_lost`) leaves what
Shopify made and has the client send the call again. A call that fails (`push_fails`) ends the group
with the stamps made so far; a refusal makes every row of it Failed, another error those that are out
of attempts (`given_up`). Only a death (`push_dies`) rolls the stamps back. `unstamped` is not in the
code: the notes with a fulfilment whose id was lost, in either way.

### `Pricing`: `outbound/price.py`, `outbound/collections.py`, `sync/reconcile.py` (collections)

`listed`, `standard` and `rules` decide price and tax band; `selling` and `member` are Shopify's.
`pricePush`, `taxPush` and `nightly` are decisions taken and not yet written. A user's save of an
Item queues (`price_on_item_change`), a webhook's does not (`disabled_by_webhook`): it is an echo.
`silent` and `overtaken` are not in the code: a change that queued nothing and may have called for a
row (a price that lapses, a product brought back by webhook after all its Items were disabled), and
a nightly run that wrote what was no longer so.

### `Customers`: `inbound/customer.py`

`customers` are ERPNext's with the account each carries, the details its contacts hold and whether
anything is booked; `profile` is the shopper's at Shopify. A handler takes its snapshot in
`begin_handler` and commits in `book_order`, `create_customer` or `update_customer`; stamping an
account is a blind write that leaves `modified` alone, saving a document is not, and fails if someone
saved it since (`handler_fails`). `met` is not in the code: which accounts' handlers ran at once.

## 4. The runs

| Run | Configuration | Shows | Bounds, and why they are enough |
|---|---|---|---|
| `queue` | `MCSyncQueue.cfg` | `TypeOK`, `SlotIffPending`, `NoLostChange`, `IInv`, `ShopNeverGoesBack` | two keys of two operations on one shop (one pushed in bulk, one row by row with commits), three rows, two savers, two workers, a batch of 2, two attempts, one upset. A key and a newer row of it, a second operation in the batch, and a competing worker are all there; stores share nothing but workers |
| `queue_promise` | `MCSyncQueuePromise.cfg` | `PromiseSafety`, `PromiseConvergence` | one key, two rows, two versions, two workers, two upsets: no symmetry, since it is a liveness check |
| `queue_retiring`, `queue_save_path` | `MCSyncQueueRetiring.cfg`, `MCSyncQueueSavePath.cfg` | the two divergences of section 6 | the instance of `queue` without upsets |
| `event_log` | `MCEventLog.cfg` | the six safety invariants of `EventLog`, and `EInv` | one order, a webhook with and one without a handler, its replay, two requests (two copies), two workers, two attempts, two upsets, one press of Retry |
| `event_log_settles` | `MCEventLogLive.cfg` | `FailuresComeRound`, `EventsSettle` | two orders, one of them gone from Shopify, one worker, one kill |
| `event_log_dropped_job` | `MCEventLogDropped.cfg` | a divergence | one order, one kill |
| `order_books` | `MCOrderLifecycle.cfg` | the seven properties of `OrderLifecycle`, and `OrderInd` | two units, two fulfilments, two refunds of four kinds, two handlers, four things happening at Shopify beside the order's creation, one repeated handler; both settings of the store |
| `order_cancelled_first`, `order_two_notes` | the same with one property | two divergences | as `order_books` |
| `integration` | `MCIntegration.cfg` | the types and properties of the nine modules above | below |
| `listing_free_on_sale` | `MCListingFree.cfg` | a divergence | `Listing` as in `integration` |

`integration` picks one of the nine in its initial state (`part`), and only that one moves; the
others stay at one of their initial states. So it is nine exhaustive checks, and each property is
checked where its module moves. The instances:

- `Listing`: a template with two sizes (one there from the start) or a plain Item, priced or not, one
  drain, one webhook handler, two products, two events (saves, ticks taken off, edits, drains that stop,
  calls sent again): a publish, its echo anywhere in it, and a save or a retry on top; a second listing
  needs no more.
- `Stock`: two keys with a shelf each, one of them perhaps stocked on Shopify before it is linked,
  halves of units, two events (moves, sales, calls that fail or whose reply is lost), compared or
  not: a batch where one key is compared and one is not, a move on either side of every read and
  write, and the webhook and nightly checks between them.
- `BulkImport`: two exports, three products in ten lines with both kinds of bad line, a checkpoint
  every second product, two deaths: a death before and after a checkpoint, and in the resumed run.
- `Throttle`: two workers, two attempts, a bucket that one call nearly empties, keys that expire after
  a second: every order of two calls' Redis commands, with an expiry and a clamp in between.
- `Registration`: three topics, one of which Shopify refuses, two addresses, four flips or moves, two
  lost replies or deaths: what two bad runs leave, healed by a third.
- `Media`: two files, three media, a ceiling of two, two changes and one fault: an upload, a reason to
  replace it, and one fault between them.
- `Fulfilment`: notes of one and two units, fulfilment orders owing one and two, two edits, two lost
  replies, failures or deaths: a note split over both, a merchant's tick in between, and a group that
  goes wrong twice.
- `Pricing`: two variants, two prices, two sets of rules, two mapped bands, two saves.
- `Customers`: two accounts, one customer of the counter, one mobile and one email, two handlers,
  three deeds: sign up, add a detail and order, or the same across accounts.

`MaxUpsets` counts kills, lost jobs, enqueues without a change and an operator's requeues together.
`MaxSales = 4` fits the longest stories that matter: pay, ship, cancel the fulfilment and cancel;
pay, refund, refund and cancel; pay, ship, ship and refund. `MaxFollow` bounds follow-on jobs, which
are interchangeable. Time is counted in ticks: `JobAge < StaleAge` says that RQ ends a job
(300 seconds, with a minute's grace) before the janitor calls its rows stale (15 minutes).
Deadlock is not checked: every module's system stops when its bounded work is done.

Every property has a mutant: a definition changed as a plausible bug would change it, in the
module above its original and marked `Variant`. TLC finds the property violated with it.

### Fairness

`SyncQueue`: a started drain, a request with an open transaction and the janitor's pass go on (they
run in live processes; a kill is `Crash`); workers take jobs; the scheduler runs (`hooks.py`); time
passes. Drains and the janitor get strong fairness because what they wait for is a row lock, which
InnoDB grants in order of request. A save has none: nobody need ever save again.
`OutagesEnd` says retryable errors cease at some point. It is needed. Without it there is a
livelock which TLC finds: two orphans of one key, each revived by the janitor and abandoned again
by a drain that dies as in `queue_retiring`, never count an attempt, so nothing parks the key
while the shop keeps failing. With it no attempt is assumed to succeed: permanent errors are
always possible, and park the key.

`EventLog`: requests, workers, the sweep and the reconciliation run; time passes. Nothing is
assumed of a handler but that it ends, in either way. `OrderLifecycle` and the nine modules of
`integration` state no liveness: what must come round in them is said of the states in which nothing
is left to do (`SettledIsEqual`, `RegistrationHeals`, `ShopChargesAsBooked`), and that rows and jobs do
come round is `SyncQueue`'s and `EventLog`'s.

## 5. The proofs

`SyncQueueProofs` proves, for every set of stores, keys, operations, rows, workers and savers and
every value of the bounds that satisfies the `ASSUME`s of `SyncQueue`:

| Theorem | States |
|---|---|
| `InductiveInvariant` | `Spec => []IInv` |
| `TypeCorrect` | `Spec => []TypeOK` |
| `OneQueuedRowPerKey` | `Spec => []SlotIffPending` |
| `NothingLost` | `Spec => []NoLostChange` |
| `NeverGoesBack` | `Spec => ShopNeverGoesBack` |
| `ImplementsOutbox` | `Spec => PromiseSafety` |

`NoLostChange` alone is not inductive. That a push leaves the shop at least as new as its rows
asked for needs the snapshot to be newer than the claim (`SnapInv`), and that no other drain of the
store is pushing an older one (`LockInv`). That the janitor's retiring loses nothing needs its list
to hold only orphans, which no drain still owns (`BatchInv` with the ages, so `AgeAssumption`), and
that whatever its old snapshot saw on the key has since been pushed or is still carried by a row
that asks for no less (`JanInv`). That a write of the slot keeps the index unique needs every open
write of it to be the only one (`SlotInv`). `IInv` is the conjunction; TLC checks it in `queue`.

The proof has a lemma per action (`...Step`), under it a step per conjunct that the action
disturbs, and `NextIInv` puts them together. `DrainsApart` is the fact that two drains never share a
row; `Flush` is what a commit of settled rows preserves, shared by `HandlerCommit` and `Commit`.
For the refinement, `ChangeAfterInsert`, `ChangeAfterCoalescing` and `PushDelivers` map the steps
that change `src` or `shop`; every other step is `Turn` or a stutter.

`EventLogProofs` proves, for every set of orders, events, requests and workers and every value of
the bounds that satisfies the `ASSUME`s of `EventLog`:

| Theorem | States |
|---|---|
| `LogInvariant` | `Spec => []EInv` |
| `AnsweredIsLogged` | `Spec => []AckedIsLogged` |
| `SuccessIsTrue` | `Spec => []SuccessMeansBooked` |
| `FailureIsScheduled` | `Spec => []ErrorIsScheduled` |
| `GivesUpInTime` | `Spec => []TriesBounded` |
| `WindowMissesNothing` | `Spec => []NothingSlipsTheWindow` |

The hard one is `TriesBounded`: a handler counts its failure from the `attempts` it read when it
began, so two handlers of one event could count one attempt between them. `OneChance` says why
they do not meet before a person presses Retry: what can still start a handler of an event (a
request that is about to enqueue, a replay not yet sent, a queued job, a running handler, an Error
row that is to be retried) is one thing at most, and whenever it is not a running handler, every
earlier try is in `attempts`. The sweep's list is no further chance since its row is the Error row.
`SuccessMeansBooked` needs `RunInv`: a handler that has committed has its order booked or found
gone. `NothingSlipsTheWindow` needs `PassInv`: whatever the pass has looked at is booked or logged.

`LogIsTyped` (`Spec => []TypeOK`) is proved beside it.

`OrderLifecycleProofs` proves, for every quantity, every finite set of fulfilments and of refunds, and
any set of handlers:

| Theorem | States | Handlers |
|---|---|---|
| `OrderInvariant` | `Spec => []OrderInd` | any |
| `BooksInvariant` | `Spec => []OInv`, its first part on its own | overlap as they like |
| `OrderIsTyped` | `Spec => []TypeOK` | overlap |
| `CreditedOnce` | `Spec => []RefundBookedOnce` | overlap |
| `MoneyKept` | `Spec => MoneyReceivedIsKept` | overlap |
| `RefundReleases` | `Spec => RefundReleasesStock` | decides from what is still so |
| `BooksStayTrue` | `Spec => []BooksFollowShopify` | one at a time |
| `RefundsStay` | `Spec => []RefundsAreNotLost` | one at a time |
| `EvenInTheEnd` | `Spec => []CancelledAndRefundedIsEven` | one at a time |

`OInv`. A refund is paid back once because the payment comes with its credit note and the index
refuses a second note; `CreditInv` adds that a torn-down note keeps its key, else a retry would pay
again. That money is kept although the handler of a cancellation decides from its snapshot rests on
`PaymentInv`: an invoice that a handler has seen is still there (`SeesInvoice`), a payment has its
invoice, and tearing down goes ahead only if nothing has changed since the snapshot. So where
invoices are kept, documents are torn down only when none was invoiced, and then no other handler
has seen an invoice either. An order closed by a refund has one, hence is never reopened there.

`TypeInv`. That the counts stay natural numbers needs `Adds`: no more is taken back than was
delivered, in the books and in each snapshot, since a return is booked against what has been
delivered and notes are cancelled only together with it.

`ShopInv`. What Shopify lets happen: no more is shipped than ordered, a refund that takes back
shipped units takes no more than were shipped (`Counts`), and what a handler fetched has not been
undone (`SeesOrder`).

`AloneInv`, for an order whose handlers have run one at a time. `Follows` says, before anything is
cancelled or refunded, that what is booked happened, and what happened is booked or still due. Its
hard step is a note: ERPNext refuses one for more than is undelivered, and that a fulfilment always
finds a unit left follows by counting, since each note belongs to a shipped fulfilment and Shopify
ships at most `Qty`. `RefundsFollow` says that a refund which is done is credited or came to a
cancelled order, and that a cancelled order stays one. `Released` carries `EvenInTheEnd`: once all is
refunded, there is a refund still to be credited whose handler will see all of it, or nothing is
reserved unless the cancellation is still to come or in the middle of tearing down, or the order is
`unsettled`: the code tells a person that ERPNext refused to close it, and does not try again. It is not
enough that the refunds add up: the handler of an earlier refund, having fetched the order before the
last one was raised, rightly leaves the order open, and only the one raised last has to close it.

The parts that `integration` runs have a module of proofs for each direction. Each part has an
inductive invariant (`...Ind`), a lemma that the initial states satisfy it (`...Starts`), one that
every step keeps it (`...Step`), with a step per action, and one that says what follows (`...Is`,
`...Are`).

| Theorem | States | What the invariant adds |
|---|---|---|
| `OutboundProofs` | | |
| `NotesShipOnce`, `TrackingReaches` | `[]ANoteShipsOnce`, `[]TrackingArrives` | `StampInv`: what was made for a note is in its stamp, that of the group at work if there is one, or its id was lost; `TrackInv`: tracking that has not arrived has a row, or its last row Failed, or its note is in the group, whose snapshot shows the Shipment |
| `OneCopyOfEach`, `OursStayRecorded` | `[]OneCopyEach`, `[]OursAreRecorded` | `CoverInv`: no file has media of the app but the one in the record, which is the link's until a pass uploads and the pass's own from then to its commit; what a pass took off the record is still to be deleted, or stranded |
| `SettledStaysEqual`, `OffersAreBacked` | `[]SettledIsEqual`, `[]NeverOversells` | `LevelInv`: a level that differs was noticed, is queued, in the push's hands, has an order to come or is `unsaid`; `QuantityInv`: a figure in hand is that of now, or its key has been queued since it was read |
| `ChargesAsBooked` | `[]ShopChargesAsBooked` | `PriceInv`, `TaxInv`: without a row, the decision in hand is the one to write, or it has been written |
| `PointsCounted` | `[]NeverOvercounted` | `CallInv`: a killed worker, and no live one, is counted by the step it died in |
| `InboundProofs` | | |
| `AccountsStayWhole` | `[]AccountsMoveWhole` | `AccountInv`: whoever has the account now had it in the handler's snapshot, which handlers of other accounts cannot change |
| `ImportStaysExact` | `[]ImportIsExact` | `RunInv`: every root line between the checkpoint and the run's place was written or failed; `CountInv`: what is counted is what is there |
| `JobHeals` | `[]RegistrationHeals` | `RunnerInv`: topics still to do are what the job listed, less what it deleted; topics it is through with are cured |
| `ListingProofs` | | |
| `ListedOnce`, `StockFollowsLink` | `[]OneListing`, `[]OpeningPushQueued` | `LedgerInv`, `OneInv`, below |
| `ContentStaysOurs` | `[]ContentIsOurs` | `ContentInd`, below |
| `TwinsComeEarly` | `NoTwinWithSkus` | `SeenInv`: a product that a webhook fetched was sound then, and has only gained SKUs since |
| `ListingIsTyped` | `[]ListingTypeOK` | |
| `IntegrationProofs` | | |
| `TypesStay` | `MCSpec => []TypesOK` | all the invariants side by side |
| `PromisesKept` | `MCSpec => []Promises` | `Promises` is the conjunction of the invariants above |

`Listing` is the one where writers act on what they read earlier: `upsert_link` finds a link through
the writer's snapshot and writes the committed one. So its invariant does not speak of the links
alone. `Filed` says of a set of links what is true of them at any time, and `LedgerInv` that it
holds of the committed links and of every reading of them that somebody may still write through;
`Filed` survives everything that may happen between, since Items and stock requests are only added
to and a product keeps the SKUs it has. `OneInv` follows the one product from its creation, when
only the drain knows of it, to the link.

`ContentInd` is why a webhook takes over no content but a released Item's. A handler decides from
the link its snapshot shows, so what that says must still be true when it saves. `ReadInv`: a
reading of an Item's link says that it is the app's exactly if the committed one does, or the link
has been written since and the save of that link fails (`handler[h].stale`). `MarkedInv`: a link
that was once made out as the app's own says so for as long as there is one. `FreeInv` and `SawInv`:
an Item that is neither ticked nor marked has been released, also if it only was so in the snapshot
of a handler at work. It takes the losing side of the race for a link (`upsert_link` with an older
snapshot) to see that this is not automatic; section 6 says what that side leaves out.

`IntegrationProofs` shows what `MCIntegration` relies on: a step of one part is a step of that
part's own specification and leaves the others' variables alone, so their invariants hold together.
Its theorems are therefore about the module that is run.

Inductions. The library's induction theorems take an operator, which the installed provers cannot
instantiate. What was needed by induction (the sum over a finite set: that it exists and is unique,
that taking one element out takes its value off, that it is monotone, that it splits) is proved in
`SetFacts` by a least counterexample: the set of subsets for which the claim fails is a set, and
inclusion is well-founded on it. Sums of `OrderLifecycle`, `Stock` and `Fulfilment` are
written so that these facts apply.

The constants are assumed to be what the `ASSUME`s of the modules say, all of which TLC evaluates in
the runs. They ask for finite sets, for null values that are no values, and for bounds that are
numbers, with these beside them: `FileAssumption` is the order of the lines of Shopify's export (each
product has one root line, its variants follow it before the next: `api/bulk.py`, "Children always
follow their parent"); the topics of `Registration` are distinct, as those of
`REQUIRED_TOPICS` are; `AgeAssumption` is RQ's time limit against the janitor's.

Only model-checked: `PromiseConvergence` (every change reaches the shop or is parked),
`FailuresComeRound` and `EventsSettle`. They are liveness properties under fairness, whose proofs
need `ENABLED`, which is outside the prover.

## 6. Where the repository says otherwise

| Run | The code | What it says of itself |
|---|---|---|
| `queue_retiring` | `_handle_error` can answer `superseded`, which the counts of `_drain_locked` do not have: `KeyError`, the batch rolls back and stays Running | the comment at `sync/engine.py:546-553` says retiring the row is there to prevent exactly this |
| `queue_save_path` | a requeued row's key is written before, and committed after, the other operations' network calls; a save of that key waits | `README.md:190-191` of the repository |
| `event_log_dropped_job` | the sweep looks for Error; an event whose job or worker died is Queued | `hooks.py:13-14` |
| `order_cancelled_first` | creation does not ask whether Shopify has cancelled the order | `README.md:55`, `sync/reconcile.py:270` |
| `order_two_notes` | exists, then insert, with no unique index on notes | `README.md:53-54` |
| `listing_free_on_sale` | an Item without a price is created as a draft; the row its creation queues for content and images is an ordinary update, which sends `ACTIVE` and publishes | `docs/prerequisites.md:226-227`: "published as a **draft** rather than active" |

Known from the models and not run: an invoice booked onto an order
that is being cancelled; a reversing payment that outlives the documents a cancellation tears down,
since it has no references to be found by; a unit restocked as never shipped but returned against
the note of one that did; an order that stays open because the last refund's handler fetched what
was owed before the last unit shipped. The properties of `OrderLifecycle` that say `~overlapped` are
stated for handlers that run one at a time because of these.

The models show more that no run is spent on. Each is excluded from a property by a variable or a
condition named in its comment:

- `Fulfilment`: "Idempotent by construction", says `fulfillment.py:104`. It is not over a lost reply:
  the client sends `fulfillmentCreate` again within the same push (`api/client.py:152-160`), without an
  idempotency key, and Shopify makes a second fulfilment if it still owes the units. Nor over a worker's
  death before the commit, which takes the stamps of notes Shopify has fulfilled (`unstamped`). And one
  note that Shopify refuses makes every row of its group Failed, tracking of other notes included
  (`given_up`).
- `OrderLifecycle`: a refund whose settlement ERPNext refuses leaves the order open and reserving.
  The warning of `_settle_safely` says so, and nothing tries again: a redelivery returns at
  "already credited" (`refund.py:116-122`). `RefundReleasesStock` and `CancelledAndRefundedIsEven` hold
  but for that (`unsettled`).
- `Stock`: linking an Item while ERPNext holds none queues nothing, as `push_initial_state` means it to
  be (`outbound/product.py:761-784`). If Shopify already had the Item in stock it goes on offering units
  that are not there until something moves, or the nightly run compares. A level whose last row Failed
  waits for the same (`unsaid`).
- `Pricing`: a variant's own row decides the collection of the whole product by that variant alone;
  a price that lapses queues nothing; a nightly run may write a band that a save has just changed. A
  product that a webhook archives and another brings back queues nothing either, since both saves are
  echoes (`price.py:32-33`, `collections.py:160-161`): if its group's rules changed in between, when
  the recheck skipped its disabled Items (`collections.py:269`), it stays in the wrong collection until
  the nightly run (`silent`).
- `Registration`: a flip of `enabled` while the other job is queued is swallowed by the shared job id.
- `Media`: a webhook handler that loaded the link before an upload was recorded saves the old record
  over it (`_record_owned` leaves `modified` alone); the images then become the merchant's.
  Media that Shopify could not process go off the record before their deletion is asked for
  (`media.py:391-396`), so a refusal makes them the merchant's as well, which the comment at
  `media.py:421-424` says the record is kept to prevent (`stranded`).
- `Listing`: a publish that stops after `productCreate` is retried from the start, and a lost reply
  has the client send `productCreate` again within the push: two live products, one of which nothing
  in ERPNext names (`cut`). Where the echo of a publish wrote the link first and the drain's
  snapshot does not show it, `upsert_link` settles on that link and leaves its origin
  (`mapping.py:1033-1044`), although its comment at 982-987 says that the publish that follows
  corrects it: the Item is the app's only for as long as it is ticked (`released`).
- `BulkImport`: a process job that is lost is not queued again by anything but a person.
- `Customers`: two first events of one account make two customers; a booking beside a claim books on
  the customer that is given up; `resolve_customer` stamps an account on a customer that has another
  one's, which `claim_existing_customer` refuses to do; and claiming does not ask
  `match_existing_customers`, whose description says to turn it off where people share a number.
- `Throttle`: it may count too few points, after a key expired under a call; and it may count too many
  for as long as the store is busy, since each reservation renews the time to live of what a killed
  worker left (`throttle.py:273`), where `throttle.py:22-23` says that a killed worker "cannot strand
  capacity forever". `NeverOvercounted` counts the dead among the holders.
- `SyncQueue` and `EventLog`: the job's time limit is an exception that `except Exception` takes for a
  handler's failure; a row whose push kills the worker comes back with its attempts unchanged; a new
  change of a key whose row waits for its backoff waits with it.

## 7. Not modelled

Beside the components marked so in section 1:

- `SyncQueue`: `prune_finished` (deletes finished rows only), the breaker's refusal of an enqueue,
  how long a backoff is, which of a drain's errors is the job's own time limit.
- `EventLog`: checking the HMAC and the shop (functions of one request), `mark_skipped` and the
  sweep's branch for a topic whose handler was removed, Frappe's own retry of a job on a deadlock.
  The duplicate's decision and answer are one step: an existing row is never deleted.
- `OrderLifecycle`: several items and lines, partial payment, prices, taxes, amounts of shipping
  (postage is paid back or not), sync switches, refunds of nothing (skipped without a write),
  the shortening of lines that are not invoiced, saves of the documents by a person.
- `Listing`: options, prices and texts of a variant beyond whether it has a price; several stores;
  the digest's fields other than status, variants and title; a variant moved between products.
- `Stock`: batches of more than the keys there are, Items linked to several locations at
  once (a key each).
- `BulkImport`: the download and its limits, the URL's age, what one product writes (`Listing`).
- `Throttle`: the length of a backoff, costs that differ from their hint, `Retry-After`.
- `Registration`: how topics and addresses are spelled, the report it returns.
- `Media`: the order and the variants images are attached to, which change nothing about ownership.
- `Fulfilment`: several variants, the carrier's name, the email to the customer.
- `Pricing`: batches, price lists other than the store's, rules about dates other than one lapse.
- `Customers`: addresses, names, groups, and the default customer of a guest checkout.
- Circuit breaker: its guard is one line of an enqueue, and what it refuses is lost whatever the order
  of events, so that a model would show nothing but that. OAuth: a handshake of one person.
  Website content: functions of one Item, but for the collections and metafields it records, which are
  written in the drain's transaction as `SyncQueue` assumes. Money, taxes and
  timestamps: functions of one payload, with decimal arithmetic that TLC does not have.
  Installation, patches and commands: nothing of them runs beside anything.
- What leaves the process: HTTP, formatting of GraphQL, logging, the desk's pages.
