# Verification of the marketplace

TLA+ models of the marketplace back end (a Go module of several services over
PostgreSQL, Redis, Kafka and Elasticsearch), the TLC instances that check them
and TLAPS proofs about them. The models are written from the Go code and the
SQL migrations; `PROJECT.json` maps every definition to the lines it stands for.

- [1. The system](#1-the-system)
- [2. The modules](#2-the-modules)
- [3. What is left out of the models, and why that is sound](#3-what-is-left-out-of-the-models-and-why-that-is-sound)
- [4. The runs](#4-the-runs)
- [5. What the code does differently from what it says](#5-what-the-code-does-differently-from-what-it-says)
- [6. The proofs](#6-the-proofs)
- [7. Not modelled yet, and the plan](#7-not-modelled-yet-and-the-plan)

To check a run: `tlc -config OrdersCheckout.cfg MCOrders`. To check the proofs:
`tlapm OrdersProofs.tla`.

## 1. The system

The API process holds the *order* side: catalog, carts, vouchers, checkout,
payments, fulfilment, delivery. It shares one PostgreSQL database with the
services for identity, sellers, chat, notifications and the assistant, each of
which owns a schema. Whatever one of them wants others to know it writes to
`outbox_events` in the transaction that does it; the *outbox relay* carries the
rows to a Kafka topic, and consumers (notifications, the search indexer, the
recommendation workers) take them from there. Customers are reached by HTTP and
by a WebSocket gateway.

| component | state it keeps | operations that change it | what makes it hard | what makes it correct |
|---|---|---|---|---|
| Checkout, cancellation (`order`) | `orders`, `seller_orders`, `order_items`, the stock and its movements | `checkout`, `Cancel` | customers race for stock and coupons; retried requests; several tables written row by row | no unit sold twice or lost; one order per idempotency key; totals add up; a cancelled order is inert |
| Carts (`cart`) | `cart_items` | `Put`, `Delete` | a cart goes stale as prices, stock and shops change | checkout reads it again under locks |
| Stock (`catalog/inventory.go`) | `product_variants.stock`, `inventory_movements` | `adjustInventory` | competes with checkout and cancellation; int4 column | the stock stays in range and agrees with its movements |
| Vouchers (`voucher`) | `coupons`, `coupon_redemptions` | `Create`, `SetActive`, `Redeem` | last use of a quota; rounding; 64-bit arithmetic | quota, counter and redemptions agree; a discount is split without loss |
| Payments (`payment`) | `payments`, `payment_webhook_receipts` | the bank's webhook | webhooks repeated, late, of wrong amounts, to cancelled orders | exactly one transfer pays an order; no money that came in is forgotten |
| Fulfilment (`order/fulfillment.go`) | `seller_orders.status`, `orders.status`, `shipments` | `Fulfill` | several shops of one order; the parent's status derives from its children | the parent is what its children add up to; nothing is sent before it is paid |
| Platform delivery (`shipping`) | `shipments`, `driver_profiles` | `Apply`, `Approve`, `Create`, `Assign`, `Update`, `Settle` | drivers are suspended, parcels reassigned, cash collected by one person and settled by another | a parcel on the road keeps its driver; cash is recorded exactly when it is all in |
| Outbox and relay (`outbox`, `cmd/outbox-relay`) | `outbox_events` | `Enqueue`, `relayBatch` | several relays, crashes between the write and its record, claims without owner | no event is dropped; every event reaches the topic |
| Notifications (`notification`) | `notifications`, the group's offset, the dead letters | `Run`, `process`, `Handle`, `MarkRead` | messages repeated, crashes between store, push and commit, events it cannot decode | one notification per event, pushed at most once; no message blocks the rest |
| Shop management (`seller`, `grpcseller`) | `sellers`, `seller_members` | applications, decisions, members, profile | roles change while requests that rely on them run, in this service and over gRPC in others | nobody acts without the role that takes; a shop always has its owner |
| Catalog and search (`catalog`, `productsearch`, `searchindexer`, `search-reindex`) | `products`, `product_variants`, an index behind an alias | product management; index updates; rebuild and switch; search | a rebuild runs while products change; events out of order; an index that is behind | the index catches up with the database; both searches give the same pages; nothing is shown that is not listed |
| Identity (`auth`, `user`, `cmd/identity`) | `users`, `user_roles`, addresses; tokens in Redis | register, log in, refresh, log out, change and reset the password | one-time tokens taken before what they authorise is written | a token works once; no session goes on after its logout or in two places |
| Chat (`chat`) | conversations, messages, read positions | `Open`, `Send`, `Read` | retried messages; announcements after the commit, lost or overtaking each other | a message is stored once; a client that recovers by sequence misses nothing |
| Realtime gateway (`http/realtime`) | open connections and their queues | `serve`, `Publish`, `Close` | slow connections, limits, shutdown | limits hold; a slow peer blocks nobody |
| Assistant (`assistant`) | conversations, messages | `Create`, `Send` | a language model is asked between the read and the write | a turn is appended as a whole or not at all, and the client is told the truth |
| Recommendations (`recommendation`) | profiles in Redis, consumer offsets, caches | collect, enrich, `Apply`, insert; `Home`, `Similar` | repeated events, failed batches; stale caches, failing dependencies | an event counts once and is lost only by failed runs; what is shown is for sale |
| Migrations, start-up (`database`, `cmd`) | schemas and their logs of migrations | `Migrate`, `MigrateIdentity`, ... | six services migrate one database, in replicas, with restarts | no table is moved before the last core migration that names it |
| Reviews, wishlists, administration, gateways | their tables; nothing | single-row operations; routing | little | unique indexes and CHECK constraints |

How they interact, where it matters here: all of the order side *shares tables*
and serialises on row locks; the order side *tells* the rest through the outbox,
in the same transaction; consumers get the events *at least once* and
deduplicate; administrators switch shops, coupons and drivers on and off under
the feet of everybody else. `PROJECT.json` lists, under "hazards", every place
of the code where this is hard to test, with the properties that cover it.

## 2. The modules

```
Voucher <-- Marketplace <-- CheckoutFlow  --+
   ^             ^--------- PaymentFlow   --+-- Orders <-- MCOrders
   |             ^--------- DeliveryFlow  --+     |  implements OrderLifecycle
 Quote <-- MCQuote                                +-- OrdersProofs
 RowLocks <-- MCRowLocks, RowLocksProofs
Voucher <-- ArithmeticProofs <-- OrdersProofs, RowLocksProofs, PipelineProofs,
                                 ServicesProofs, CatalogSearchProofs
Sorting <-- CheckoutFlow, RowLocks, Recommend, OutboxRelay, CatalogSearch,
            ArithmeticProofs

EventTopic <-- OutboxRelay --+-- EventPipeline <-- MCEventPipeline (with DomainEvents)
          <-- Notification- -+     |  implements EventDelivery
              Consumer             +-- PipelineProofs (with DomainEvents)
               OutboxRelay <-- RelayLease

Catalog <-- SearchIndex <-- SearchIndexProofs
CatalogSearch <-- MCCatalogSearch, CatalogSearchProofs
Realtime <-- Chat <-- ChatProofs
MCQuote, Realtime, Accounts, ShopAccess, Assistant,
Behavior, Recommend, Startup <-- MCServices
Accounts, ShopAccess, Assistant, Behavior,
Recommend, Quote, Startup <-- ServicesProofs
```

### Orders, payments, deliveries

**Marketplace** declares the shared tables. Each variable is a table or one
column of it, under the table's natural key: `orderStatus[o]` is `orders.status`,
`childStatus[o][s]` the status of the seller order of shop `s`, `payStatus[o]`
is `payments.status`, `shipments[o][s]` the one shipment a seller order may
have, `receipts[t]` the row of the bank's transaction `t`, `moved[o][v]` the sum
of the stock movements of variant `v` that reference order `o`, `outbox[e]` how
often an event was written. `placed[o]` is everything checkout writes once:
customer, key, method, amounts, quantities, commissions. What a handler looks up
in these tables is an operator (`Payable`, `ParentStatus`, `ChildrenOf`).

**CheckoutFlow** has `PutCart` (`cart.Put`), `Checkout`
(`order.checkout`: the selection, its lines in the order of the variants' ids,
the refusals, the coupon, the rows per shop, the stock and its movements, the
emptied cart, the event), `Cancel`, `Adjust` (`adjustInventory`) and the two
switches. **PaymentFlow** has `Receive`, the webhook: which receipt it stores
(`ReceiptStatus`), whether the payment may be applied (`CanApply`) and what it
announces. **DeliveryFlow** has `Fulfill` (the shop's own carrier) and the
platform's: `Apply`, `ApproveDriver`, `CreateShipment`, `Assign`,
`UpdateShipment` (the driver's report), `Settle`. `Allowed` is the CHECK
constraint of migration 0009, which turns out to carry a property of its own
(section 6).

**Orders** composes them: `Next` is any customer, shop, driver, administrator or
the bank doing any of this in any order. There is no fairness: nothing in the
code makes a person act.

**OrderLifecycle** is the abstract specification: phase and money of an order as
the customer sees them. `Orders` implements it (`LifecycleKept`) with
`phase <- orderStatus`, `money <- payStatus` and the method of the placed order.

**RowLocks** is the layer below: the same handlers as the statements they send,
each with the row it locks, reads or writes and in the order of the code. Sessions
execute statements in turn; one that meets a conflicting lock
waits; a commit makes the rows that others have read *stale*; an abort may come
at any time (a refusal, a failure, the victim of a deadlock). The rows that are
read without a lock are there as well, the shops, products and addresses, and so
are those who write them: `SetShopStatus`, `UpdateShop`, `Save` of a product,
`ChangeAddress`. The locks that foreign keys take (an insert locks the row it names FOR KEY SHARE) are part of
it, which is how users and shops come into the picture.

**Voucher** is the arithmetic of `voucher/service.go` and of the commission,
as pure operators; **Quote** enumerates lists of checkout lines against it.

### Events

**EventTopic** is the topic and the budget of faults (`MaxFaults`).
**OutboxRelay** is `cmd/outbox-relay`: `Claim` (the transaction of `relayBatch`
with its recovery of abandoned rows), `Publish`, `MarkPublished`,
`PublishFails`, `RelayCrash`, and `RowAges`, the clock as the code sees it: a
row's `available_at` lies ahead, has passed, or has passed by a minute.
**NotificationConsumer** is the consumer's loop: `Fetch`, `Handle` (store once,
skip, or bury), `Push`, `Commit`, `ConsumerCrash`. **EventPipeline** composes
them; **EventDelivery** is what producers rely on, with its liveness, and
`EventPipeline` implements it (`EveryEventDelivered`). **RelayLease** runs the
relays without any fault and records how long a claim has been held.

**DomainEvents** has what is in the events: the sets of those each handler
raises, and `recipient`, what the notification service makes of an event
(`events.go`'s validation, field by field, and `consumer.go`'s choice): notify,
skip, or the dead letters. `MCEventPipeline` takes the kinds of its two events
from it.

### Products and search

**Catalog** has the transactions that change what a search document shows:
`SaveRead`, `SaveCount` and `SaveWrite` (`catalog.Save`: the product is read before the
transaction, its categories are counted in it, if at all, and then comes the
write, with no lock before that), variants, reviews, deliveries,
stock, the shop's status or name, `Commit`, `Rollback`. `rev` stands for a
product's contents. An outbox row carries the time it was *written*, and becomes
visible at the commit.

**SearchIndex** adds the index: `Fetch`, `ReadDocument`, `WriteDocument`,
`CommitMessage` of the indexer, which takes any row that is not done, since
relays and partitions deliver in any order; and the rebuild, `StartRebuild`,
`NextPage`, the switch of the alias, `Replay`, `FinishRebuild`, with crashes and
repeated deliveries anywhere. `raced` records the two kinds of changes the
rebuild cannot see.

**CatalogSearch** is about one search: `PostgresPage` and `IndexPage` are the
two implementations (candidates, order with its ties, pages, the window of
10,000, the hydration of ids and the fallback), over a table and an index that
`Archive` and `Suspend` leave behind. A document has the time of creation to the
millisecond (`DocumentOf`, `search.go:146`), PostgreSQL to the microsecond. A rating, which the code averages, is a number
that stands for its place among the ratings: only comparisons of it matter.

**Sorting** is an `ORDER BY`, without recursion, so that it can be proved about: the
i-th row is the one with i - 1 rows before it (`InOrder`), in any order that is given
as the set of its pairs; `Ascending` orders ids, `Only` leaves what is in a set.

### People and conversations

**Accounts** is one account: `Login`, `Refresh` (`RefreshTakes`,
`RefreshIssues`), `Logout`, `ForgotPassword`, `ResetPassword` (`ResetTakes`,
`ResetWrites`), `ChangePassword` (`ChangeVerifies`, `ChangeWrites`), any token
ever issued presented again, and `HandlerFails` between any two calls.

**ShopAccess** is one shop, statement by statement: a request is locked (if it
changes the shop), its role read, over gRPC the status read by another
statement, and then it acts. Each kind of request has the roles the code asks
for (`Needs`).

**Realtime** is the hub: `Connect`, `Upgrade`, `Authenticate`, `Offer`, `Send`,
`Stop`, `Return`, `Close`. **Chat** puts a conversation on it: `SendMessage` up
to the lock, `Commit`, `MarkRead`, `Typing`, `Forward` (Redis), and `notify` in
its parts (`Collect` the targets under the mutex, `OfferNext` outside it). A device
speaks for its user, the REST API for anybody (`Speaks`), so that a buyer's message
may come by both at once. The client (`Receive`, `Fetch`) is not in the repository: it is modelled as a
comment tells it to recover (`chat/service.go:210`).

**Assistant** is one conversation with the assistant: `ReadConversation`,
`ModelAnswers` (any function with any result, and what the code answers to it),
`AppendTurn`.

### Behaviour and recommendations

**Behavior** follows the events of one user from `Collect` over the enricher
(`Fetch`, `Publish`, `Commit`) to the profile (`Apply`, with the Redis script as
`Updated`) and the store (`Insert`). It tells apart a worker that is run again
with its reader (`RunFails`) from one that starts anew (`Crash`).

**Recommend** is one request after the other: the interests, the cached result,
the candidates by category, by text and by popularity, each from a cache, the
index, PostgreSQL or nowhere; then `Cards` and `Approves`, which read what is
shown. Products, stocks and shops change meanwhile.

### Start-up

**Startup** is the life of the processes: `ApiMain`, `IdentityMain` and so on
are their `main` functions, `Migrate(p)` the core migrations in
`postgres.go` version by version, `OwnMigrations` the transaction the other
services share, from `CREATE SCHEMA` through the advisory lock to the commit.

**MCServices** puts modules that share no state here side by side: the part is
chosen in the initial state and the rest stands still, so its states are the sum,
not the product, of the parts'.

## 3. What is left out of the models, and why that is sound

*One handler, one step.* In `Orders` every handler is one atomic action. What
justifies it is checked and proved of `RowLocks` (`DecisionsHold`): the rows a handler
decides on are unchanged when it commits, because every handler locks the parent
order (checkout: the user, the cart, the variants and the coupon; carts, stock
and drivers: their own row) before it reads, so that it could as well have run
as a whole at its commit. `Fulfill` and the shipping service read the seller
order before they lock the parent, but decide only on what they read again
after. Four reads escape, and `DecisionsHold` names them (`Tolerated`): the shop's
standing, asked of the seller service by checkout, carts and `Create` of a shipment;
whether a product is published, read without a lock by checkout
(`order/repository.go:90`), carts (`cart/repository.go:37`) and the next save of the
product itself; the address an order is sent to (`order/repository.go:63`); and
the stock a cart item is compared with (checkout compares again). `Orders` reads the
shop's status at the commit, and takes products as published and the address as it
is: it leaves out that a checkout which overlaps a suspension, the archiving of a product or
a change of the address still succeeds, with what it has read before. `RowLocks`
has no values, so that the transactions refine the actions of `Orders` is argued
from `DecisionsHold` here and not itself checked.

*Rows of RowLocks.* Roles and accounts are asked for without a lock; `ShopAccess` is
about that, and those reads are left out. Prices are in the row of the variant,
which checkout locks. A product's row stands for its categories too, and a user has one
address. Rows only ever inserted have no lock of their own; the unique indexes
on receipts and on a customer's keys are the rows `Receipt` and `OrdersOf`. A
shop's part of an order is not told apart from another's, nor are their
shipments. The relay locks rows of its own, with SKIP LOCKED.

*Repetitions.* A request with a known idempotency key, a webhook with a stored
receipt and a driver's report with its last request key return what is there and
write nothing. They are stutters, so no action is needed; the properties about
repetition (`OneOrderPerKey`, `PaidByOneTransfer`) are about the guards that
recognise them.

*Constants.* Prices do not change and products stay published; a coupon's window
of validity is folded into `couponActive`, which may change at any time; the
address of a checkout exists. Checkout refuses where these fail, so each only
removes refusals. The bound of 10,000 on quantities and the length of fields are
left to the inputs.

*Saturation.* `outbox` counts an event up to 2, "2 or more": every property
about it asks for 0 or 1.

*Carriers.* Any name but "internal" is "external"; "internal" sent by a shop is
one of the inputs of `Fulfill`.

*The relay's clock.* Rows age independently of each other, although they share a
clock; that adds behaviours and removes none. A read of the table and the failed
update of a row are in `RelayCrash`, which gives the batch up as the code does.

*One of each.* The services' modules follow one user, account, shop,
conversation or product list at a time, because their rows and keys are those of
one: a hub with connections of several users is `Realtime`. Where two of a kind
meet, as sessions of an account or sends to a conversation, there are two.

*Reads of several statements.* `SearchDocument` reads a product, its variants
and its shop in statements of their own; they are one step in `SearchIndex`,
since a change between two of them has an event of its own still to come, as has
one right after the read. `hydrate` in `Recommend` is two steps, products and
then shops, as is `CheckMembership` in `ShopAccess`, role and then status.

*Failures* of Redis, Elasticsearch, gRPC and the model are choices at the call;
where the code takes a failure for an empty answer, so does the action.

*Kafka* is taken at its word: an acknowledged write stays, one group member
reads one partition in order, and a restart resumes after the committed offset.
The consumer's retry loops are modelled by their success: a failed attempt
changes nothing.

## 4. The runs

The passing runs finish within two minutes each, `chat` and `services` in under three.
Deadlock is checked for `Orders`, `RowLocks` and `Chat`; the other systems are
finite by their bounds and do stop.

| run | states | question |
|---|---|---|
| `checkout` | 89,824 | Do stock, movements, coupons, keys and totals stay consistent when two customers with two keys compete for the last unit of two variants of two shops and for the only use of a coupon, while stock is corrected, orders are cancelled and the coupon is switched? |
| `payment` | 76,815 | Is an order paid by one transfer exactly, and is every other one on record, when two transfers of any amount, direction, account and order arrive in any order among checkout, cancellation and fulfilment? |
| `delivery` | 72,752 | Do parcels, children, parent and cash agree for an order of two shops, delivered by shops or by two drivers who are approved and suspended, with a part made free by a coupon? Is it an `OrderLifecycle`? |
| `pipeline` | 217,935 | Does every event get through, once, with two relays and a crash or failed call anywhere? |
| `row_locks` | 1,141,821 | Does what a transaction decides on stay true until it commits, for any two of the handlers, and what does not? Which two can wait for each other? |
| `relay_lease` | violation | Does a claim last a minute? |
| `search_index` | 483,748 | Does the index catch up with the products, whatever transaction stays open, whichever process crashes and while it is rebuilt? What can a rebuild not see? |
| `catalog_search` | 29,180 | Do both searches give the same page for every filter, order and page, but for products of one millisecond, and does a stale index show anything it must not, do PostgreSQL's pages skip anything? |
| `categories` | violation | Does a published product have a category? |
| `chat` | 332,984 | Does a client that recovers by sequence miss a message? Is a message that is sent twice at once stored once? Does anybody wait for one that takes nothing? |
| `services` | 894,656 | Are discount and shares exact (46,650 states)? Do the limits of the hub hold (592), do tokens work once (56,896), does nobody act for a shop without the role (211,686), are turns whole and told right (10,632), are behaviour events counted once and lost only by failed runs (216,078), is what is recommended for sale (207,190), do the processes come up on one database in any order (144,932)? |
| `behavior_loss` | violation | Are raw events published before their offsets are committed? |

Why the bounds are enough. *checkout*: the conflicts are between two orders; one
unit and one use make every resource the last one, two variants of two shops
make an order with several rows and a discount of 3 over 3 and 4 that does not
divide, and a full column (`MaxStock = 1`) makes the return of a unit overflow.
The requests take the whole cart or a part, with two keys and two users.
*payment*: two orders and two transfers let both transfers go to the same order,
each to its own, or to none; amounts 3 and 4 are right and wrong. *delivery*:
two children are needed for a parent to lag behind, two drivers for a
reassignment. *pipeline*: two events in batches of two make a batch that is
half done, two relays make the overtaking, one event is to be stored and one to
be buried, and one fault may hit anywhere; the proofs of section 6 cover the
safety part for any number. *row_locks*: an interference is between a reader
and a writer, so two sessions suffice, with two of each row that handlers take
several of: two variants, each of a product and a shop of its own. Symmetry is used for ids that are only compared for
equality, in runs without liveness.

*services*, quotes: amounts 0, 35 and 10,007 with percentages 1, 33 and 100 and
values 1, 7 and 150 give remainders in each of the divisions, lines of no value and
offers larger than what they apply to. Hub: two devices of the buyer and one of the
staff against limits of two connections and one per user, so that both limits are
met while handshakes are under way. Accounts: two sessions, two resets, two
handlers, three rotations, so that an old token is presented while its successor is
taken. Shop: two people who may be owner, manager, staff or nobody (one of them,
since they are alike, is the owner at the start), two interchangeable requests, one
decision of the administrator between any of their statements. Assistant: two sends
that overlap, one of them from a product's page. Behaviour: two events, three
records on the enriched topic, so that one is published again, batches of two, a
window of two, one failed run and one crash. Recommendations: three products of two
categories (one of both, one of none), one shop, one cached list that outlives one
change. Start-up: two replicas of the API and of Identity and one of each other
service, up to three of them deployed, on a new database or one left at a core
version at which the services' readiness changes, one restart; the proof of section
6 covers the rest. *search_index*: two products, of which one is new, two
transactions that commit, one after the other, pages of one product, one fault: the
rebuild can be overtaken between any two pages; saves come with and without
categories, so that they are counted or not. *catalog_search*: three products with
ties in every order, created at 2 or 3 with two units to a millisecond, so that
PostgreSQL tells apart what the index cannot; pages of one, a window of two, so that the third page
falls back. *chat*: one device of the buyer with a queue of one frame and pages of one
message, beside it the REST API, which may send as the same buyer or as the
staff, two requests under way, one message id, two messages, one fault: every second
frame meets a full queue, a message is sent again while it is being sent, and two
senders meet at one sequence.

Liveness is asked of the pipeline, the index and the chat. Of the index
(`IndexCatchesUp`): the consumer retries in an endless loop and a rebuild that was
started goes on; nobody has to start one or a transaction. Of the chat
(`NobodyWaitsForASlowClient`): each step of a request's own goroutine happens, and a
handler that is stopped returns; no fairness for `Send`, so no connection ever has
to take a frame, which is the point. Of the pipeline, assumed: the loops of the
relays and of the consumer go on (`for` loops that end only with their process,
which the deployment restarts), and the clock does. Not assumed: that transactions
are made, that calls fail or processes crash. Faults are finite in number: under
endless crashes nothing is delivered.

Every property of a passing run has a mutant in `PROJECT.json`: a change of one
mapped definition, as a plausible mistake would make it, under which the
property is violated in that run.

## 5. What the code does differently from what it says

`cmd/outbox-relay/main.go:56` recovers "claims left behind by a relay crash":
rows in state "publishing" whose `available_at` is more than a minute ago. A
claim (line 64) does not renew `available_at`, so what is compared is the time a
row became due, not the time of its claim. After the relays or Kafka were down
for over a minute, every row a relay claims is at once claimable by another,
without any crash, and is published twice (run `relay_lease`, property
`OnlyLeftBehindIsRecovered`). Consumers deduplicate, so nothing breaks; the run
`pipeline` includes these behaviours.

`RECOMMENDATIONS.md:13` wants one to three categories of a newly published
product. `catalog.Save` reads the product before its transaction, without a lock, and
counts its categories only if that product was not published (`service.go:104` and
`:123`). One save (published, categories omitted) reads it as published, so it
counts nothing; another makes it a draft with an empty list and commits; the first
writes its status: the product is published anew without any category (run
`categories`, `PublishedHasCategory`).

The comment on the enricher's `Run` (`enricher.go:29`) says that batches are
published before raw offsets are committed and that batches are replayed. A run
that fails loses its batch: `supervise` runs the worker again with the reader it
had, which goes on behind the batch, and the next commit covers it (run
`behavior_loss`, `PublishedBeforeCommitted`). The same happens to the profile and
the store. `LostOnlyByFailedRuns` shows that nothing else is lost: after a crash or
a rebalance the batch is read again.

Behaviours met on the way that the code does not speak about, and that the
models keep: making somebody a member of a shop while he checks out there is a
deadlock of two transactions (the shop's row and a foreign key to the user
against the user's row and a foreign key to the shop), which PostgreSQL ends by
failing one of them; a cancelled order keeps its coupon redeemed; a paid online order
that no shop confirms can be neither cancelled nor refunded; a returned parcel
ends nothing; a driver suspended after the pick-up blocks the parcel; cash taken
by a shop's carrier is recorded without `payment_succeeded`.

A checkout sells a product that was archived, or of a shop that was suspended, after
it was read, and sends it to the address as it was read (`Tolerated` in `RowLocks`).

Of the services: the index orders products by the millisecond of their creation and
then by id (`search.go:146`), PostgreSQL by the microsecond (`browse.go:91`): two
of one millisecond and the same key may change places between the two searches,
and so a page may differ, also on the way from a page of the index to one that falls
back. An index rebuilt while products change may keep a stale document
in two cases, both needed in `OnlyTheRebuildLeavesStale`: the change was written
before the rebuild started and committed during it, or it was committed between
the replay's reading of the product and its write; a replay that fails leaves what changed
during the scan to the next change. The property is about one indexer, which is
what `docker-compose.yml` deploys: two would overwrite each other's documents. An
index message that cannot be decoded ends the indexer, again after each start.
Refresh tokens stay valid after the password was changed or reset; the current
password is verified in one statement and replaced in another, so of two changes
at once both succeed. A role read over gRPC may be withdrawn before the request
acts on it (`OnlyMembersAct` says: the role was held at some moment of the
request), and role and status are read in two statements; a shop's owner can
never be changed or removed. The seller's dashboard counts products with status
"active", which no save ever gives, in statements of their own. A send to the
assistant that is repeated after an outage asks the model and may save the turn
twice. Recommendations cached for a minute are returned whatever number of them
is asked for, and candidates found twice count twice when the code decides
whether there are enough. Two replicas that start on a new database at the same
time may both create the schema, and one of them exits; the Assistant
exits when it starts before Identity has migrated (the deployment orders them).

## 6. The proofs

All theorems hold for every value of the constants that satisfies the named
assumptions: `MarketAssumption` (a database has finitely many shops and variants,
and variants are ordered ids with a shop, a price and a stock within the column; a
coupon satisfies the CHECK constraints of migration 0008 and has a shop or none; a
rate of commission is within that of migration 0001), `QuoteAssumption` (the same of
the offers),
`InputAssumption` (inputs are of the types the services validate),
`ReceiptAssumption` (a stored receipt differs from none), `ConsumerAssumption`,
`TopicAssumption`, `RelayAssumption`, `RealtimeAssumption`, `ChatAssumption`,
`StartupAssumption`, `AccountsAssumption`, `AssistantAssumption`,
`ShopAccessAssumption`, `BehaviorAssumption`, `DomainAssumption`, those of the
catalogue and the index (the prices in a database are finitely many,
`CatalogSearchAssumption`), and `RowAssumption`. TLC evaluates all of them. One theorem,
`IndexIsRight`, assumes more: `OneIndexer`.

Eight modules hold them: `OrdersProofs`, `PipelineProofs`, `SearchIndexProofs`,
`CatalogSearchProofs`, `ChatProofs`, `ServicesProofs` (accounts, shops, the assistant,
start-up, behaviour, quotes), `RowLocksProofs`, and `ArithmeticProofs`, which the
proofs about money, quotes, locks and searches cite.

**OrdersProofs** shows first, handler by handler, that `TypeOK` is preserved. The
part that is not shape is the stock: that it stays within the width of its
column rests on the refusals of `Checkout`, `Cancel` and `Adjust`.

Then comes the inductive invariant of the orders

    IInv == TypeOK /\ \A o \in Orders : OrderInv(o)

`OrderInv` is a statement about the rows of *one* order, so a handler that works on
one order leaves that of the others alone, and the proof has one lemma per handler.
It is stronger than what the runs check, in four places. `Unplaced`: an order that
is not placed has no rows, so that `Checkout` starts clean. `Parcels`: the shipment
and the seller order tell the same story (`ShipmentMatchesChild`), a row without a
carrier is the absent shipment, a shop's own shipment is "shipping" or "delivered",
and every row satisfies the CHECK constraint (`Allowed`): a platform shipment that
left "pending" has a driver. `OneCarrier` is `NoMixedCarriers`, which no run
repeats: it holds because `Fulfill` refuses to *ship* beside a platform shipment and
`CreateShipment` refuses beside an external one, and because the CHECK constraint
refuses the row of a shop that names its own carrier "internal"; without the
constraint the invariant, and with it the settlement of cash, is lost. `Parent` and
`Payment`: the parent's status is determined by the children
(`ParentMatchesChildren`), work implies payment, and cash is paid only on a
delivered order; neither survives alone, since `Settle` needs to know that a payment
that is due belongs to an order that is not cancelled. `Ledger` is
`LedgerMatchesOrders`. From `Inductive` (`Spec => []IInv`) follow `TypeCorrect`,
`LedgerCorrect`, `CarriersNotMixed`, `ParcelsMatch`, `ParentCorrect`,
`CancelledInert` and `WorkPaid`.

Last, it shows that `Orders` implements `OrderLifecycle`
(`ImplementsLifecycle`): under `IInv` each handler is a step of the customer's
view or a stutter of it. The action properties follow from the same case split:
`PaymentsFinal`, `CancellationsFinal` (`CancelledIsFinal`, proved only),
`ChildrenForward`, `DriversKeepParcels`.

The rest of **OrdersProofs** is about rows of several orders. `KeysUnique` and
`CouponsWithinLimit` (with the cardinalities of `FiniteSetTheorems`) say what
checkout's guards achieve; `PaidExactlyOnce`, `TransfersOnRecord` and
`PaymentsAnnounced` (proved only) say that receipts, payments and events agree. Each
is `IInv` plus one more invariant about the receipts or the events; the finiteness
of the orders is not needed.

Then come the three properties that add up. `StockIsConserved` (`StockConserved`): the
sum runs over the orders that live, so the invariant `StockInv` adds that these
are finitely many, however many could be; a checkout adds one summand and a
cancellation takes one away (`OneMore`). `TotalsOfShops` (`TotalsAddUp`) is decided at
checkout: each line costs its amount less its share, the shares add up to the
discount (`SharesAreFair`), and the sum over the lines, grouped by shop, is the sum
of the shops' totals (`SoldAddsUp`). `MoneyRows` keeps that of each order, with one
thing more: only the shops that take part have a total. `CashIsAccounted`
(`CashAccounted`) needs it, since drivers collect of those shops alone. Its own
invariant is `CashInv`: a platform parcel collects the total of its shop
(`CashParcel`), it is settled only when it is delivered and collected, and the
payment is recorded when, and only when, all of them are (`CashPaid`). That no
report of a driver can undo a settlement is `ReportSameCash`.

**PipelineProofs** proves, for any number of events, relays and faults and any
batch size, `NothingDropped` (`PublishedIsOnTopic`), `NothingSkipped`
(`CommittedIsHandled`) and `NothingPushedTwice` (`PushedAtMostOnce`). The
strengthening: a relay that remembers a write still has the row at the head of
its batch and the row is on the topic; the consumer works on the message after
the committed offset, and the stage "push" means that the notification was
created just now and never pushed. `ImplementsDelivery` is the refinement of
`EventDelivery` without its liveness: by `OnlyRaised`, batches and topic hold only
events that a transaction raised, of which there are finitely many, so a relay's
step is none of the abstract specification, and handling a message notifies or
buries an event or, if that was done before, is none. `RaisedAreUnderstood`, of `DomainEvents`: each event a
handler raises is classified by `recipient` as it is meant: the customers' events
notify, all others are skipped, none is invalid.

**RowLocksProofs** is about any number of sessions that run any handlers, and
proves what section 3 relies on. `DecisionsStand` (`DecisionsHold`): every row has
a `Governor`, the row whose lock stands for it (the order for its payment, its
children and its parcels; the user for the list of his orders; otherwise the row
itself), and every handler is `Disciplined`: what it reads to decide and what it
writes comes after the lock of the governor, or is one of the four reads that
`DecisionsHold` excepts (`Bearable`). `EveryOperationIsDisciplined` goes through the handlers;
after that only the locks matter. The invariant adds `Exclusion`, no two sessions
hold conflicting locks, and the heart is `KnownIsStillSo`: what one session has read
another can have changed only under a lock that conflicts.
`NoOtherDeadlocks` (`OnlyMembershipDeadlocks`): rows have a `Height` (receipt, product,
address; order; payment, children, parcels; driver; user; cart; the variants by id; coupon; shop),
and every handler but the one that makes a member of a shop is `Orderly`: each of
its statements that may wait comes after lower ones only, or an earlier statement
has seen to it that it never waits (`Frees`). The key locks of foreign keys share
a height with the row they name but wait only for the strongest lock, so each
height has two levels. Whoever waits for a session therefore waits below it
(`WaitsClimb`), and in a circle somebody would wait at the highest level of all; the
maker of a member can only wait for a checkout (`MembersWaitForCheckouts`), which
closes the case the property allows. That checkout takes its variants in
ascending order is `AscendingIsRight`; the heights of finitely many variants are
their ranks (`NumberBelow`).

**SearchIndexProofs** proves `IndexIsRight` (`OnlyTheRebuildLeavesStale`) under
`OneIndexer`, for any products, transactions, repetitions, failures and rebuilds. The
strengthening `SearchInv` says where the repair of each wrong document is: in a
message not yet taken, in the indexer's hands, or (for the index being filled)
on a page not yet read or in a row the replay reads (`Shown`, `Scanned`); and a
document that was read before the product changed will be written over
(`Drafted`). `OneIndexer` is needed: with two, one reads a product, it changes,
the other reads and writes the newer document, the first writes the older one,
and both commit. `docker-compose.yml:22` runs one indexer, which the code nowhere
enforces.

**CatalogSearchProofs** proves `SearchesAgree` (`SameAnswer`) and `PagesAreExact`
(`PagesExact`) for any table of products, shops, filters, orders and page size.
The type invariant is all that is needed of the state; the work is in the
operators. Both answers are compared with the `Listing`, the candidates that are
listed, in their order. That the order is one (`ProductsAreOrdered`) rests on the
last two terms of the `ORDER BY`: products that tie in the key differ in age or
in id, so that there is one sorted sequence only (`SortedIsInOrder`). PostgreSQL's pages are cut from the listing
(`PostgresPageIs`): `Scan` goes over candidates of all shops and counts those of
approved ones, and `FoundInv` says after each candidate how many it has counted, how
many of them are on the page and which; it stops counting when the page is full,
and the count with which the loop returns is right because every candidate before
that was counted. A current index has of the candidates just the listed ones
(`SameProducts`), whose documents have the same key, though the deleted variants
are not in them, and the millisecond of the same age. So both orders refine
the one by key and millisecond (`BothRefine`): a product has as many before it in its
place in either sequence, so neither of the two in one place can come before the
other (`NotEarlier`, `TiedInPlace`), and where ties were created at once the orders
are the same. Its pages are therefore cut from the listing, but for ties
(`IndexedIsListing`, `TiedPages`); nothing is missing of them when they are hydrated, and the
fallback is not taken.
However stale the index is, what was hydrated is listed (`ShownIsListed`). Last,
`OnePageMore`: the pages one after the other are the beginning of the listing,
with no product twice or left out where two pages meet, and `EnoughPages` of them are
all of it.

**ChatProofs** proves of the hub `LimitsHold` (`HubWithinLimits`) for any devices and
limits. The strengthening is `HubInv`: only peers are greeted, so that the set whose
size is limited grows by the one device that is admitted, after the count that
admitted it; the counting is done with `FiniteSetTheorems`. `ChatLimitsHold` has the
same of the hub with the conversation on it. Of the conversation,
`RepeatsAnswered` (`RepeatIsAnswered`) rests on `Fits`: a draft has the next
sequence and an id its sender has not used, because it was made under the lock
of the conversation and nobody else has one, so the unique constraints never refuse
it; and `ListenersMissNothing` (`NothingMissed`) follows the message from the
commit over `notify` and its targets to the queues: for each step that takes it
from one place, the next place has it, or the connection ends.

Of behaviour events, **ServicesProofs** proves `EventsAccounted` (`LostOnlyByFailedRuns`) and
`EventsCountedOnce` (`CountedOnce`) for any topics, sizes, crashes and failures.
The first invariant is that everything before a *read* position that was handled
has reached its target or was dropped. The second relates the order of
the enriched topic to the order of counting: while no run fails, a batch is
published again only as a whole, so a copy comes less than a batch behind
the events before it (`Topic`), the profile remembers the *last* events it counted
(`RecentAreLast`), and of distinct events in so short a range no more than a window
can lie between two copies (`Pigeons`, a pigeonhole argument with
`FiniteSetTheorems`). The proof corrected the property: what TLC had
confirmed of windows as long as a batch fails when copies disagree. The
enricher looks the categories of a product up anew when a batch comes again; an
event may then be passed over the first time, more than a window of others
counted, and a copy counted twice. With the code's batches of 200
(`enricher.go:45`) and window of 256 (`profile.go:62`) that can happen, although
`enricher.go:29` says that replayed batches are deduplicated downstream;
`CountedOnce` has both cases.

It proves `StartupCorrect` (`StartupSound`) for any processes,
replicas and restarts. `StartupInv` says of each process what it has seen to, from
where it is (`Place`): one that moves tables has found the core ready, one that
waits has found it complete, one whose version or schema was made meanwhile has a
`Twin`, another process of its service. `TakeOver` is the point of it all: a
service is migrated only when the core is beyond the last migration that names its
tables. `TokensSafe` (`TokensWorkOnce`): a token is stored, in the hands of one
handler, or gone (`OneToken`, `OneReset`), since it is taken with one GETDEL.
`TurnsHonest` (`TurnsToldRight`): the saved rows are whole turns numbered without a
gap, a send under way has saved nothing, and a transaction that finds the number
it read appends right behind (`AppendKeeps`). `MembersOnly` (`OnlyMembersAct`):
what a request was told was so at some moment since it came in, and is so still for the
one holder of the shop's row lock (`OneHolder`, `Told`); the owner stays because no
change of members touches him. `QuotesAreExact` (`DiscountExact`) and
`SharesOfQuotesFair` (`SharesFair`) say of every quote what `ArithmeticProofs` shows of
every list of lines.

`ShownWasForSale` (`ShownIsForSale`) asks nothing of the caches and the index but
that they name products (`KnownProducts`): the stages that gather candidates leave
everything open (`Gathers`), and what is shown rests on the last two reads. What
is for sale now has been seen by the request (`SeenSoFar`), since every change of the
market is, so the cards are (`CardsSeen`) and stay so while the shops are asked for.
That each product is shown once, within the limit and with at most one other of
its shop is an induction over the loop of `recommend`: `PickInv` says what holds of
the list after k of the ranked products, and that they are ranked without repetition
is `AscendingIsRight`.

**ArithmeticProofs** is about operators. For all amounts, the commission and the
percentage computed in two parts are the exact quotients (`CommissionIsExact`,
`PercentIsExact`). One turn of the allocation loop gives a line no less than
nothing and no more than its amount and leaves a remainder that fits the remaining
lines (`AllocateLineSound`). Of the whole loop, for any number of lines,
`SharesAreFair`: `AllocationInv` says after each line what is left of the discount
and of the amounts, and that what is left is in proportion but for less than a unit
per line. `Total` is a recursion over a finite set and `LineDiscounts` one over the
lines; the provers cannot use the library's induction theorems, which take a formula
for a parameter, so the induction is over a *set*, of the numbers or of the
subsets for which a fact holds: `AllNumbers` and `AllSubsets` follow from
a well-founded order, and `TotalSums` says that a total is the same in whatever
order it is taken. From it follow the lemmas the proofs cite: one summand more, less
or changed (`TotalPlus`, `TotalUpdate`), summands of zero (`TotalOutside`), sums in
groups (`TotalGrouped`). Of `Sorting`, `InOrderIsSorted`: a finite set of rows comes
out of an `ORDER BY` whole, each once, in their order, if it is a strict order in
which any two are comparable; and there is one such sequence only. `AscendingIsRight`
is the case of numbers, with which checkout, the order of its locks, a relay's claims
and the ranking of candidates are proved.

Besides `CountedOnce` and `OneIndexer`, the proofs found that the gateway and
Redis must be told apart from the devices (`ChatAssumption`), that the variants a
database holds are finitely many (`RowAssumption`, `MarketAssumption`,
`RecommendAssumption`), that `Quote`
and `MarketAssumption` had left out the constraints on coupons on which an exact
and fair discount rests, and that two cases of what a commit does to the documents
overlapped in `Catalog`.

Only model-checked: `EveryEventDelivered`, `IndexCatchesUp` and
`NobodyWaitsForASlowClient`, which are liveness properties under fairness and involve
ENABLED. Every invariant and every action property of a passing run is proved. `OnlyLeftBehindIsRecovered`, `PublishedHasCategory` and
`PublishedBeforeCommitted` are false.

## 7. Not modelled yet, and the plan

Not modelled on purpose: prompts and answers of the language model, scoring of
recommendations (floating point), how a text matches, reports and listings (they
write nothing), HTTP and gRPC plumbing and the code generated for it, the
gateways' routing, object storage of images, signatures and QR payloads, the
configuration.

Not modelled because each is a single update or insert of one row behind a
unique index: profiles of users, wishlists, the creation of
coupons, marking notifications as read, opening a conversation. The counts of the
rate limiters only refuse.

Left, the most important first:

1. **DriverRequests**: the request key of a driver's report against reports that
   follow it.
2. The indexer's messages that cannot be decoded, and an index created by
   Elasticsearch itself when the alias is missing.
3. Several instances of the realtime gateway, which hear of each other's messages
   not at all, and the reconnection to Redis.
4. The composition of `ShopAccess` with the order modules: today the role is
   assumed to hold for the handlers of `Orders`.
