# Verification of the e-commerce ordering and payment backend

TLA+ models of the Django application under `src/apps`: what a checkout, its
payments, the stock they sell, the cart, the category cache, accounts and the
seeding at boot do when requests, provider notifications, Celery tasks, staff and
booting containers interleave. TLC checks the properties on small instances; the
theorems of the six modules named `*Proofs` are checked by TLAPS for every value of the
constants: every safety invariant and action property that the runs check is one of
them, apart from those that the code violates. Paths below are relative to `src/`.

Contents: [the system](#1-the-system) · [modules](#2-modules) ·
[how the models correspond to the code](#3-how-the-models-correspond-to-the-code) ·
[runs](#4-runs) · [fairness](#5-fairness) · [proofs](#6-proofs) ·
[where code and documents disagree](#7-where-the-code-and-its-documents-disagree) ·
[what is not modelled](#8-what-is-not-modelled) · [plan](#9-plan)

## 1. The system

A REST API on PostgreSQL (READ COMMITTED, the default), Redis (cache and Celery
broker), Celery workers with beat, and two payment providers.

| Component | State | Operations | What is hard about it | What makes it correct |
|---|---|---|---|---|
| Payment orchestration, `payments/service.py` | `Payment`, `Order` rows | `initiate_from_cart`, `resume`, `confirm`, `verify`, `abandon`, `expire`, `handle_webhook`, all ending in `_apply_result` | provider calls inside transactions that hold row locks; answers fetched before the row is locked; orders and payments locked in different orders by different paths | a succeeded payment has a paid order; a paid order stays paid; stock is taken once; captured money is honoured |
| Strategies, `payments/strategies/` | the provider's session | `initiate`, `confirm`, `verify`, `parse_webhook`, normalising to `PaymentStatus` | results late, repeated, out of order; simulation and webhook secrets are each provider's own | unless a provider is simulated or has no webhook secret, success is reported only for a session the customer completed |
| Payment API and webhooks, `payments/views.py`, `webhooks/views.py` | none | one per endpoint | the order or payment a view read may have changed when the service locks it | — |
| Expiry, `payments/tasks.py` | broker messages | countdown per payment, sweep by beat | countdowns are lost with the worker; a task decides on a payment it read earlier | no payment stays open past its deadline; no success is overtaken |
| Orders, `orders/services.py`, `orders/views.py` | `Order`, `OrderItem`, `Product.stock` | `create_order`, `create_paid_order`, `reduce_stock_for_order`, staff status PATCH | stock of one product is wanted by many orders | stock never negative; each order sold once |
| Cart, `cart/services.py` | `CartItem` rows | add, set, remove, clear, merge, snapshot, checkout | lines are read without a lock and saved by primary key; merges lock several lines in the client's order | what a request answers is in the cart; removed lines stay removed; requests end |
| Product catalogue, `products/models.py`, `products/views.py` | `Product` rows | staff create, update, delete | an update saves the whole row, stock included | stock only moves by sales |
| Categories, `products/services.py`, `products/signals.py` | `Category` rows, the cached tree in Redis | create, edit, delete; tree; recommendations | invalidation is no part of the transaction; nothing refuses a cycle; the climb to the root is a query per level | the cached tree is stale only where the code lets it be; the traversal is exact and a pre-order; the climb ends |
| Users, `users/` | `User` rows | register, log in, profile | check then insert, under a constraint that knows spellings only | one account per address |
| Startup, `entrypoint.sh`, `seeders/` | `User`, `Category`, `Product` rows | `seed_admin`, `seed_products`, at every boot of a web container | containers boot at once or die halfway; a root category's name is under no constraint | rows seeded once; a later boot completes an earlier one; customers' accounts untouched |
| Core, admin sites, settings | none, or any row (admin) | — | — | — |

How they interact. The payment views call the service; the service reads the cart
(`snapshot_cart`), writes orders and payments, calls a strategy, and on success
takes stock (`reduce_stock_for_order`) and clears the cart. Providers call the
webhook views. `_run_strategy_initiate` enqueues the expiry countdown; beat enqueues
the sweep. Orders and carts share the product rows with staff edits. Category
writes reach the cache through Django signals. A web container seeds accounts and
the catalogue before it serves, while other containers serve.

## 2. Modules

| Module | Models | Role |
|---|---|---|
| `Strategies` | what each provider call and notification is normalised to; the life of a provider's session (external) | operators used by `Checkout` |
| `OrderLedger` | nothing of the code alone: an order is sold at most once, out of stock that is there, in one step | abstract specification |
| `Checkout` | payment orchestration, API, webhooks, expiry, orders, and cart and products as far as checkout meets them | the core; implements `OrderLedger` |
| `CheckoutProofs` | — | theorems about `Checkout` |
| `Cart` | one customer's cart, statement by statement, with row locks and deadlocks | component |
| `Catalog` | category writes and signals, the cached tree, recommendations | component |
| `RowLocks` | settling, superseding, resuming, expiry, order creation and product deletion as sequences of row locks, with PostgreSQL's deadlock detection | details the steps of `Checkout`; implements `OrderLedger` too |
| `CartProofs`, `RowLocksProofs` | — | theorems about `Cart` and `RowLocks` |
| `CatalogProofs`, `TraversalProofs` | — | theorems about `Catalog`: its table and requests, and the traversal of the tree |
| `Accounts` | the user table and registration | component |
| `Startup` | the boot of web containers: both seeders, crashes, staff edits in between | composes `Accounts` with the catalogue's tables |
| `StartupProofs` | — | theorems about `Startup` and `Accounts` |
| `MCCheckout`, `MCCart`, `MCCatalog`, `MCRowLocks`, `MCStartup` | — | values of the constants for TLC |

`Checkout` composes the strategies, orders, payments, expiry, stock and cart in one
state, because the hazards are between them. `Cart` details what `Checkout` does to a
cart in one step; `Catalog` shares nothing with checkout. `RowLocks` opens the steps
that `Checkout` takes at once: there a transaction locks all its rows together, here one
by one, and the same abstract specification is implemented by both.

Each module marks some operators *Bug variant*: an operator with a mistake a
programmer could make, never used by a specification. Substituted for the operator
after it, each one makes the property listed for it in `PROJECT.json` fail, which
shows that the property depends on that code.

## 3. How the models correspond to the code

### Checkout

State: `cart`, `stock`, `active`, `orders`, `payments` are the tables (prices, amounts
and transaction ids left out); `session` is what the provider knows of each payment;
`request` is what each web worker is in the middle of; `due` are the payments whose
`expires_at` has passed; `expiring` the payments that an expiry task has picked.

* **Steps.** A handler that keeps row locks while it calls the provider, or that uses a
  value read before its transaction takes a lock, is split at exactly those points.
  Every other handler takes its locks and commits in one step, enabled when all the rows
  it locks are free: nothing can be seen between its first lock and its commit. A handler
  that fails rolls back, so it is a step that changes nothing and needs no action.
* **`initiate_from_cart`**: `InitiateStart` (snapshot of the `SELECT … FOR UPDATE`),
  `InitiateLock` (rows re-evaluated once they are free, their open payments updated, the
  cart read), `InitiateCommit` (the session exists, everything commits). `Abort` is the
  provider's error, a dead worker or PostgreSQL's deadlock victim. `INITIATED` payments
  are never committed alone, because the same transaction sets `PENDING`.
* **`resume`**: `ResumeStart` (the view's unlocked read), `ResumeUpdate`, `ResumeLock`,
  `ResumeCommit`. The new payment's foreign key needs a key-share lock on the order, so
  `ResumeCommit` waits while another request holds the order FOR UPDATE.
* **`verify`, `confirm`**: the provider's answer is kept in `request` and applied by
  `ApplyReply` when the payment and order rows are free. `confirm` on bKash captures the
  money at the provider, and the answer may be lost (`Abort`).
* **`Webhook(p, e)`** may fire for any event that `parse_webhook` lets through (`Accepted`), any
  number of times: notifications are repeated, delayed and reordered by the provider. With a
  webhook secret these are the events that the session's state justifies, since only the provider
  can sign. `Unsigned` are the providers whose secret is left at its default, `""`: bKash's signature is
  then not looked at (`strategies/bkash.py:178-183`) and Stripe's is made with the empty key, so
  every event passes, whatever the session is.
* **Simulation** is decided by each strategy for itself (`FakeEnabled`, the constant `Simulated`).
  What it simulates is `initiate` (`NewSession`: a session no provider knows), `verify` and
  `confirm`, which then answer with success; `parse_webhook` does not look at it.
* **`_apply_result`** is `ApplyResult`, shared by verify, confirm, webhook, abandon and
  expire, with `SettleOrder` (the order branch) and `SettleDeferred`
  (`create_paid_order`, for payments without an order). A success that cannot be settled
  is rolled back.
* **Expiry**: `Deadline` passes the timeout; `CountdownFires` and `Sweep` pick payments;
  `Expire` locks the row and decides; `WorkerRestart` loses what was picked. A countdown may
  fire never, once or again.
* **Staff**: `PatchOrderStatus` writes a status; `EditProduct`/`SaveProduct` read a
  product and later save the whole row (edits of the status only).
* `Endpoints` selects the endpoints that an instance exercises;
  `LegacyRows` are payments without an order, which only older data has.

### RowLocks

`stock`, `orders`, `payments` are committed rows; `tx` is the transaction of each worker,
with the locks that it has still to take (`todo`), in order, and what it will write; `locks`
are those it holds. One action is one lock granted and what the code does with the row it
then reads (`SettlePayment`, `SettleOrder`, `SettleProduct`, `SupersedeOrder`,
`CancelPayment`, …); a commit writes everything at once and releases. READ COMMITTED reads a
row again when its lock is granted, which is why each of these actions looks at the status
after the lock, as the code does. What a transaction writes earlier than its commit is
kept in `tx`, since nobody else sees it. A new order's and a new payment's foreign keys are
checked at the commit (Django's constraints are deferred) with a key-share lock
(`CheckReference`); a deletion checks at its commit that no item has come (`CommitDelete`).
The `UPDATE` of open payments locks them in whatever order the plan finds them, the
`SELECT … FOR UPDATE` of orders by `Order.Meta.ordering`, an order's products by the order of
its items. `DeadlockVictim` rolls one transaction of a cycle back; `Fail` is any error or
dead worker. Provider calls, carts and the deferred flow are left to `Checkout`; a status
that no lock depends on (inactive products, staff edits) as well. Failed and canceled payments are
one status here, `closed`, for nothing that takes a lock tells them apart; so `Expire` stands for
`abandon` too, which differs from `expire` in what it makes of a payment that is closed already.
`Resume` reads the order and finds the open payments in one step (`Checkout` has the view's read
apart).

### Accounts and Startup

`users` is a function from emails to accounts, which is the unique constraint;
`registration` the email that a worker has checked and is about to insert. An email has an
address and a spelling, for `email__iexact` compares addresses, the constraint spellings.

`boot` is how far each container has got: the row it is seeding (`row`: the admin, the nodes
of the category tree in order, the products), the statement of `get_or_create` it is at
(`get`, `create`, `again`, and `password` for the admin), and the ids of the categories it
has found or made. `Refused` is an `IntegrityError`, after which Django looks again
(`Again`); what it then does not find, or finds twice, is an exception, and `set -e` ends the
container. The three constraints on categories are `Allowed`. `Crash` stops a container
anywhere. `Start` is whoever runs `docker compose up`: nothing starts a container again by itself
(`docker-compose.yml:22-36` has no restart policy). Staff work through a container that is up. Seeded slugs are pairs of a name and a
parent's id, as `slugify` keeps the sample tree's names apart; `writer` remembers who wrote
a row last and is read by properties only, as are the counters `crashes` and `edits`, which also
bound the instance.

### Cart

`lines` are the committed rows by primary key (never reused), `writes` the uncommitted
row versions of each transaction, which are its row locks. `Look` reads the line of a
product as the request sees it; `Insert`, `Update`, `Delete` write it, waiting for
whoever has written the row (or, for an insert, a row of the product: the unique
constraint); `Commit` publishes. `add_to_cart`, `set_quantity` and `merge_items` share
these steps and differ in `NewQuantity`, in `AssertStock` and in how they meet a line
inserted by somebody else (`get_or_create` gets it, `merge_items` fails).
`save(update_fields=…)` of a row that is gone updates nothing, and Django raises: the
request is rolled back. Clears and removals find their rows in one statement and lock
them one by one. `ActiveItems` is the loop of `merge_items` that reads the products of the guest
cart and passes over those that are not active. `DeadlockVictim` is PostgreSQL's deadlock
detector.

### Catalog

`rows` is the parent column of every category, `cache` the Redis entry. PostgreSQL is in
autocommit: the API's save commits before its signal (`Save`, `Invalidate`), while a
delete runs in a transaction of Django's Collector that commits after its signals
(`DeleteRows`, `DeleteCommit`). An edit reads, then saves the whole row, and re-inserts a
row that was deleted meanwhile. `Rebuild` and `CacheSet` are the two halves of
`get_category_tree`; `Climb` is one turn of the loop of `recommended_products`, a query
each. `DescendantIds` is the explicit-stack traversal: `Loop` are the states of its loop (the
stack, and `ordered`, whose members are those of `seen`), `Turn` is one turn, and a recursive
function over `Loop` takes turns until the stack is empty. Numbers stand for the order of the
names. The cascade of a delete is collected in one step. `late` is a history variable that no action
reads: set when a reader caches a tree that is not the table's or that a deletion under way is about to
change, or a worker dies between its save and the signal, and cleared when the cache is emptied or filled anew.

## 4. Runs

`PROJECT.json` names the module, cfg and properties of each run.

| Run | Instance | Asks |
|---|---|---|
| `supersede` | 1 customer, 2 orders and payments, 2 workers, Stripe; initiate, verify, cancel, cart | do row locks protect superseding checkouts from notifications and from one another: `LocksHold`, `SucceededIsPaid`, `PaidStaysPaid`, and `SoldOnce` (refinement of `OrderLedger`) |
| `resume` | 1 order, 2 payments, 2 workers, both providers, signed; resume, verify, confirm, cancel, expiry | `CompletedIfPaid`; `SucceededUntilAnswer`: no expiry or cancel overtakes a success |
| `simulated` | all customer endpoints but cancel, 2 products, a payment of the deferred flow, 1 worker; bKash simulated and without a secret, Stripe real | `SucceededIsPaid`, `SoldOnce` where success is the rule and the order may not exist yet; `CompletedIfPaid`: none of it spills over to Stripe |
| `liveness` | initiate, cart, cancel, expiry; 1 worker; fairness | `StaleExpires`, `CapturedIsHonoured` |
| `staff` | initiate, cart, cancel with staff order and product edits, 2 workers | `TypeOK`, `LocksHold`, `SucceededUntilAnswer` also with staff |
| `cart` | 2 products, two units of one and one of the other, 2 line ids, 2 workers, guest carts in both orders | `Honoured`, `RemovedStaysRemoved`, `WithinStock`, `RequestsEnd`, `TypeOK` |
| `catalog` | 3 categories, a staff and a reader worker, lost signals | `TraversalExact`, `PreOrder`, `StaleOnlyIfLate`, `RecommendationEnds`, `TypeOK` |
| `rowlocks` | 2 products (one there at first, one created), 2 orders listing both in either order, 2 payments, 2 workers; fairness | `SoldOnce` when products are locked and reduced one by one; `ItemsKept`; `ExpiryNeverDeadlocked`; `TransactionsEnd` |
| `startup` | 2 containers, a root with a category and a product, 2 registrations of the admin's address in 2 spellings, 2 crashes, 1 edit; fairness | `OneAccountPerAddress`, `RegistrationsKept`, `SeededOnce`, `FailsByEditsOnly`, `UpIsSeeded`, `ComesUp`, `TypeOK` |
| `final`, `canceled`, `productedit` | minimal | each is violated: see section 7 |

Bounds, and why they suffice. *Two workers*: every race here is between two requests,
or a request and a notification or task, which are steps of their own and not bounded by
workers. *Two orders and two payments of one customer*: the code never relates rows of
two customers except through stock, and a superseded order with its successor is the
smallest pair that competes for a unit. *One unit of stock*: scarcity is where selling
can go wrong. *Two products* where the partial failure of several lines, or lock order,
matters. In `cart` a second unit of one product lets an increment of a line pass the check.
*Two line ids*: a line for each product, or one that is inserted again after a removal while
another request still has the old one in hand; the request that finds no id left fails, which the
code's requests may do as well. *Answers*: in `rowlocks` every answer is a success, the only one that locks more than
a payment; the other results are in the runs of `Checkout`. A transaction that finds no id left
is refused, after it has taken its locks. `TransactionsEnd` is checked for one worker, as nothing
tells the two apart. *One edit, two crashes*: one edit can make a boot fail, and two crashes
leave rows of two unfinished boots; with more edits only the state space grows. The category
ids are enough for one deletion of the whole tree. That `startup` rests when the bounds
are used up is why it does not check deadlock. *Three categories*: siblings, chains, and cycles of one to three. Only ids and
quantities are bounded; the clock, notifications, retries and restarts are not. Symmetry
is used for the two workers, in runs without liveness only.

`LocksHold` is about state that exists only while requests wait, so the two-worker runs
carry it. `SoldOnce`, `SucceededIsPaid`, `PaidStaysPaid` are stated without staff edits
of orders: staff may write any status, and a paid order set back to pending can be sold
again.

## 5. Fairness

`Checkout!Fairness`: a request ends (provider clients and workers have timeouts, and
`Abort` is an end); beat runs the sweep as long as it would find something; an expiry task
that is picked again and again gets its row in the end (strong, since requests may hold
the row in between; PostgreSQL queues waiters); workers are not restarted for ever; a
provider repeats a success until it is accepted (strong, for the same reason). Nothing is
assumed of customers, staff, countdowns, or other notifications.

`RowLocks!Fairness`: a worker goes on, and PostgreSQL grants a lock to its waiters in turn
(strong); deadlocks are detected. `Startup!FairSpec`: a container that is
seeding goes on. Nothing is assumed to start it, the first time or again. `Cart!Fairness`: a request
goes on, strongly, since it may have to queue for a row; deadlocks are detected.
`Catalog!Fairness`: a recommendation goes on.

## 6. Proofs

`CheckoutProofs.tla` proves, for any users, products, ids, providers, stock and endpoints,
from `CheckoutAssumption` (ids are naturals, `None` is none of them, legacy payments are
pending and without an order):

| Theorem | Statement | Extra hypothesis |
|---|---|---|
| `CheckoutTyped` | `TypeOK` | none |
| `Invariance` | `TypeOK`, `References` and `LocksHold` always hold | none: staff endpoints and simulation mode included |
| `SucceededOrdersPaid` | `SucceededIsPaid` | no `admin_orders` |
| `PaidOrdersStayPaid` | `PaidStaysPaid` | no `admin_orders` |
| `SucceededLeftOnAnswer` | `SucceededUntilAnswer` | none |
| `CheckoutImplementsLedger` | `SoldOnce`: `Checkout` implements `OrderLedger` | no `admin_orders`, no `products` |
| `PaidOrdersCompleted` | `CompletedIfPaid` | no `admin_orders` |

The argument. `Inv == TypeOK /\ References /\ LocksHold` is inductive: `LocksHold` says
what a waiting request may still rely on when it commits, and it needs `References` for
the rows a request names (a row that is allocated while the request waits would otherwise
be one of them) and `TypeOK` for the shapes. There is one lemma per action, and one
(`ApplyResultInv`) for the result of verify, confirm, webhooks, abandon and expire, which
all end in `ApplyResult`. With `Inv` at hand, `StepKinds` reduces every step to four kinds
as far as orders, payments and stock are concerned: nothing of them changes, a checkout
supersedes, a checkout is resumed, or a result is applied for a cause (an answer, a
notification, an expiry or a cancel of a payment that was not succeeded). The other
theorems are case splits over those kinds. `SucceededIsPaid` is inductive beside `Inv`
because of `LocksHold`: a superseding request cancels only orders that are still pending,
so never one whose payment has succeeded meanwhile. `CompletedIfPaid` needs one more part,
`AnswersHonest`: an answer of success that a request still carries was given for a payment that
is `Backed`, by a session the customer had completed or by a provider that the property excepts
by name. A provider that is simulated or has no webhook secret thus makes exceptions of its own
payments only, whatever the other one is.

`StartupProofs.tla` proves, for any number of containers and registrations, any addresses, tree
of categories and samples, and any bounds, from `AccountsAssumption` and `StartupAssumption`
(ids are naturals; `Null`, `NoRow`, `Gone` are distinct from them and from rows; a node of the
tree comes after its parent; a sample names a node):

| Theorem | Statement |
|---|---|
| `StartupTyped` | `TypeOK`, with the constraints of the category table |
| `OneAccount` | `OneAccountPerAddress` |
| `NoneSeededTwice` | `SeededOnce` |
| `RegistrationsSurvive` | `RegistrationsKept` |
| `OnlyEditsFail` | `FailsByEditsOnly` |
| `UpHasAll` | `UpIsSeeded` |

The argument. The inductive invariant adds to `TypeOK` that only lower-case emails are
inserted or about to be (`LowerOnly`), that a boot about to set a password has its own
account before it (`OwnAdmin`), that a boot knows the ids of the categories before its row
(`Lengths`, without which a parent's id might be missing), and that a row a boot wrote has the slug
of its name and parent (`OwnSlugs`). `OneAccountPerAddress` follows from `LowerOnly`;
`SeededOnce` from `OwnSlugs` and the uniqueness of slugs in `TypeOK`, since the constraint on
names says nothing of roots. `DeleteCategoryInv` shows that the cascade leaves no category
without its parent.

`FailsByEditsOnly` and `UpIsSeeded` need a second invariant beside that one, `Undisturbed`: as
long as the staff have edited nothing, every category there is was written by a boot, and each
boot has in the tables all that it has passed (`Done`: its ids are those of the tree's nodes, each
under its parent; the admin; the samples) as well as the row that it looks for again after a
constraint refused it (`Present`). The last part is why no boot fails: boots write the same
rows, so what refused the insert is what the second look finds (`Again`). `Grow` says that
steps other than edits only add rows, hence what one boot has passed stays there while the
others, crashed or not, go on (`OneBoot`).

`RowLocksProofs.tla` proves, for any number of workers, products, orders and payments, from
`RowLocksAssumption` (ids are naturals, a cart has a line for a product at most, stock starts
as naturals, the answers are payment statuses, and the constants for no row are no ids):

| Theorem | Statement |
|---|---|
| `RowLocksTyped` | `TypeOK`, with the compatibility of the locks held |
| `ItemsAlwaysKept` | `ItemsKept` |
| `ExpirySafe` | `ExpiryNeverDeadlocked` |
| `RowLocksImplementsLedger` | `SoldOnce`: `RowLocks` implements `OrderLedger` |

The argument. `Inv` adds to `TypeOK` what is true of the rows (`RowsSound`: a payment's order
and an order's products are there, and a product that no order lists was never sold, hence
its deletion takes no sale away) and, for each transaction by itself, what it may rely on given the locks it holds
(`Sound`): one that settles an order holds that order, has the lock of every product that it has
reduced, and what it is going to write is the committed stock less the order's lines, because
nobody else can write a row under its lock. A step changes one transaction and, at a commit,
rows under its locks, so the others' `Sound` survives by the compatibility in `TypeOK`
(`Preserves`, `Free`). `ItemsKept` is where the deferred foreign keys bite: an order commits with
key-share locks on its products, and a deletion holds its product FOR UPDATE and looks for items
at its commit, so one of the two waits. `ExpirySafe` follows from `First`: an expiry that waits
holds nothing. For the refinement, the ledger's stock of a product that has been deleted is what it
had at the start, and only the commit of a settled order is a step of the ledger; all other
actions are shown to stutter (`LeftAlone`).

`CartProofs.tla` proves, for any number of requests, products and line ids and any guest
carts, from `CartAssumption` (ids are naturals; `None`, `Unborn`, `Gone` are distinct from them
and from lines; guest carts are sequences of lines):

| Theorem | Statement |
|---|---|
| `CartTyped` | `TypeOK`, with one line for a product |
| `NeverBeyondStock` | `WithinStock` |
| `NeverBroughtBack` | `RemovedStaysRemoved` |
| `AnswersHonoured` | `Honoured` |

The argument. `Inv` says of what a request has written and not committed (its `writes`, which
are its locks) that it fits the committed lines (`Fits`: put over them it leaves one line for
a product, none back that was removed), that two requests have written apart (`Apart`:
different rows and different products, which is the unique constraint while both inserts are
uncommitted), and of each request that its place among its items, the line it looked up and the
quantity it is about to save agree (`Sound`). `Fulfilled` is the core of `Honoured`: every item the
request has gone past is written with the quantity asked for, and stays so, since nobody else can
write that row. `WithinStock` follows from what a request writes being within the stock that it has read (`Planned`,
`Allowed`), even when the line that it increments was read without a lock.

`CatalogProofs.tla` and `TraversalProofs.tla` prove, for any finite set of categories and any
table of them at the start whose parents exist, and any number of workers, from `CatalogAssumption`:

| Theorem | Statement |
|---|---|
| `CatalogTyped` | `TypeOK`: with the foreign key of `Category.parent`, and climbs that go on only from rows they found |
| `StaleTreesExplained` | `StaleOnlyIfLate` |
| `TraversalAlwaysExact` | `TraversalExact` |
| `TraversalAlwaysPreOrder` | `PreOrder` |

The argument for the traversal is about tables, cycles included, and not about how staff come to
them. The library's induction theorems take an operator as a parameter and are no use to the
installed provers; instead `Least` takes a least element of a set of counterexamples, from the well-foundedness
of `<` on the naturals. `LoopEnds`: a loop whose turns decrease a measure has a function of results,
so the CHOOSE behind `traverse` denotes one. `Measure` is that measure here: each turn sees a
category that was unseen, or shortens the stack (`TurnGoesDown`), hence `TraversalEnds`; `Along` then
carries an invariant of `Turn` to the result. `Exact` is the invariant for exactness: nothing is in
`ordered` twice, all that is found is below the root, and the children of what is in `ordered` are
found. Pre-order is harder, as it compares places. With the edge into the root cut there is no cycle
(`CutEdges`, `NoCycle`) and the subtrees of two siblings are `Disjoint`; `FromParent` says that what is
on the stack or in `ordered` came from a parent in `ordered`, and `AllInOrder` that of two siblings the
later one by name lies deeper in the stack than anything below the first, and comes after it in
`ordered`. `PushInOrder` and `PopInOrder` are the two ways a turn goes on. That a category comes
before all below it is `ParentsFirst`, which holds since a category is appended to `ordered` when its
parent is there (`AppendAfterParent`), and from parent to parent `AncestorsFirst`: the first
category that came before one it lies below would have a parent that came earlier still.

Only model-checked: the liveness properties (`StaleExpires`, `CapturedIsHonoured`, `RequestsEnd`,
`RecommendationEnds`, `TransactionsEnd`, `ComesUp`), since TLAPS proves neither
liveness under fairness nor facts about ENABLED. That the loop of the traversal ends is proved all
the same, as it is one value and no behaviour.

## 7. Where the code and its documents disagree

Each run below checks one sentence of the repository and finds a behaviour against it;
`PROJECT.json` has the quotations and the lines.

* `final` — "Terminal payment states … must never be transitioned again": an older answer
  of verify overwrites a success, since `_apply_result` assigns the status in any case.
* `canceled` — canceling open payments first "so a lost countdown/webhook can't later flip
  the now-cancelled order": a notification of the canceled payment marks the canceled
  order paid.
* `productedit` — "all writes that touch stock run inside atomic, row-locked transactions":
  a staff update saves the stock it read, and sold units are sold again.

Seen while modelling, and not stated as runs: `README.md:27` and `README.md:68` have notifications
verified, but without a webhook secret, which is the default (`config/settings.py:212`, `223`), bKash's
are accepted as they come (`strategies/bkash.py:178-183`; `tests/test_webhooks.py:18-34` pays an order so), hence the
exception that `CompletedIfPaid` names; a completed Stripe session of a delayed
payment method counts as success before the money is captured (`strategies/stripe.py:179`);
a reader that built the category tree before a write caches it after the invalidation
(`products/services.py:45`, against `README.md:20`); registration puts the address in lower
case (`users/serializers.py:25`) and login looks for it as it is written, so that who
registers with capitals cannot log in with them; `createsuperuser` (`users/managers.py:23`)
inserts the spelling it is given and can add a second account to an address; a container that
dies between the two saves of `seed_admin` leaves an admin without a password, for good; a
seeded category that staff rename but whose slug they keep makes every later boot fail, and
deleted samples come back at every boot, not the first only (`README.md:129`); two initiates that start together both stay
pending (`service.py:77` means to prevent it); `docs/payment-flows.md:14` has initiate pay
an order that initiate in fact cancels; two `add_to_cart` calls can lose an increment;
`checkout_cart` clears lines added after it read the cart, and two checkouts at once order
the cart twice; the comment in `payments/models.py:22` still describes the deferred flow.

## 8. What is not modelled

* Waits for row locks in `Checkout` are steps taken when the rows are free, and deadlocks there
  are only their outcome, `Abort`; `RowLocks` has both, for one customer, without provider
  calls, carts, the deferred flow and staff edits. Two customers meet in products only.
* `process_webhook_event` and `send_order_confirmation_email` are enqueued by nothing; the first
  would apply the same result as `Webhook`.
* Prices, totals, amounts, currencies, names, slugs, tokens, URLs; of signatures, all but whether
  they are checked.
* Creation of the cart row; cart lines that go with a deleted product; deletion of users, for
  which there is no endpoint; `createsuperuser`.
* Listing and detail views, filters, serializers' formatting, permissions, pagination,
  health, tokens: they change no state that the properties speak of.
* The Django admin, which can write any field; settings.
* `makemigrations` and `migrate` (`entrypoint.sh:18-19`), which run before the seeders at every boot:
  two containers that boot first, on an empty database, can make each other fail there, and `set -e` ends
  the one that does. `Startup` begins with the tables there; what `FailsByEditsOnly` and `ComesUp` say is
  of boots that have come to the seeders.

## 9. Plan

Done, in the order of importance: the core (`Strategies`, `OrderLedger`, `Checkout`) with
its proofs; `Cart`, `Catalog`, `RowLocks`, `Accounts` and `Startup`; the proofs of every safety
property of each of them. Next: that `Checkout` never sells more of a product than there was
without staff edits, as a sum over orders: an invariant of `OrderLedger`, from which `Checkout` and
`RowLocks` have it by the refinements.
