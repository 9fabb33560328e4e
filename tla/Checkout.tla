------------------------------ MODULE Checkout ------------------------------
(***************************************************************************)
(* Checkout and payment: PaymentService and its strategies, the order      *)
(* services, the payment, order and webhook views, the Celery expiry tasks *)
(* and, as the environment, customers, providers, staff and the clock.     *)
(*                                                                         *)
(* The database is PostgreSQL at READ COMMITTED.  A handler that holds row *)
(* locks while it calls the provider (initiate_from_cart, resume), or that *)
(* carries a value read before its transaction takes a lock (confirm,      *)
(* verify, resume's order check, a staff product edit), runs in several    *)
(* steps on a process of Requests; any other handler takes its locks and   *)
(* commits in one step, taken when every row it locks is free.  A handler  *)
(* that fails rolls back: it is a step that changes nothing.               *)
(*                                                                         *)
(* A definition marked "Bug variant" is no part of the specification: it   *)
(* is the definition below it with a mistake, kept to show that a property *)
(* notices the mistake.                                                    *)
(***************************************************************************)
EXTENDS Integers, Strategies
LOCAL INSTANCE FiniteSets
LOCAL INSTANCE FiniteSetsExt

CONSTANTS
  Users,
  Products,
  OrderIds,           \* order primary keys, allocated in increasing order
  PaymentIds,         \* payment primary keys, allocated in increasing order
  Providers,          \* the providers customers use
  Requests,           \* web workers: one request at a time each
  InitialStock,       \* Product.stock at the start
  MaxQuantity,        \* bound: units of a product in one cart or order line
  LegacyRows,         \* payments of the deferred flow (order NULL), by id
  Endpoints,          \* the endpoints and tasks this instance exercises
  Simulated,          \* providers whose _fake_enabled() holds
  Unsigned,           \* providers whose webhook secret is empty
  None                \* SQL NULL

\* A cart's or an order's lines: the units of each product
Items == [Products -> 0..MaxQuantity]
Nothing == [p \in Products |-> 0]

OrderStatus == {"pending", "paid", "canceled"}
OpenStatuses == {"initiated", "pending"}
FinalStatuses == {"succeeded", "failed", "canceled"}     \* _FINAL_STATUSES

\* Rows that are not there yet have status "none"
NoOrder == [status |-> "none", user |-> None, items |-> Nothing]
NoPayment == [status |-> "none", order |-> None, user |-> None,
              provider |-> None, snapshot |-> Nothing]

\* Staff may write an order's status, and a product's, by hand
StaffEndpoints == {"admin_orders", "products"}
AllEndpoints == {"initiate", "resume", "verify", "confirm", "cancel", "expiry",
                 "orders", "cart_checkout", "cart"} \union StaffEndpoints

OrderRow == [status : OrderStatus, user : Users, items : Items \ {Nothing}]
PaymentRow == [status : PaymentStatus, order : OrderIds \union {None}, user : Users,
               provider : Providers, snapshot : Items]

ASSUME CheckoutAssumption ==
  /\ OrderIds \subseteq Nat /\ PaymentIds \subseteq Nat
  /\ Providers \subseteq PaymentProvider
  /\ MaxQuantity \in Nat
  /\ InitialStock \in [Products -> Nat]
  /\ Simulated \subseteq Providers /\ Unsigned \subseteq Providers
  /\ Endpoints \subseteq AllEndpoints
  /\ None \notin Users /\ None \notin OrderIds /\ None \notin Providers
  /\ DOMAIN LegacyRows \subseteq PaymentIds
  /\ \A p \in DOMAIN LegacyRows :
       LegacyRows[p] \in PaymentRow /\ LegacyRows[p].status = "pending"
                                    /\ LegacyRows[p].order = None

VARIABLES
  cart,               \* CartItem rows: user -> lines
  stock,              \* Product.stock
  active,             \* Product.status = ACTIVE
  orders,             \* Order and OrderItem rows
  payments,           \* Payment rows
  session,            \* the provider's session behind each payment
  request,            \* what each web worker is in the middle of
  due,                \* payments whose expires_at is past
  expiring            \* payments a Celery worker has picked to expire

vars == <<cart, stock, active, orders, payments, session, request, due, expiring>>

-----------------------------------------------------------------------------
(***************************************************************************)
(* What a request is in the middle of.  The row locks of the transactions  *)
(* in progress are read off it.                                            *)
(***************************************************************************)
Idle == [op |-> "idle"]

Request ==
  {Idle}
  \union [op : {"supersede"}, user : Users, orders : SUBSET OrderIds]
  \union [op : {"initiate"}, user : Users, orders : SUBSET OrderIds,
          payments : SUBSET PaymentIds, items : Items \ {Nothing}]
  \union [op : {"resume"}, order : OrderIds]
  \union [op : {"reopen"}, order : OrderIds, payments : SUBSET PaymentIds]
  \union [op : {"reinitiate"}, order : OrderIds, payments : SUBSET PaymentIds]
  \union [op : {"reply"}, payment : PaymentIds, status : PaymentStatus]
  \union [op : {"edit"}, product : Products, stock : Nat, active : BOOLEAN]

\* Bug variant: the supersede query without select_for_update
HeldForUpdateNever(o) == FALSE

\* SELECT ... FOR UPDATE on the order
HeldForUpdate(o) == \E r \in Requests : request[r].op = "initiate" /\ o \in request[r].orders

\* Bug variant: open payments canceled after the commit instead of within it
PaymentHeldNever(p) == FALSE

\* An uncommitted UPDATE of the payment
PaymentHeld(p) ==
  \E r \in Requests : request[r].op \in {"initiate", "reinitiate"} /\ p \in request[r].payments

PendingOrders(u) == {o \in OrderIds : orders[o].status = "pending" /\ orders[o].user = u}

OpenPayments(os) ==
  {p \in PaymentIds : payments[p].status \in OpenStatuses /\ payments[p].order \in os}

\* The next primary keys
NextOrder(o) ==
  orders[o].status = "none" /\ \A i \in OrderIds : i < o => orders[i].status # "none"
NextPayment(p) ==
  payments[p].status = "none" /\ \A i \in PaymentIds : i < p => payments[i].status # "none"

\* Bug variant: no check of stock
EnoughUnchecked(items) == TRUE

Enough(items) == \A p \in Products : items[p] <= stock[p]
AllActive(items) == \A p \in Products : items[p] > 0 => active[p]

\* The checks of snapshot_cart, and of the order serializer with create_order
Orderable(items) == items # Nothing /\ AllActive(items) /\ Enough(items)

\* Bug variant: one switch for all strategies
FakeEnabledAny(provider) == Simulated # {}

\* Strategy._fake_enabled
FakeEnabled(provider) == provider \in Simulated

\* The session behind a payment that a strategy has initiated
NewSession(provider) == IF FakeEnabled(provider) THEN "simulated" ELSE "open"

\* create_order's row
PendingOrder(u, items) == [status |-> "pending", user |-> u, items |-> items]

Take(items) == [p \in Products |-> stock[p] - items[p]]
-----------------------------------------------------------------------------
Init ==
  /\ cart = [u \in Users |-> Nothing]
  /\ stock = InitialStock
  /\ active = [p \in Products |-> TRUE]
  /\ orders = [o \in OrderIds |-> NoOrder]
  /\ payments = [p \in PaymentIds |->
                   IF p \in DOMAIN LegacyRows THEN LegacyRows[p] ELSE NoPayment]
  /\ session = [p \in PaymentIds |->
                   IF p \in DOMAIN LegacyRows THEN NewSession(LegacyRows[p].provider) ELSE "none"]
  /\ request = [r \in Requests |-> Idle]
  /\ due = {}
  /\ expiring = {}

(***************************************************************************)
(* POST /payments/initiate: PaymentService.initiate_from_cart.             *)
(***************************************************************************)
\* The SELECT FOR UPDATE of the user's pending orders takes its snapshot
InitiateStart(r, u) ==
  /\ request[r] = Idle
  /\ request' = [request EXCEPT ![r] =
                   [op |-> "supersede", user |-> u, orders |-> PendingOrders(u)]]
  /\ UNCHANGED <<cart, stock, active, orders, payments, session, due, expiring>>

\* It has waited for the rows and re-evaluated them; their open payments are
\* updated, the cart is read and the new order passes its checks
InitiateLock(r) ==
  /\ request[r].op = "supersede"
  /\ \A o \in request[r].orders : ~HeldForUpdate(o)
  /\ LET user  == request[r].user
         stale == {o \in request[r].orders : orders[o].status = "pending"}
     IN /\ \A p \in OpenPayments(stale) : ~PaymentHeld(p)
        /\ Orderable(cart[user])
        /\ request' = [request EXCEPT ![r] =
                         [op |-> "initiate", user |-> user, orders |-> stale,
                          payments |-> OpenPayments(stale), items |-> cart[user]]]
  /\ UNCHANGED <<cart, stock, active, orders, payments, session, due, expiring>>

\* The provider has opened a session and the transaction commits
InitiateCommit(r, provider) ==
  /\ request[r].op = "initiate"
  /\ \E o \in OrderIds, p \in PaymentIds :
       /\ NextOrder(o) /\ NextPayment(p)
       /\ orders' = [x \in OrderIds |->
            IF x = o THEN PendingOrder(request[r].user, request[r].items)
            ELSE IF x \in request[r].orders THEN [orders[x] EXCEPT !.status = "canceled"]
            ELSE orders[x]]
       /\ payments' = [x \in PaymentIds |->
            IF x = p THEN [status |-> InitiateStatus(provider), order |-> o,
                           user |-> request[r].user, provider |-> provider,
                           snapshot |-> request[r].items]
            ELSE IF x \in request[r].payments THEN [payments[x] EXCEPT !.status = "canceled"]
            ELSE payments[x]]
       /\ session' = [session EXCEPT ![p] = NewSession(provider)]
  /\ request' = [request EXCEPT ![r] = Idle]
  /\ UNCHANGED <<cart, stock, active, due, expiring>>

(***************************************************************************)
(* POST /payments/resume: PaymentResumeView and PaymentService.resume.     *)
(***************************************************************************)
\* The view reads the order and checks it; resume and initiate check the
\* same in-memory object again
ResumeStart(r, o) ==
  /\ request[r] = Idle
  /\ orders[o].status = "pending"
  /\ request' = [request EXCEPT ![r] = [op |-> "resume", order |-> o]]
  /\ UNCHANGED <<cart, stock, active, orders, payments, session, due, expiring>>

\* The UPDATE of the order's open payments takes its snapshot
ResumeUpdate(r) ==
  /\ request[r].op = "resume"
  /\ request' = [request EXCEPT ![r] =
                   [op |-> "reopen", order |-> request[r].order,
                    payments |-> OpenPayments({request[r].order})]]
  /\ UNCHANGED <<cart, stock, active, orders, payments, session, due, expiring>>

\* It has waited for the rows and re-evaluated them
ResumeLock(r) ==
  /\ request[r].op = "reopen"
  /\ \A p \in request[r].payments : ~PaymentHeld(p)
  /\ request' = [request EXCEPT ![r] =
                   [op |-> "reinitiate", order |-> request[r].order,
                    payments |-> {p \in request[r].payments :
                                    payments[p].status \in OpenStatuses}]]
  /\ UNCHANGED <<cart, stock, active, orders, payments, session, due, expiring>>

\* The provider has opened a session; the commit checks the new payment's
\* deferred foreign key, which waits for a FOR UPDATE lock on the order
ResumeCommit(r, provider) ==
  /\ request[r].op = "reinitiate"
  /\ ~HeldForUpdate(request[r].order)
  /\ \E p \in PaymentIds :
       /\ NextPayment(p)
       /\ payments' = [x \in PaymentIds |->
            IF x = p THEN [status |-> InitiateStatus(provider), order |-> request[r].order,
                           user |-> orders[request[r].order].user, provider |-> provider,
                           snapshot |-> Nothing]
            ELSE IF x \in request[r].payments THEN [payments[x] EXCEPT !.status = "canceled"]
            ELSE payments[x]]
       /\ session' = [session EXCEPT ![p] = NewSession(provider)]
  /\ request' = [request EXCEPT ![r] = Idle]
  /\ UNCHANGED <<cart, stock, active, orders, due, expiring>>

\* A request ends without effect: a PaymentError, a failed check, a deadlock
\* victim, a worker that dies; the transaction rolls back
Abort(r) ==
  /\ request[r] # Idle
  /\ request' = [request EXCEPT ![r] = Idle]
  /\ UNCHANGED <<cart, stock, active, orders, payments, session, due, expiring>>

(***************************************************************************)
(* PaymentService._apply_result: the payment is locked and its status      *)
(* overwritten; a first success also settles the order and empties the     *)
(* cart.  When stock is short the whole transaction rolls back, so there   *)
(* is no step.                                                             *)
(***************************************************************************)
\* Bug variant: "if order.status == PENDING" for "!= PAID"
SettleOrderPendingOnly(p) ==
  LET o == payments[p].order IN
  /\ o # None
  /\ ~HeldForUpdate(o)
  /\ \/ /\ orders[o].status # "pending"
        /\ UNCHANGED <<orders, stock>>
     \/ /\ orders[o].status = "pending"
        /\ Enough(orders[o].items)
        /\ stock' = Take(orders[o].items)
        /\ orders' = [orders EXCEPT ![o].status = "paid"]
  /\ payments' = [payments EXCEPT ![p].status = "succeeded"]

\* Bug variant: the shortage of stock is caught and the payment saved all the same
SettleOrderDespiteShortage(p) ==
  LET o == payments[p].order IN
  /\ o # None
  /\ ~HeldForUpdate(o)
  /\ \/ /\ orders[o].status = "paid" \/ ~Enough(orders[o].items)
        /\ UNCHANGED <<orders, stock>>
     \/ /\ orders[o].status # "paid"
        /\ Enough(orders[o].items)
        /\ stock' = Take(orders[o].items)
        /\ orders' = [orders EXCEPT ![o].status = "paid"]
  /\ payments' = [payments EXCEPT ![p].status = "succeeded"]

\* The order was created with the payment: lock it, take its lines from
\* stock and mark it paid unless it already is
SettleOrder(p) ==
  LET o == payments[p].order IN
  /\ o # None
  /\ ~HeldForUpdate(o)
  /\ \/ /\ orders[o].status = "paid"
        /\ UNCHANGED <<orders, stock>>
     \/ /\ orders[o].status # "paid"
        /\ Enough(orders[o].items)                 \* reduce_stock_for_order
        /\ stock' = Take(orders[o].items)
        /\ orders' = [orders EXCEPT ![o].status = "paid"]
  /\ payments' = [payments EXCEPT ![p].status = "succeeded"]

\* Bug variant: the payment saved without its new order
SettleDeferredUnlinked(p) ==
  LET items == payments[p].snapshot IN
  /\ payments[p].order = None
  /\ Orderable(items)
  /\ \E o \in OrderIds :
       /\ NextOrder(o)
       /\ orders' = [orders EXCEPT ![o] =
                       [status |-> "paid", user |-> payments[p].user, items |-> items]]
       /\ payments' = [payments EXCEPT ![p].status = "succeeded"]
  /\ stock' = Take(items)

\* Bug variant: the paid order created without reduce_stock_for_order
SettleDeferredUnreduced(p) ==
  LET items == payments[p].snapshot IN
  /\ payments[p].order = None
  /\ Orderable(items)
  /\ \E o \in OrderIds :
       /\ NextOrder(o)
       /\ orders' = [orders EXCEPT ![o] =
                       [status |-> "paid", user |-> payments[p].user, items |-> items]]
       /\ payments' = [payments EXCEPT ![p].status = "succeeded", ![p].order = o]
  /\ UNCHANGED stock

\* The deferred flow: create_paid_order from the snapshot
SettleDeferred(p) ==
  LET items == payments[p].snapshot IN
  /\ payments[p].order = None
  /\ Orderable(items)
  /\ \E o \in OrderIds :
       /\ NextOrder(o)
       /\ orders' = [orders EXCEPT ![o] =
                       [status |-> "paid", user |-> payments[p].user, items |-> items]]
       /\ payments' = [payments EXCEPT ![p].status = "succeeded", ![p].order = o]
  /\ stock' = Take(items)

ApplyResult(p, s) ==
  /\ payments[p].status # "none"
  /\ ~PaymentHeld(p)
  /\ \/ /\ s # "succeeded" \/ payments[p].status = "succeeded"
        /\ payments' = [payments EXCEPT ![p].status = s]
        /\ UNCHANGED <<orders, stock, cart>>
     \/ /\ s = "succeeded" /\ payments[p].status # "succeeded"
        /\ SettleOrder(p) \/ SettleDeferred(p)
        /\ cart' = [cart EXCEPT ![payments[p].user] = Nothing]

(***************************************************************************)
(* GET /payments/{id}/verify and POST /payments/confirm: the provider is   *)
(* asked first, and its answer applied later.                              *)
(***************************************************************************)
Verify(r, p) ==
  /\ request[r] = Idle
  /\ payments[p].status # "none"
  /\ request' = [request EXCEPT ![r] =
                   [op |-> "reply", payment |-> p,
                    status |-> VerifyStatus(payments[p].provider, session[p],
                                           FakeEnabled(payments[p].provider))]]
  /\ UNCHANGED <<cart, stock, active, orders, payments, session, due, expiring>>

Confirm(r, p) ==
  /\ request[r] = Idle
  /\ payments[p].status # "none"
  /\ \E result \in ConfirmResults(payments[p].provider, session[p],
                                  FakeEnabled(payments[p].provider)) :
       /\ session' = [session EXCEPT ![p] = result.session]
       /\ request' = [request EXCEPT ![r] =
                        [op |-> "reply", payment |-> p, status |-> result.status]]
  /\ UNCHANGED <<cart, stock, active, orders, payments, due, expiring>>

ApplyReply(r) ==
  /\ request[r].op = "reply"
  /\ ApplyResult(request[r].payment, request[r].status)
  /\ request' = [request EXCEPT ![r] = Idle]
  /\ UNCHANGED <<active, session, due, expiring>>

\* POST /payments/webhooks/...: handle_webhook
Webhook(p, e) ==
  /\ e \in Accepted(payments[p].provider, session[p], payments[p].provider \in Unsigned)
  /\ ApplyResult(p, WebhookStatus(payments[p].provider, e))
  /\ UNCHANGED <<active, session, request, due, expiring>>

\* Bug variant: abandon without its check
AbandonUnchecked(p, s) ==
  /\ s \in {"failed", "canceled"}
  /\ ApplyResult(p, s)
  /\ UNCHANGED <<active, session, request, due, expiring>>

\* POST /payments/{id}/cancel: PaymentService.abandon
Abandon(p, s) ==
  /\ s \in {"failed", "canceled"}
  /\ payments[p].status # "succeeded"
  /\ ApplyResult(p, s)
  /\ UNCHANGED <<active, session, request, due, expiring>>

(***************************************************************************)
(* Expiry (payments/tasks.py).  A task reads the payment without a lock;   *)
(* PaymentService.expire locks it and looks again.                         *)
(***************************************************************************)
\* expire_pending_payment, when its countdown ends
CountdownFires(p) ==
  /\ p \in due
  /\ payments[p].status \notin FinalStatuses
  /\ expiring' = expiring \union {p}
  /\ UNCHANGED <<cart, stock, active, orders, payments, session, request, due>>

\* Bug variant: the sweep looks for INITIATED payments only
SweepInitiated ==
  LET stale == {p \in due : payments[p].status = "initiated"} IN
  /\ stale # {}
  /\ expiring' = expiring \union stale
  /\ UNCHANGED <<cart, stock, active, orders, payments, session, request, due>>

\* expire_stale_payments, run by beat: the query of one sweep
Sweep ==
  LET stale == {p \in due : payments[p].status \in OpenStatuses} IN
  /\ stale # {}
  /\ expiring' = expiring \union stale
  /\ UNCHANGED <<cart, stock, active, orders, payments, session, request, due>>

\* Bug variant: expire relies on the task's reading of the status
ExpireUnchecked(p) ==
  /\ p \in expiring
  /\ ~PaymentHeld(p)
  /\ expiring' = expiring \ {p}
  /\ ApplyResult(p, "failed")
  /\ UNCHANGED <<active, session, request, due>>

\* PaymentService.expire
Expire(p) ==
  /\ p \in expiring
  /\ ~PaymentHeld(p)
  /\ expiring' = expiring \ {p}
  /\ \/ /\ payments[p].status \in FinalStatuses
        /\ UNCHANGED <<cart, stock, orders, payments>>
     \/ /\ payments[p].status \notin FinalStatuses
        /\ ApplyResult(p, "failed")
  /\ UNCHANGED <<active, session, request, due>>

\* A Celery worker restarts and loses what it was doing
WorkerRestart ==
  /\ expiring # {}
  /\ expiring' = {}
  /\ UNCHANGED <<cart, stock, active, orders, payments, session, request, due>>

-----------------------------------------------------------------------------
\* POST /orders: create_order from the request's lines
CreateOrder(u, items) ==
  /\ Orderable(items)
  /\ \E o \in OrderIds :
       /\ NextOrder(o)
       /\ orders' = [orders EXCEPT ![o] = PendingOrder(u, items)]
  /\ UNCHANGED <<cart, stock, active, payments, session, request, due, expiring>>

\* POST /cart/checkout: checkout_cart
CheckoutCart(u) ==
  /\ Orderable(cart[u])
  /\ \E o \in OrderIds :
       /\ NextOrder(o)
       /\ orders' = [orders EXCEPT ![o] = PendingOrder(u, cart[u])]
  /\ cart' = [cart EXCEPT ![u] = Nothing]
  /\ UNCHANGED <<stock, active, payments, session, request, due, expiring>>

\* PATCH or DELETE of a cart line: set_quantity and remove_item
SetQuantity(u, product, quantity) ==
  /\ quantity # 0 => active[product] /\ quantity <= stock[product]
  /\ cart' = [cart EXCEPT ![u][product] = quantity]
  /\ UNCHANGED <<stock, active, orders, payments, session, request, due, expiring>>

\* PATCH /admin/orders/{id}: the status is written without a check
PatchOrderStatus(o, s) ==
  /\ orders[o].status # "none"
  /\ ~HeldForUpdate(o)
  /\ orders' = [orders EXCEPT ![o].status = s]
  /\ UNCHANGED <<cart, stock, active, payments, session, request, due, expiring>>

\* PATCH /products/{id} of the product's status: the row is read, changed in
\* memory, and saved whole
EditProduct(r, product, isActive) ==
  /\ request[r] = Idle
  /\ request' = [request EXCEPT ![r] =
                   [op |-> "edit", product |-> product,
                    stock |-> stock[product], active |-> isActive]]
  /\ UNCHANGED <<cart, stock, active, orders, payments, session, due, expiring>>

SaveProduct(r) ==
  /\ request[r].op = "edit"
  /\ stock' = [stock EXCEPT ![request[r].product] = request[r].stock]
  /\ active' = [active EXCEPT ![request[r].product] = request[r].active]
  /\ request' = [request EXCEPT ![r] = Idle]
  /\ UNCHANGED <<cart, orders, payments, session, due, expiring>>

\* External: the provider's session moves on
ProviderStep(p) ==
  /\ \E s \in ProviderMoves(payments[p].provider, session[p]) :
       session' = [session EXCEPT ![p] = s]
  /\ UNCHANGED <<cart, stock, active, orders, payments, request, due, expiring>>

\* The clock passes the payment's expires_at
Deadline(p) ==
  /\ payments[p].status # "none"
  /\ p \notin due
  /\ due' = due \union {p}
  /\ UNCHANGED <<cart, stock, active, orders, payments, session, request, expiring>>

-----------------------------------------------------------------------------
RequestStep(r) ==
  \/ /\ "initiate" \in Endpoints
     /\ \/ \E u \in Users : InitiateStart(r, u)
        \/ InitiateLock(r)
        \/ \E provider \in Providers : InitiateCommit(r, provider)
  \/ /\ "resume" \in Endpoints
     /\ \/ \E o \in OrderIds : ResumeStart(r, o)
        \/ ResumeUpdate(r)
        \/ ResumeLock(r)
        \/ \E provider \in Providers : ResumeCommit(r, provider)
  \/ "verify" \in Endpoints /\ \E p \in PaymentIds : Verify(r, p)
  \/ "confirm" \in Endpoints /\ \E p \in PaymentIds : Confirm(r, p)
  \/ ApplyReply(r)
  \/ /\ "products" \in Endpoints
     /\ \/ \E product \in Products, isActive \in BOOLEAN : EditProduct(r, product, isActive)
        \/ SaveProduct(r)
  \/ Abort(r)

PaymentStep(p) ==
  \/ \E e \in Event : Webhook(p, e)
  \/ "cancel" \in Endpoints /\ \E s \in FinalStatuses : Abandon(p, s)
  \/ "expiry" \in Endpoints /\ (Deadline(p) \/ CountdownFires(p) \/ Expire(p))
  \/ ProviderStep(p)

CustomerStep(u) ==
  \/ "orders" \in Endpoints /\ \E items \in Items : CreateOrder(u, items)
  \/ "cart_checkout" \in Endpoints /\ CheckoutCart(u)
  \/ /\ "cart" \in Endpoints
     /\ \E product \in Products, quantity \in 0..MaxQuantity : SetQuantity(u, product, quantity)

Next ==
  \/ \E r \in Requests : RequestStep(r)
  \/ \E p \in PaymentIds : PaymentStep(p)
  \/ \E u \in Users : CustomerStep(u)
  \/ /\ "admin_orders" \in Endpoints
     /\ \E o \in OrderIds, s \in OrderStatus : PatchOrderStatus(o, s)
  \/ "expiry" \in Endpoints /\ (Sweep \/ WorkerRestart)

Spec == Init /\ [][Next]_vars

-----------------------------------------------------------------------------
\* Every variable holds rows of its table's shape
TypeOK ==
  /\ cart \in [Users -> Items]
  /\ stock \in [Products -> Nat]
  /\ active \in [Products -> BOOLEAN]
  /\ orders \in [OrderIds -> OrderRow \union {NoOrder}]
  /\ payments \in [PaymentIds -> PaymentRow \union {NoPayment}]
  /\ session \in [PaymentIds -> SessionState]
  /\ request \in [Requests -> Request]
  /\ due \subseteq PaymentIds
  /\ expiring \subseteq PaymentIds

\* Whatever a payment, a session or a request refers to is there
References ==
  /\ \A p \in PaymentIds :
       /\ payments[p].status # "none" <=> session[p] # "none"
       /\ payments[p].order # None => orders[payments[p].order].status # "none"
  /\ \A r \in Requests :
       /\ request[r].op \in {"resume", "reopen", "reinitiate"} =>
            orders[request[r].order].status # "none"
       /\ request[r].op = "supersede" =>
            \A o \in request[r].orders : orders[o].status # "none"
       /\ request[r].op = "reply" => payments[request[r].payment].status # "none"

(***************************************************************************)
(* Row locks do their work: while a request that supersedes checkouts      *)
(* waits for the provider, the orders it will cancel stay pending and the  *)
(* payments it or a resume will cancel stay open, whatever webhooks,       *)
(* confirmations and expiries arrive, and no two requests hold one row.    *)
(***************************************************************************)
LocksHold ==
  /\ \A r \in Requests : request[r].op = "initiate" =>
       \A o \in request[r].orders : orders[o].status = "pending"
  /\ \A r \in Requests : request[r].op \in {"initiate", "reinitiate"} =>
       \A p \in request[r].payments : payments[p].status \in OpenStatuses
  /\ \A r, q \in Requests :
       r # q /\ request[r].op = "initiate" /\ request[q].op = "initiate"
         => request[r].orders \intersect request[q].orders = {}
  /\ \A r, q \in {x \in Requests : request[x].op \in {"initiate", "reinitiate"}} :
       r # q => request[r].payments \intersect request[q].payments = {}

(***************************************************************************)
(* A payment that reads succeeded belongs to an order that is paid: the    *)
(* two rows are written in one transaction, and neither a superseding      *)
(* checkout nor a resume nor a late result takes the order back.           *)
(***************************************************************************)
SucceededIsPaid ==
  \A p \in PaymentIds : payments[p].status = "succeeded" =>
    payments[p].order # None /\ orders[payments[p].order].status = "paid"

(***************************************************************************)
(* A paid order stays paid: mark_canceled in _supersede_open_checkouts     *)
(* works on rows read before, and a webhook may settle the same order at   *)
(* the same time.                                                          *)
(***************************************************************************)
PaidStaysPaid ==
  [][\A o \in OrderIds : orders[o].status = "paid" => orders'[o].status = "paid"]_vars

(***************************************************************************)
(* No goods without a customer's money on the way: an order is paid only   *)
(* if the customer completed the provider's session of one of its          *)
(* payments, however late or often results arrive (staff aside).  The code *)
(* makes two exceptions, each for a provider of its own: a simulated one   *)
(* reports every payment as a success, and for one without a webhook       *)
(* secret anybody's notification counts (tests/test_webhooks.py:18-34).    *)
(***************************************************************************)
CompletedIfPaid ==
  \A o \in OrderIds : orders[o].status = "paid" =>
    \E p \in PaymentIds :
      /\ payments[p].order = o
      /\ \/ Completed(payments[p].provider, session[p])
         \/ payments[p].provider \in Simulated \union Unsigned

(***************************************************************************)
(* Only a provider's answer takes a payment out of succeeded: expiry, a    *)
(* cancel, a superseding checkout and a resume, all of which decided on an *)
(* earlier reading of the payment, never do.                               *)
(***************************************************************************)
SucceededUntilAnswer ==
  [][\A p \in PaymentIds :
       payments[p].status = "succeeded" /\ payments'[p].status # "succeeded" =>
         \/ \E r \in Requests : request[r].op = "reply" /\ request[r].payment = p
         \/ \E e \in Accepted(payments[p].provider, session[p],
                            payments[p].provider \in Unsigned) :
              WebhookStatus(payments[p].provider, e) = payments'[p].status]_vars

(***************************************************************************)
(* Orders are sold as OrderLedger promises: each once, its lines taken     *)
(* from stock in the step that marks it paid, never more than there are.   *)
(***************************************************************************)
Sale ==
  [o \in OrderIds |-> IF orders[o].status = "paid" THEN orders[o].items ELSE Nothing]

Ledger == INSTANCE OrderLedger WITH Lines <- Items, sale <- Sale

SoldOnce == Ledger!Spec

-----------------------------------------------------------------------------
(***************************************************************************)
(* Liveness.  A request ends: the provider calls and the web workers have  *)
(* timeouts.  Beat runs the sweep for as long as it would find something,  *)
(* a worker that keeps picking a payment comes to it although it has to    *)
(* wait for the row again and again, and workers are not restarted for     *)
(* ever.  A provider repeats the notification of a success until it is     *)
(* accepted.                                                               *)
(***************************************************************************)
RequestEnds(r) ==
  \/ \E provider \in Providers : InitiateCommit(r, provider) \/ ResumeCommit(r, provider)
  \/ ApplyReply(r)
  \/ SaveProduct(r)
  \/ Abort(r)

SuccessNotified(p) ==
  \E e \in Events(payments[p].provider, session[p]) :
    WebhookStatus(payments[p].provider, e) = "succeeded" /\ Webhook(p, e)

Fairness ==
  /\ \A r \in Requests : WF_vars(RequestEnds(r))
  /\ WF_vars(Sweep)
  /\ <>[][~WorkerRestart]_vars
  /\ \A p \in PaymentIds : SF_vars(Expire(p)) /\ SF_vars(SuccessNotified(p))

FairSpec == Spec /\ Fairness

(***************************************************************************)
(* No payment stays open past its deadline: the sweep finds it even if its *)
(* countdown was lost, the worker restarts, or a request holds its row.    *)
(***************************************************************************)
StaleExpires ==
  \A p \in PaymentIds :
    p \in due /\ payments[p].status \in OpenStatuses
      ~> payments[p].status \notin OpenStatuses

(***************************************************************************)
(* Captured money is honoured: once the provider has captured a payment,   *)
(* its order is paid or its lines run out of stock, even if the payment    *)
(* had expired or was canceled or superseded before the news arrived.      *)
(***************************************************************************)
CapturedIsHonoured ==
  \A p \in PaymentIds, o \in OrderIds :
    session[p] = "paid" /\ payments[p].order = o
      ~> orders[o].status = "paid" \/ ~Enough(orders[o].items)

-----------------------------------------------------------------------------
(***************************************************************************)
(* What the repository says of itself and its code does not do.            *)
(***************************************************************************)
\* service.py:25: "Terminal payment states that must never be transitioned
\* again."
FinalStaysFinal ==
  [][\A p \in PaymentIds : payments[p].status \in FinalStatuses =>
       payments'[p].status = payments[p].status]_vars

\* service.py:102: open payments are canceled first "so a lost
\* countdown/webhook can't later flip the now-cancelled order"
CanceledNotFlipped ==
  [][\A o \in OrderIds : orders[o].status = "canceled" => orders'[o].status # "paid"]_vars

\* README.md:13: "all writes that touch stock run inside atomic, row-locked
\* transactions to prevent overselling"; no more units are sold than there were
NotOversold ==
  \A product \in Products :
    MapThenSumSet(LAMBDA o : Sale[o][product], OrderIds) <= InitialStock[product]
=============================================================================
