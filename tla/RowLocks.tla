------------------------------ MODULE RowLocks ------------------------------
(***************************************************************************)
(* The transactions behind checkout, row lock by row lock: a result is     *)
(* applied to a payment (payment, then order, then the order's products    *)
(* one by one), checkouts are superseded (orders, then their payments) and *)
(* resumed, orders are created, payments expire, products are deleted.     *)
(* Checkout takes each of these locks together; here a transaction waits   *)
(* for every row with what it has locked so far, and transactions may wait *)
(* for one another.                                                        *)
(*                                                                         *)
(* PostgreSQL at READ COMMITTED: what a transaction writes is seen when it *)
(* commits; a row is read again once its lock is granted; foreign keys are *)
(* checked at the commit with a key-share lock on the row referred to      *)
(* (Django defers the constraints); a deadlock ends with the roll back of  *)
(* one transaction.  One customer: two customers meet only in products.    *)
(*                                                                         *)
(* A definition marked "Bug variant" is no part of the specification: it   *)
(* is the definition below it with a mistake, kept to show that a property *)
(* notices the mistake.                                                    *)
(***************************************************************************)
EXTENDS Integers, SequencesExt

CONSTANTS
  Products,
  OrderIds, PaymentIds,     \* bounds on the rows ever inserted
  Workers,                  \* web and Celery workers: one transaction at a time
  Catalogue,                \* the products that are there at the start
  InitialStock,
  Carts,                    \* what may be ordered: sequences of lines
  Answers,                  \* the results of providers: payment statuses
  None,                     \* no value
  Unborn, Gone              \* no such row yet, no such row any more

Line == [product : Products, quantity : Nat \ {0}]

\* Nothing here tells the statuses failed and canceled apart: both are "closed"
OpenStatuses == {"initiated", "pending"}
FinalStatuses == {"succeeded", "closed"}
PaymentStatus == OpenStatuses \union FinalStatuses
OrderStatus == {"pending", "paid", "canceled"}

ASSUME RowLocksAssumption ==
  /\ OrderIds \subseteq Nat /\ PaymentIds \subseteq Nat
  /\ Catalogue \subseteq Products
  /\ InitialStock \in [Products -> Nat]
  /\ Carts \subseteq Seq(Line) \ {<< >>}
  /\ \A lines \in Carts : \A i, j \in DOMAIN lines : lines[i].product = lines[j].product => i = j
  /\ Answers \subseteq PaymentStatus
  /\ None \notin OrderIds \union Nat
  /\ Unborn # Gone /\ {Unborn, Gone} \intersect Nat = {}

VARIABLES
  stock,                    \* Product rows: the stock column
  orders,                   \* Order rows with their items
  payments,                 \* Payment rows
  tx,                       \* the transaction of each worker
  locks                     \* the row locks it holds

rows == <<stock, orders, payments>>
vars == <<stock, orders, payments, tx, locks>>

NoOrder == [status |-> "none", lines |-> << >>]
NoPayment == [status |-> "none", order |-> None]

\* The units of each product in an order's lines
Units(lines) ==
  [q \in Products |-> IF \E i \in DOMAIN lines : lines[i].product = q
                        THEN lines[CHOOSE i \in DOMAIN lines : lines[i].product = q].quantity
                        ELSE 0]

There(q) == stock[q] \notin {Unborn, Gone}

-----------------------------------------------------------------------------
(***************************************************************************)
(* Row locks.  SELECT ... FOR UPDATE and DELETE lock a row against         *)
(* everything, as does the UPDATE of a payment, to which no key refers; a  *)
(* foreign key check only against those.                                   *)
(***************************************************************************)
RowLock ==
  [table : {"payments"}, id : PaymentIds, mode : {"for update"}]
  \union [table : {"orders"}, id : OrderIds, mode : {"for update", "key share"}]
  \union [table : {"products"}, id : Products, mode : {"for update", "key share"}]

Lock(table, id, mode) == [table |-> table, id |-> id, mode |-> mode]

\* The locks of a statement, or of the foreign key checks of a commit, in turn
Locks(table, ids, mode) == [i \in DOMAIN ids |-> Lock(table, ids[i], mode)]

Conflict(l, k) ==
  l.table = k.table /\ l.id = k.id /\ "for update" \in {l.mode, k.mode}

Holders(w, lock) == {v \in Workers \ {w} : \E l \in locks[v] : Conflict(l, lock)}

Idle == [op |-> "idle", todo |-> << >>]

\* The lock that w needs next
Wants(w, table) == tx[w].todo # << >> /\ Head(tx[w].todo).table = table
Wanted(w) == Head(tx[w].todo)
Rest(w) == [tx[w] EXCEPT !.todo = Tail(@)]

\* The lock is granted, and the transaction goes on as t
Grant(w, t) ==
  /\ Holders(w, Wanted(w)) = {}
  /\ locks' = [locks EXCEPT ![w] = @ \union {Wanted(w)}]
  /\ tx' = [tx EXCEPT ![w] = t]
  /\ UNCHANGED rows

Begin(w, t) ==
  /\ tx[w] = Idle
  /\ tx' = [tx EXCEPT ![w] = t]
  /\ UNCHANGED <<stock, orders, payments, locks>>

\* The locks go with the transaction
End(w) ==
  /\ tx' = [tx EXCEPT ![w] = Idle]
  /\ locks' = [locks EXCEPT ![w] = {}]

Rollback(w) == End(w) /\ UNCHANGED rows

Init ==
  /\ stock = [q \in Products |-> IF q \in Catalogue THEN InitialStock[q] ELSE Unborn]
  /\ orders = [o \in OrderIds |-> NoOrder]
  /\ payments = [p \in PaymentIds |-> NoPayment]
  /\ tx = [w \in Workers |-> Idle]
  /\ locks = [w \in Workers |-> {}]

-----------------------------------------------------------------------------
(***************************************************************************)
(* PaymentService._apply_result, for an answer or a notification.          *)
(***************************************************************************)
Settle(w, p, status) ==
  /\ payments[p].status # "none"
  /\ Begin(w, [op |-> "settle", todo |-> <<Lock("payments", p, "for update")>>,
               payment |-> p, status |-> status, order |-> None,
               left |-> [q \in Products |-> None]])

\* The payment is locked: a first success goes on to the order
SettlePayment(w) ==
  /\ tx[w].op = "settle" /\ Wants(w, "payments")
  /\ LET row == payments[tx[w].payment]
         first == tx[w].status = "succeeded" /\ row.status # "succeeded"
     IN Grant(w, [tx[w] EXCEPT !.todo =
                    IF first THEN <<Lock("orders", row.order, "for update")>> ELSE << >>])

\* The order is locked: unless it is paid, its items' products are next
SettleOrder(w) ==
  /\ tx[w].op = "settle" /\ Wants(w, "orders")
  /\ LET o == Wanted(w).id
         products == [i \in DOMAIN orders[o].lines |-> orders[o].lines[i].product]
     IN \/ /\ orders[o].status = "paid"
           /\ Grant(w, Rest(w))
        \/ /\ orders[o].status # "paid"
           /\ Grant(w, [tx[w] EXCEPT !.order = o,
                                     !.todo = Locks("products", products, "for update")])

\* Bug variant: reduce_stock_for_order without select_for_update
SettleProductUnlocked(w) ==
  /\ tx[w].op = "settle" /\ Wants(w, "products")
  /\ LET q == Wanted(w).id
         n == Units(orders[tx[w].order].lines)[q]
     IN \/ /\ There(q) /\ n <= stock[q]
           /\ tx' = [tx EXCEPT ![w] = [Rest(w) EXCEPT !.left[q] = stock[q] - n]]
           /\ UNCHANGED <<stock, orders, payments, locks>>
        \/ /\ There(q) => n > stock[q]
           /\ Rollback(w)

\* Bug variant: reduce_stock_for_order without its check of the stock
SettleProductUnchecked(w) ==
  /\ tx[w].op = "settle" /\ Wants(w, "products")
  /\ LET q == Wanted(w).id
         n == Units(orders[tx[w].order].lines)[q]
     IN \/ /\ There(q)
           /\ Grant(w, [Rest(w) EXCEPT !.left[q] = stock[q] - n])
        \/ /\ ~There(q)
           /\ Holders(w, Wanted(w)) = {}
           /\ Rollback(w)

\* A product is locked and its stock read and reduced; if it is short,
\* everything is rolled back
SettleProduct(w) ==
  /\ tx[w].op = "settle" /\ Wants(w, "products")
  /\ LET q == Wanted(w).id
         n == Units(orders[tx[w].order].lines)[q]
     IN \/ /\ There(q) /\ n <= stock[q]
           /\ Grant(w, [Rest(w) EXCEPT !.left[q] = stock[q] - n])
        \/ /\ There(q) => n > stock[q]
           /\ Holders(w, Wanted(w)) = {}
           /\ Rollback(w)

CommitSettle(w) ==
  /\ tx[w].op = "settle" /\ tx[w].todo = << >>
  /\ payments' = [payments EXCEPT ![tx[w].payment].status = tx[w].status]
  /\ orders' = [o \in OrderIds |->
                  IF o = tx[w].order THEN [orders[o] EXCEPT !.status = "paid"] ELSE orders[o]]
  /\ stock' = [q \in Products |-> IF tx[w].left[q] # None THEN tx[w].left[q] ELSE stock[q]]
  /\ End(w)

-----------------------------------------------------------------------------
\* PaymentService.expire, which leaves a final status, and abandon, which
\* leaves a success: the payment alone is locked
Expire(w, p) ==
  /\ payments[p].status # "none"
  /\ Begin(w, [op |-> "expire", todo |-> <<Lock("payments", p, "for update")>>, payment |-> p])

\* Bug variant: expire goes on to lock the order, to close it as well
ExpirePaymentAndOrder(w) ==
  /\ tx[w].op = "expire"
  /\ \/ /\ Wants(w, "payments")
        /\ Grant(w, [tx[w] EXCEPT !.todo =
                       <<Lock("orders", payments[tx[w].payment].order, "for update")>>])
     \/ /\ Wants(w, "orders")
        /\ Grant(w, Rest(w))

ExpirePayment(w) ==
  /\ tx[w].op = "expire" /\ Wants(w, "payments")
  /\ Grant(w, Rest(w))

CommitExpire(w) ==
  /\ tx[w].op = "expire" /\ tx[w].todo = << >>
  /\ payments' = [payments EXCEPT ![tx[w].payment].status =
                    IF @ = "succeeded" THEN @ ELSE "closed"]
  /\ End(w)
  /\ UNCHANGED <<stock, orders>>

-----------------------------------------------------------------------------
(***************************************************************************)
(* POST /payments/initiate and /payments/resume, POST /orders and          *)
(* /cart/checkout.                                                         *)
(***************************************************************************)
\* The checks of snapshot_cart and create_order, on rows read without a lock
Orderable(lines) ==
  \A i \in DOMAIN lines : There(lines[i].product) /\ lines[i].quantity <= stock[lines[i].product]

\* Bug variant: the order item's product without a foreign key constraint
ItemChecksNone(lines) == << >>

\* The foreign keys that the new order's items have checked
ItemChecks(lines) ==
  Locks("products", [i \in DOMAIN lines |-> lines[i].product], "key share")

OpenPayments(o) ==
  {p \in PaymentIds : payments[p].status \in OpenStatuses /\ payments[p].order = o}

\* The UPDATE of an order's open payments meets them in any order
PaymentLocks(o) == {Locks("payments", ids, "for update") : ids \in SetToSeqs(OpenPayments(o))}

\* The customer's pending orders, newest first (Order.Meta.ordering)
PendingOrders ==
  {ids \in SetToSeqs({o \in OrderIds : orders[o].status = "pending"}) :
     \A i, j \in DOMAIN ids : i < j => ids[i] > ids[j]}

Initiate(w) ==
  \E ids \in PendingOrders :
    Begin(w, [op |-> "initiate", todo |-> Locks("orders", ids, "for update"),
              stale |-> << >>, orders |-> {}, payments |-> {}, lines |-> << >>])

\* A row of the SELECT FOR UPDATE is locked and its status checked again
SupersedeOrder(w) ==
  /\ tx[w].op = "initiate" /\ Wants(w, "orders")
  /\ Grant(w, IF orders[Wanted(w).id].status = "pending"
                THEN [Rest(w) EXCEPT !.stale = Append(@, Wanted(w).id)]
                ELSE Rest(w))

\* The loop over the stale orders: the next one's open payments are updated
CancelOpen(w) ==
  /\ tx[w].op = "initiate" /\ tx[w].todo = << >> /\ tx[w].stale # << >>
  /\ \E todo \in PaymentLocks(Head(tx[w].stale)) :
       tx' = [tx EXCEPT ![w].todo = todo, ![w].stale = Tail(@),
                        ![w].orders = @ \union {Head(tx[w].stale)}]
  /\ UNCHANGED <<stock, orders, payments, locks>>

\* A payment is locked, and canceled if it is still open
CancelPayment(w) ==
  /\ tx[w].op \in {"initiate", "resume"} /\ Wants(w, "payments")
  /\ Grant(w, IF payments[Wanted(w).id].status \in OpenStatuses
                THEN [Rest(w) EXCEPT !.payments = @ \union {Wanted(w).id}]
                ELSE Rest(w))

\* The cart is read, order and payment are created and the provider called;
\* the commit begins
OrderFromCart(w, lines) ==
  /\ tx[w].op = "initiate" /\ tx[w].todo = << >> /\ tx[w].stale = << >>
  /\ tx[w].lines = << >>
  /\ Orderable(lines)
  /\ tx' = [tx EXCEPT ![w].lines = lines, ![w].todo = ItemChecks(lines)]
  /\ UNCHANGED <<stock, orders, payments, locks>>

\* The view has read the order as pending, at some time since its creation;
\* the UPDATE of its open payments takes its snapshot
Resume(w, o) ==
  /\ orders[o] # NoOrder
  /\ \E todo \in PaymentLocks(o) :
       Begin(w, [op |-> "resume", todo |-> Append(todo, Lock("orders", o, "key share")),
                 order |-> o, payments |-> {}])

\* The next primary keys
NextOrder == {o \in OrderIds : orders[o] = NoOrder /\ \A i \in OrderIds : i < o => orders[i] # NoOrder}
NextPayment ==
  {p \in PaymentIds : payments[p] = NoPayment /\ \A i \in PaymentIds : i < p => payments[i] # NoPayment}

CreateOrder(w, lines) ==
  /\ NextOrder # {}
  /\ Orderable(lines)
  /\ Begin(w, [op |-> "create", todo |-> ItemChecks(lines), lines |-> lines])

\* A foreign key is checked: the row is locked, if it is there
CheckReference(w) ==
  /\ tx[w].todo # << >> /\ Wanted(w).mode = "key share"
  /\ \/ /\ Wanted(w).table = "products" => There(Wanted(w).id)
        /\ Grant(w, Rest(w))
     \/ /\ Wanted(w).table = "products" /\ ~There(Wanted(w).id)
        /\ Holders(w, Wanted(w)) = {}
        /\ Rollback(w)

\* The new rows are inserted and the old ones canceled, all in one
CommitCheckout(w) ==
  /\ tx[w].todo = << >>
  /\ \/ /\ tx[w].op = "initiate" /\ tx[w].lines # << >>
        /\ \E o \in NextOrder, p \in NextPayment :
             /\ orders' = [x \in OrderIds |->
                  IF x = o THEN [status |-> "pending", lines |-> tx[w].lines]
                  ELSE IF x \in tx[w].orders THEN [orders[x] EXCEPT !.status = "canceled"]
                  ELSE orders[x]]
             /\ payments' = [x \in PaymentIds |->
                  IF x = p THEN [status |-> "pending", order |-> o]
                  ELSE IF x \in tx[w].payments THEN [payments[x] EXCEPT !.status = "closed"]
                  ELSE payments[x]]
     \/ /\ tx[w].op = "resume"
        /\ \E p \in NextPayment :
             payments' = [x \in PaymentIds |->
               IF x = p THEN [status |-> "pending", order |-> tx[w].order]
               ELSE IF x \in tx[w].payments THEN [payments[x] EXCEPT !.status = "closed"]
               ELSE payments[x]]
        /\ UNCHANGED orders
     \/ /\ tx[w].op = "create"
        /\ \E o \in NextOrder :
             orders' = [orders EXCEPT ![o] = [status |-> "pending", lines |-> tx[w].lines]]
        /\ UNCHANGED payments
  /\ End(w)
  /\ UNCHANGED stock

\* Nothing can be ordered, or the bound on the keys is reached
Refuse(w) ==
  /\ tx[w].todo = << >>
  /\ \/ /\ tx[w].op = "initiate" /\ tx[w].stale = << >> /\ tx[w].lines = << >>
        /\ \A lines \in Carts : ~Orderable(lines)
     \/ tx[w].op \in {"initiate", "resume"} /\ NextPayment = {}
     \/ tx[w].op \in {"initiate", "create"} /\ NextOrder = {}
  /\ Rollback(w)

-----------------------------------------------------------------------------
(***************************************************************************)
(* Staff create and delete products (products/views.py).                   *)
(***************************************************************************)
CreateProduct(q) ==
  /\ stock[q] = Unborn
  /\ stock' = [stock EXCEPT ![q] = InitialStock[q]]
  /\ UNCHANGED <<orders, payments, tx, locks>>

Ordered(q) == \E o \in OrderIds : Units(orders[o].lines)[q] > 0

\* The collector finds no order item of the product (PROTECT)
DeleteProduct(w, q) ==
  /\ There(q) /\ ~Ordered(q)
  /\ Begin(w, [op |-> "delete", todo |-> <<Lock("products", q, "for update")>>, product |-> q])

DeleteProductRow(w) ==
  /\ tx[w].op = "delete" /\ Wants(w, "products")
  /\ Grant(w, Rest(w))

\* The commit checks the order items that have come meanwhile
CommitDelete(w) ==
  /\ tx[w].op = "delete" /\ tx[w].todo = << >>
  /\ \/ /\ Ordered(tx[w].product)
        /\ Rollback(w)
     \/ /\ ~Ordered(tx[w].product)
        /\ stock' = [stock EXCEPT ![tx[w].product] = Gone]
        /\ End(w)
        /\ UNCHANGED <<orders, payments>>

-----------------------------------------------------------------------------
WaitsFor(w) == IF tx[w].todo = << >> THEN {} ELSE Holders(w, Wanted(w))

\* w waits, through others, for itself
Deadlocked(w) ==
  /\ WaitsFor(w) # {}
  /\ \A S \in SUBSET Workers :
       WaitsFor(w) \subseteq S /\ (\A v \in S : WaitsFor(v) \subseteq S) => w \in S

\* Bug variant: nobody detects a deadlock
DeadlockVictimNever(w) == FALSE /\ UNCHANGED vars

\* PostgreSQL rolls one of them back, whichever it finds
DeadlockVictim(w) == Deadlocked(w) /\ Rollback(w)

\* A PaymentError, a failed check, a worker that dies
Fail(w) == tx[w] # Idle /\ Rollback(w)

Start(w) ==
  \/ \E p \in PaymentIds : Expire(w, p) \/ \E s \in Answers : Settle(w, p, s)
  \/ Initiate(w)
  \/ \E o \in OrderIds : Resume(w, o)
  \/ \E lines \in Carts : CreateOrder(w, lines)
  \/ \E q \in Products : DeleteProduct(w, q)

Continue(w) ==
  \/ SettlePayment(w) \/ SettleOrder(w) \/ SettleProduct(w) \/ CommitSettle(w)
  \/ ExpirePayment(w) \/ CommitExpire(w)
  \/ SupersedeOrder(w) \/ CancelOpen(w) \/ CancelPayment(w)
  \/ \E lines \in Carts : OrderFromCart(w, lines)
  \/ CheckReference(w) \/ CommitCheckout(w) \/ Refuse(w)
  \/ DeleteProductRow(w) \/ CommitDelete(w)

Next ==
  \/ \E w \in Workers : Start(w) \/ Continue(w) \/ DeadlockVictim(w) \/ Fail(w)
  \/ \E q \in Products : CreateProduct(q)

Spec == Init /\ [][Next]_vars

(***************************************************************************)
(* Fairness: a worker goes on, PostgreSQL grants a lock to its waiters in  *)
(* turn, and it detects deadlocks.                                         *)
(***************************************************************************)
Fairness == \A w \in Workers : SF_vars(Continue(w)) /\ WF_vars(DeadlockVictim(w))

FairSpec == Spec /\ Fairness

-----------------------------------------------------------------------------
Settlement == [op : {"settle"}, todo : Seq(RowLock), payment : PaymentIds, status : Answers,
               order : OrderIds \union {None}, left : [Products -> Nat \union {None}]]
Expiry == [op : {"expire"}, todo : Seq(RowLock), payment : PaymentIds]
Initiation == [op : {"initiate"}, todo : Seq(RowLock), stale : Seq(OrderIds),
               orders : SUBSET OrderIds, payments : SUBSET PaymentIds,
               lines : Carts \union {<< >>}]
Resumption == [op : {"resume"}, todo : Seq(RowLock), order : OrderIds, payments : SUBSET PaymentIds]
Creation == [op : {"create"}, todo : Seq(RowLock), lines : Carts]
Deletion == [op : {"delete"}, todo : Seq(RowLock), product : Products]

Tx ==
  {Idle} \union Settlement \union Expiry \union Initiation \union Resumption
  \union Creation \union Deletion

\* Every variable holds rows of its table's shape, and no two transactions
\* hold locks that conflict
TypeOK ==
  /\ stock \in [Products -> Nat \union {Unborn, Gone}]
  /\ orders \in [OrderIds -> [status : OrderStatus, lines : Carts] \union {NoOrder}]
  /\ payments \in [PaymentIds -> [status : PaymentStatus, order : OrderIds] \union {NoPayment}]
  /\ tx \in [Workers -> Tx]
  /\ locks \in [Workers -> SUBSET RowLock]
  /\ \A w \in Workers : \A l \in locks[w] : Holders(w, l) = {}

(***************************************************************************)
(* Orders are sold as OrderLedger promises although products are locked    *)
(* and reduced one by one, transactions are rolled back in the middle, and *)
(* products are created and deleted: an order's lines leave the stock      *)
(* together, each order once, and no reduction is lost.                    *)
(***************************************************************************)
Nothing == [q \in Products |-> 0]

Ledger == INSTANCE OrderLedger WITH
  Lines <- {Units(lines) : lines \in Carts},
  stock <- [q \in Products |-> IF There(q) THEN stock[q] ELSE InitialStock[q]],
  sale  <- [o \in OrderIds |-> IF orders[o].status = "paid" THEN Units(orders[o].lines) ELSE Nothing]

SoldOnce == Ledger!Spec

(***************************************************************************)
(* What an order lists is there: a product is not deleted under an order   *)
(* that is just being created, nor under one that is there.                *)
(***************************************************************************)
ItemsKept == \A q \in Products : Ordered(q) => There(q)

(***************************************************************************)
(* Expiry is never the victim of a deadlock, which would end the whole     *)
(* sweep (expire_stale_payments catches nothing): it holds no row while it *)
(* waits for one.                                                          *)
(***************************************************************************)
ExpiryNeverDeadlocked == \A w \in Workers : tx[w].op = "expire" => ~Deadlocked(w)

(***************************************************************************)
(* A transaction ends, whichever rows it waits for: settling locks a       *)
(* payment before its order and superseding an order before its payments,  *)
(* and two orders may list the same products in opposite orders.           *)
(***************************************************************************)
TransactionEnds(w) == tx[w] # Idle ~> tx[w] = Idle
=============================================================================
