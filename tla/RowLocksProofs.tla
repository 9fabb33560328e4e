--------------------------- MODULE RowLocksProofs ---------------------------
(***************************************************************************)
(* Proofs about RowLocks, for any number of workers, products, orders and  *)
(* payments, any carts and any answers of providers.                       *)
(***************************************************************************)
EXTENDS RowLocks, FiniteSetTheorems, TLAPS

Exclusive(table, id) == Lock(table, id, "for update")
Shared(table, id) == Lock(table, id, "key share")

-----------------------------------------------------------------------------
(***************************************************************************)
(* What is true of the rows: a payment's order is there, what orders list  *)
(* is there, what no order lists has never been sold, and finitely many    *)
(* rows have been inserted.                                                *)
(***************************************************************************)
References == \A p \in PaymentIds : payments[p] # NoPayment => orders[payments[p].order] # NoOrder

Untouched == \A q \in Products : There(q) /\ ~Ordered(q) => stock[q] = InitialStock[q]

Finite ==
  /\ IsFiniteSet({o \in OrderIds : orders[o] # NoOrder})
  /\ IsFiniteSet({p \in PaymentIds : payments[p] # NoPayment})

(***************************************************************************)
(* What a transaction t that holds the locks in held may rely on.          *)
(***************************************************************************)
\* A transaction that waits for its first lock, or has it
First(t, lock, held) ==
  \/ t.todo = <<lock>> /\ held = {}
  \/ t.todo = << >> /\ lock \in held

\* It settles nothing, or it has an order, with the stock that is left of the
\* products that it has locked; the others it is about to lock
Settling(t, held) ==
  /\ payments[t.payment] # NoPayment
  /\ \/ /\ t.order = None
        /\ \A q \in Products : t.left[q] = None
        /\ t.todo \in {<< >>, <<Exclusive("payments", t.payment)>>,
                       <<Exclusive("orders", payments[t.payment].order)>>}
     \/ /\ t.order \in OrderIds
        /\ orders[t.order].status \in {"pending", "canceled"}
        /\ Exclusive("orders", t.order) \in held
        /\ \A i \in DOMAIN t.todo : \E q \in Products : t.todo[i] = Exclusive("products", q)
        /\ \A q \in Products : t.left[q] # None =>
             /\ There(q) /\ Exclusive("products", q) \in held
             /\ Units(orders[t.order].lines)[q] <= stock[q]
             /\ t.left[q] = stock[q] - Units(orders[t.order].lines)[q]
        /\ \A q \in Products : Units(orders[t.order].lines)[q] > 0 =>
             t.left[q] # None \/ \E i \in DOMAIN t.todo : t.todo[i] = Exclusive("products", q)

\* What it is about to list is there and locked, or still to be locked
Reserving(t, held) ==
  \A i \in DOMAIN t.lines :
    \/ There(t.lines[i].product) /\ Shared("products", t.lines[i].product) \in held
    \/ \E j \in DOMAIN t.todo : t.todo[j] = Shared("products", t.lines[i].product)

\* The orders it is about to cancel are pending and locked
Superseding(t, held) ==
  /\ \A o \in t.orders \union Range(t.stale) :
       orders[o].status = "pending" /\ Exclusive("orders", o) \in held
  /\ \A i \in DOMAIN t.todo : t.todo[i].table = "orders" => t.todo[i].mode = "for update"

Canceling(t) == \A p \in t.payments : payments[p] # NoPayment

Sound(t, held) ==
  /\ t = Idle => held = {}
  /\ t.op = "settle" => Settling(t, held)
  /\ t.op = "expire" =>
       payments[t.payment] # NoPayment /\ First(t, Exclusive("payments", t.payment), held)
  /\ t.op = "initiate" => Superseding(t, held) /\ Canceling(t) /\ Reserving(t, held)
  /\ t.op = "resume" => orders[t.order] # NoOrder /\ Canceling(t)
  /\ t.op = "create" => Reserving(t, held)
  /\ t.op = "delete" => First(t, Exclusive("products", t.product), held)

RowsSound == References /\ ItemsKept /\ Untouched /\ Finite

\* The inductive invariant behind every theorem here
Inv == TypeOK /\ RowsSound /\ \A w \in Workers : Sound(tx[w], locks[w])
-----------------------------------------------------------------------------
(***************************************************************************)
(* The operators the model is built from.                                  *)
(***************************************************************************)
LEMMA SequenceOf ==
  ASSUME NEW S, NEW s \in Seq(S)
  PROVE  Len(s) \in Nat /\ DOMAIN s = 1..Len(s) /\ \A i \in DOMAIN s : s[i] \in S
  OBVIOUS

LEMMA SequenceFrom ==
  ASSUME NEW S, NEW n \in Nat, NEW f \in [1..n -> S]
  PROVE  f \in Seq(S)
  OBVIOUS

LEMMA SequenceOfOne ==
  ASSUME NEW S, NEW e \in S
  PROVE  <<e>> \in Seq(S)
  OBVIOUS

LEMMA RangeOfAppend ==
  ASSUME NEW S, NEW s \in Seq(S), NEW e \in S
  PROVE  Append(s, e) \in Seq(S) /\ Range(Append(s, e)) = Range(s) \union {e}
  <1>1. /\ Append(s, e) \in Seq(S) /\ Len(s) \in Nat /\ DOMAIN s = 1..Len(s)
        /\ DOMAIN Append(s, e) = 1..(Len(s) + 1) /\ Append(s, e)[Len(s) + 1] = e
        /\ \A i \in 1..Len(s) : Append(s, e)[i] = s[i]
    OBVIOUS
  <1>2. 1..(Len(s) + 1) = 1..Len(s) \union {Len(s) + 1}
    BY <1>1
  <1>. QED
    BY <1>1, <1>2 DEF Range

\* An order lists units of exactly the products of its lines
LEMMA UnitsListed ==
  ASSUME NEW lines \in Carts \union {<< >>}
  PROVE  /\ Units(lines) \in [Products -> Nat]
         /\ \A q \in Products : Units(lines)[q] > 0 <=> \E i \in DOMAIN lines : lines[i].product = q
         /\ \A i \in DOMAIN lines : lines[i].product \in Products
         /\ lines # << >> => Units(lines) # Nothing
  <1>1. lines \in Seq(Line)
    <2>1. << >> \in Seq(Line)
      OBVIOUS
    <2>. QED
      BY <2>1, RowLocksAssumption
  <1>2. \A i \in DOMAIN lines : lines[i].product \in Products /\ lines[i].quantity \in Nat \ {0}
    <2>1. \A i \in DOMAIN lines : lines[i] \in Line
      BY <1>1, SequenceOf
    <2>. QED
      BY <2>1 DEF Line
  <1>3. ASSUME NEW q \in Products
        PROVE  Units(lines)[q] \in Nat /\ (Units(lines)[q] > 0 <=> \E i \in DOMAIN lines : lines[i].product = q)
    <2>1. CASE \E i \in DOMAIN lines : lines[i].product = q
      BY <1>2, <2>1 DEF Units
    <2>2. CASE ~\E i \in DOMAIN lines : lines[i].product = q
      BY <2>2 DEF Units
    <2>. QED
      BY <2>1, <2>2
  <1>4. Units(lines) \in [Products -> Nat]
    BY <1>3 DEF Units
  <1>5. ASSUME lines # << >>
        PROVE  Units(lines) # Nothing
    <2>1. 1 \in DOMAIN lines
      BY <1>1, <1>5
    <2>2. lines[1].product \in Products /\ Units(lines)[lines[1].product] > 0
      BY <1>2, <1>3, <2>1
    <2>. QED
      BY <2>2 DEF Nothing
  <1>. QED
    BY <1>2, <1>3, <1>4, <1>5

LEMMA LocksTyped ==
  /\ \A p \in PaymentIds : Exclusive("payments", p) \in RowLock
  /\ \A o \in OrderIds : Exclusive("orders", o) \in RowLock /\ Shared("orders", o) \in RowLock
  /\ \A q \in Products : Exclusive("products", q) \in RowLock /\ Shared("products", q) \in RowLock
  BY DEF Exclusive, Shared, Lock, RowLock

LEMMA LockFields ==
  ASSUME NEW table, NEW id
  PROVE  /\ Exclusive(table, id).table = table /\ Shared(table, id).table = table
         /\ Exclusive(table, id).id = id /\ Shared(table, id).id = id
         /\ Exclusive(table, id).mode = "for update" /\ Shared(table, id).mode = "key share"
  BY DEF Exclusive, Shared, Lock

LEMMA LockIds ==
  ASSUME NEW table, NEW id, NEW other
  PROVE  /\ Exclusive(table, id) = Exclusive(table, other) => id = other
         /\ Shared(table, id) = Shared(table, other) => id = other
         /\ Exclusive(table, id) # Shared(table, other)
  BY DEF Exclusive, Shared, Lock

\* The locks of a statement that meets the rows of a finite set
LEMMA LocksOfSet ==
  ASSUME NEW S, IsFiniteSet(S), NEW ids \in SetToSeqs(S), NEW table, NEW mode,
         \A id \in S : Lock(table, id, mode) \in RowLock
  PROVE  /\ Locks(table, ids, mode) \in Seq(RowLock)
         /\ \A i \in DOMAIN Locks(table, ids, mode) :
              \E id \in S : Locks(table, ids, mode)[i] = Lock(table, id, mode)
  <1>1. Cardinality(S) \in Nat
    BY FS_CardinalityType
  <1>2. ids \in [1..Cardinality(S) -> S]
    BY DEF SetToSeqs
  <1>. QED
    BY <1>1, <1>2 DEF Locks

\* The locks of the foreign key checks, one for each line
LEMMA ChecksOfLines ==
  ASSUME NEW lines \in Carts
  PROVE  /\ ItemChecks(lines) \in Seq(RowLock)
         /\ DOMAIN ItemChecks(lines) = DOMAIN lines
         /\ \A i \in DOMAIN lines : ItemChecks(lines)[i] = Shared("products", lines[i].product)
  <1>1. lines \in Seq(Line)
    BY RowLocksAssumption
  <1>2. DOMAIN ItemChecks(lines) = DOMAIN lines
    BY DEF ItemChecks, Locks
  <1>3. \A i \in DOMAIN lines : ItemChecks(lines)[i] = Shared("products", lines[i].product)
    BY DEF ItemChecks, Locks, Shared
  <1>4. \A i \in DOMAIN lines : ItemChecks(lines)[i] \in RowLock
    BY <1>3, UnitsListed, LocksTyped
  <1>5. ItemChecks(lines) \in [1..Len(lines) -> RowLock]
    BY <1>1, <1>2, <1>4, SequenceOf DEF ItemChecks, Locks
  <1>. QED
    BY <1>1, <1>2, <1>3, <1>5, SequenceOf, SequenceFrom

\* The kind of a transaction tells its fields
LEMMA Kinds ==
  ASSUME NEW t \in Tx
  PROVE  /\ t.todo \in Seq(RowLock)
         /\ \/ t.op = "idle" /\ t = Idle
            \/ t.op = "settle" /\ t \in Settlement
            \/ t.op = "expire" /\ t \in Expiry
            \/ t.op = "initiate" /\ t \in Initiation
            \/ t.op = "resume" /\ t \in Resumption
            \/ t.op = "create" /\ t \in Creation
            \/ t.op = "delete" /\ t \in Deletion
  <1>1. CASE t = Idle
    BY <1>1 DEF Idle
  <1>2. CASE t \in Settlement
    BY <1>2 DEF Settlement
  <1>3. CASE t \in Expiry
    BY <1>3 DEF Expiry
  <1>4. CASE t \in Initiation
    BY <1>4 DEF Initiation
  <1>5. CASE t \in Resumption
    BY <1>5 DEF Resumption
  <1>6. CASE t \in Creation
    BY <1>6 DEF Creation
  <1>7. CASE t \in Deletion
    BY <1>7 DEF Deletion
  <1>. QED
    BY <1>1, <1>2, <1>3, <1>4, <1>5, <1>6, <1>7 DEF Tx

-----------------------------------------------------------------------------
(***************************************************************************)
(* What a step does to the transactions that do not take it.               *)
(***************************************************************************)
\* Rows stay and keep what nothing updates, except for those locked in held
Preserves(held) ==
  /\ \A p \in PaymentIds : payments[p] # NoPayment =>
       payments'[p] # NoPayment /\ payments'[p].order = payments[p].order
  /\ \A o \in OrderIds : orders[o] # NoOrder =>
       /\ orders'[o] # NoOrder /\ orders'[o].lines = orders[o].lines
       /\ orders'[o].status = orders[o].status \/ Exclusive("orders", o) \in held
  /\ \A q \in Products : There(q) =>
       stock'[q] = stock[q] \/ Exclusive("products", q) \in held

\* What one transaction has locked exclusively, another has not locked at all
LEMMA Compatible ==
  ASSUME NEW held, NEW other, \A l \in held, k \in other : ~Conflict(l, k)
  PROVE  \A table \in {"orders", "products", "payments"} : \A id :
           Exclusive(table, id) \in held =>
             Exclusive(table, id) \notin other /\ Shared(table, id) \notin other
  BY DEF Conflict, Exclusive, Shared, Lock

LEMMA SettlingKept ==
  ASSUME TypeOK, NEW held, NEW other, NEW t \in Settlement,
         \A l \in held, k \in other : ~Conflict(l, k), Preserves(held), Settling(t, other)
  PROVE  Settling(t, other)'
  <1>1. t.payment \in PaymentIds /\ payments[t.payment] # NoPayment
    BY DEF Settlement, Settling
  <1>2. payments'[t.payment] # NoPayment /\ payments'[t.payment].order = payments[t.payment].order
    BY <1>1 DEF Preserves
  <1>3. CASE t.order = None /\ \A q \in Products : t.left[q] = None
    BY <1>2, <1>3, RowLocksAssumption DEF Settling
  <1>4. CASE t.order \in OrderIds
    <2>1. t.order # None
      BY <1>4, RowLocksAssumption
    <2>2. /\ orders[t.order].status \in {"pending", "canceled"}
          /\ Exclusive("orders", t.order) \in other
      BY <2>1 DEF Settling
    <2>3. orders[t.order] # NoOrder /\ Exclusive("orders", t.order) \notin held
      <3>1. Exclusive("orders", t.order) \notin held
        BY <2>2, Compatible
      <3>. QED
        BY <2>2, <3>1 DEF NoOrder
    <2>4. orders'[t.order].status = orders[t.order].status /\ orders'[t.order].lines = orders[t.order].lines
      BY <1>4, <2>3 DEF Preserves
    <2>5. ASSUME NEW q \in Products, t.left[q] # None
          PROVE  There(q) /\ stock'[q] = stock[q] /\ Exclusive("products", q) \in other
      <3>1. There(q) /\ Exclusive("products", q) \in other
        BY <2>1, <2>5 DEF Settling
      <3>2. Exclusive("products", q) \notin held
        BY <3>1, Compatible
      <3>. QED
        BY <3>1, <3>2 DEF Preserves
    <2>. QED
      BY <1>2, <1>4, <2>1, <2>2, <2>4, <2>5 DEF Settling, There
  <1>. QED
    BY <1>3, <1>4 DEF Settling

LEMMA OthersKept ==
  ASSUME TypeOK, NEW held, NEW other, NEW t \in Tx,
         \A l \in held, k \in other : ~Conflict(l, k), Preserves(held), Sound(t, other)
  PROVE  Sound(t, other)'
  <1>1. ASSUME NEW o \in OrderIds, orders[o].status = "pending", Exclusive("orders", o) \in other
        PROVE  orders'[o].status = "pending"
    <2>1. Exclusive("orders", o) \notin held
      BY <1>1, Compatible
    <2>2. orders[o] # NoOrder
      BY <1>1 DEF NoOrder
    <2>. QED
      BY <1>1, <2>1, <2>2 DEF Preserves
  <1>2. ASSUME NEW q \in Products, There(q), Shared("products", q) \in other
        PROVE  There(q)'
    BY <1>2, Compatible DEF Preserves, There
  <1>3. t.op = "settle" => Settling(t, other)'
    BY SettlingKept, Kinds DEF Sound
  <1>4. t.op = "expire" => payments'[t.payment] # NoPayment
    BY Kinds DEF Sound, Expiry, Preserves
  <1>5. t.op = "initiate" => Superseding(t, other)' /\ Canceling(t)'
    <2>. SUFFICES ASSUME t.op = "initiate" PROVE Superseding(t, other)' /\ Canceling(t)'
      OBVIOUS
    <2>1. t \in Initiation
      BY Kinds
    <2>2. t.orders \subseteq OrderIds /\ t.payments \subseteq PaymentIds /\ t.stale \in Seq(OrderIds)
      BY <2>1 DEF Initiation
    <2>3. Range(t.stale) \subseteq OrderIds
      BY <2>2, SequenceOf DEF Range
    <2>. QED
      BY <1>1, <2>2, <2>3 DEF Sound, Superseding, Canceling, Preserves
  <1>6. t.op \in {"initiate", "create"} => Reserving(t, other)'
    <2>. SUFFICES ASSUME t.op \in {"initiate", "create"} PROVE Reserving(t, other)'
      OBVIOUS
    <2>1. t.lines \in Carts \union {<< >>}
      BY Kinds DEF Initiation, Creation
    <2>2. \A i \in DOMAIN t.lines : t.lines[i].product \in Products
      BY <2>1, UnitsListed
    <2>. QED
      BY <1>2, <2>2 DEF Sound, Reserving
  <1>7. t.op = "resume" => orders'[t.order] # NoOrder /\ Canceling(t)'
    BY Kinds DEF Sound, Resumption, Canceling, Preserves
  <1>. QED
    BY <1>3, <1>4, <1>5, <1>6, <1>7 DEF Sound, First

\* No other worker holds a lock that conflicts with one of held
Free(w, held) == \A l \in held : Holders(w, l) = {}

LEMMA ConflictSymmetric ==
  ASSUME NEW l, NEW k
  PROVE  Conflict(l, k) <=> Conflict(k, l)
  BY DEF Conflict

\* One transaction goes on, or ends with what it has written
LEMMA StepInv ==
  ASSUME Inv, NEW w \in Workers, NEW t \in Tx, NEW held \in SUBSET RowLock,
         tx' = [tx EXCEPT ![w] = t], locks' = [locks EXCEPT ![w] = held],
         Free(w, held), Sound(t, held)', Preserves(locks[w]), RowsSound',
         stock' \in [Products -> Nat \union {Unborn, Gone}],
         orders' \in [OrderIds -> [status : OrderStatus, lines : Carts] \union {NoOrder}],
         payments' \in [PaymentIds -> [status : PaymentStatus, order : OrderIds] \union {NoPayment}]
  PROVE  Inv'
  <1>1. tx \in [Workers -> Tx] /\ locks \in [Workers -> SUBSET RowLock]
    BY DEF Inv, TypeOK
  <1>2. /\ tx'[w] = t /\ locks'[w] = held
        /\ \A v \in Workers \ {w} : tx'[v] = tx[v] /\ locks'[v] = locks[v]
    BY <1>1
  <1>3. \A v \in Workers : \A l \in locks[v], k \in RowLock :
          \A x \in Workers \ {v} : k \in locks[x] => ~Conflict(k, l)
    BY DEF Inv, TypeOK, Holders
  <1>4. \A v \in Workers \ {w} : \A l \in held : \A k \in locks[v] : ~Conflict(k, l)
    BY DEF Free, Holders
  <1>5. ASSUME NEW v \in Workers, NEW l \in locks'[v]
        PROVE  Holders(v, l)' = {}
    <2>1. ASSUME NEW x \in Workers \ {v}, NEW k \in locks'[x], Conflict(k, l)
          PROVE  FALSE
      <3>1. CASE v = w
        BY <1>2, <1>4, <2>1, <3>1
      <3>2. CASE x = w
        BY <1>2, <1>4, <2>1, <3>2, ConflictSymmetric
      <3>3. CASE v # w /\ x # w
        BY <1>1, <1>2, <1>3, <2>1, <3>3
      <3>. QED
        BY <3>1, <3>2, <3>3
    <2>. QED
      BY <2>1 DEF Holders
  <1>6. ASSUME NEW v \in Workers
        PROVE  Sound(tx[v], locks[v])'
    <2>1. CASE v = w
      BY <1>2, <2>1
    <2>2. CASE v # w
      <3>1. \A l \in locks[w], k \in locks[v] : ~Conflict(l, k)
        BY <1>1, <1>3, <2>2
      <3>2. tx[v] \in Tx /\ Sound(tx[v], locks[v])
        BY <1>1 DEF Inv
      <3>3. TypeOK
        BY DEF Inv
      <3>4. tx'[v] = tx[v] /\ locks'[v] = locks[v]
        BY <1>2, <2>2
      <3>. QED
        BY <3>1, <3>2, <3>3, <3>4, OthersKept
    <2>. QED
      BY <2>1, <2>2
  <1>7. TypeOK'
    BY <1>1, <1>5 DEF TypeOK
  <1>. QED
    BY <1>6, <1>7 DEF Inv

-----------------------------------------------------------------------------
(***************************************************************************)
(* Steps that leave the rows alone.                                        *)
(***************************************************************************)
LEMMA SameRows ==
  ASSUME Inv, UNCHANGED rows, NEW t, NEW held
  PROVE  /\ \A free : Preserves(free)
         /\ RowsSound' /\ (Sound(t, held) => Sound(t, held)')
         /\ stock' \in [Products -> Nat \union {Unborn, Gone}]
         /\ orders' \in [OrderIds -> [status : OrderStatus, lines : Carts] \union {NoOrder}]
         /\ payments' \in [PaymentIds -> [status : PaymentStatus, order : OrderIds] \union {NoPayment}]
  <1>1. stock' = stock /\ orders' = orders /\ payments' = payments
    BY DEF rows
  <1>2. \A free : Preserves(free)
    BY <1>1 DEF Preserves
  <1>3. RowsSound'
    BY <1>1 DEF Inv, RowsSound, References, ItemsKept, Untouched, Finite, Ordered, There
  <1>4. Sound(t, held) => Sound(t, held)'
    BY <1>1 DEF Sound, Settling, First, Superseding, Canceling, Reserving, There
  <1>. QED
    BY <1>1, <1>2, <1>3, <1>4 DEF Inv, TypeOK

LEMMA IdleSound == Idle \in Tx /\ Idle.op = "idle" /\ Sound(Idle, {}) /\ (TRUE => Sound(Idle, {})')
  BY DEF Idle, Tx, Sound

\* The lock that a transaction wants, and what it holds with it
LEMMA Wanting ==
  ASSUME Inv, NEW w \in Workers, tx[w].todo # << >>
  PROVE  /\ tx[w] \in Tx /\ Sound(tx[w], locks[w])
         /\ tx[w].todo \in Seq(RowLock) /\ Wanted(w) \in RowLock
         /\ Wanted(w) = tx[w].todo[1] /\ 1 \in DOMAIN tx[w].todo
         /\ Tail(tx[w].todo) \in Seq(RowLock) /\ locks[w] \union {Wanted(w)} \in SUBSET RowLock
         /\ \A i \in DOMAIN tx[w].todo :
              tx[w].todo[i] = Wanted(w) \/ \E j \in DOMAIN Tail(tx[w].todo) :
                                             Tail(tx[w].todo)[j] = tx[w].todo[i]
         /\ \A j \in DOMAIN Tail(tx[w].todo) : \E i \in DOMAIN tx[w].todo :
              Tail(tx[w].todo)[j] = tx[w].todo[i]
  <1>1. tx[w] \in Tx /\ Sound(tx[w], locks[w]) /\ locks[w] \in SUBSET RowLock
    BY DEF Inv, TypeOK
  <1>2. tx[w].todo \in Seq(RowLock)
    BY <1>1, Kinds
  <1>. DEFINE todo == tx[w].todo
  <1>3. /\ Wanted(w) = todo[1] /\ Wanted(w) \in RowLock /\ Tail(todo) \in Seq(RowLock)
        /\ Len(todo) \in Nat \ {0} /\ DOMAIN todo = 1..Len(todo)
        /\ Len(Tail(todo)) = Len(todo) - 1 /\ DOMAIN Tail(todo) = 1..(Len(todo) - 1)
        /\ \A j \in 1..(Len(todo) - 1) : Tail(todo)[j] = todo[j + 1]
    BY <1>2 DEF Wanted
  <1>4. ASSUME NEW i \in 1..Len(todo)
        PROVE  todo[i] = Wanted(w) \/ \E j \in DOMAIN Tail(todo) : Tail(todo)[j] = todo[i]
    <2>1. CASE i = 1
      BY <1>3, <2>1
    <2>2. CASE i # 1
      <3>1. i - 1 \in 1..(Len(todo) - 1) /\ (i - 1) + 1 = i
        BY <1>3, <2>2
      <3>2. i - 1 \in DOMAIN Tail(todo) /\ Tail(todo)[i - 1] = todo[i]
        BY <1>3, <3>1
      <3>. HIDE DEF todo
      <3>. QED
        BY <3>2
    <2>. QED
      BY <2>1, <2>2
  <1>. HIDE DEF todo
  <1>5. ASSUME NEW j \in DOMAIN Tail(todo)
        PROVE  \E i \in DOMAIN todo : Tail(todo)[j] = todo[i]
    <2>1. j + 1 \in DOMAIN todo /\ Tail(todo)[j] = todo[j + 1]
      BY <1>3
    <2>. QED
      BY <2>1
  <1>. QED
    BY <1>1, <1>2, <1>3, <1>4, <1>5 DEF todo

LEMMA GrantInv ==
  ASSUME Inv, NEW w \in Workers, tx[w].todo # << >>, NEW t \in Tx, Grant(w, t),
         Sound(t, locks[w] \union {Wanted(w)})
  PROVE  Inv'
  <1>. DEFINE held == locks[w] \union {Wanted(w)}
  <1>1. locks' = [locks EXCEPT ![w] = held] /\ tx' = [tx EXCEPT ![w] = t] /\ UNCHANGED rows
    BY DEF Grant
  <1>2. Free(w, held)
    BY DEF Grant, Free, Inv, TypeOK
  <1>3. held \in SUBSET RowLock
    BY Wanting
  <1>. HIDE DEF held
  <1>. QED
    BY <1>1, <1>2, <1>3, SameRows, StepInv DEF held

LEMMA BeginInv ==
  ASSUME Inv, NEW w \in Workers, NEW t \in Tx, Begin(w, t), Sound(t, {})
  PROVE  Inv'
  <1>1. locks[w] = {}
    BY DEF Begin, Inv, Sound
  <1>2. locks' = [locks EXCEPT ![w] = {}] /\ UNCHANGED rows /\ tx' = [tx EXCEPT ![w] = t]
    BY <1>1 DEF Begin, rows, Inv, TypeOK
  <1>3. Free(w, {})
    BY DEF Free
  <1>. QED
    BY <1>2, <1>3, SameRows, StepInv

\* A transaction goes on without another lock
LEMMA ContinueInv ==
  ASSUME Inv, NEW w \in Workers, NEW t \in Tx, tx' = [tx EXCEPT ![w] = t],
         UNCHANGED <<stock, orders, payments, locks>>, Sound(t, locks[w])
  PROVE  Inv'
  <1>1. locks' = [locks EXCEPT ![w] = locks[w]] /\ UNCHANGED rows /\ locks[w] \in SUBSET RowLock
    BY DEF rows, Inv, TypeOK
  <1>2. Free(w, locks[w])
    BY DEF Free, Inv, TypeOK
  <1>. QED
    BY <1>1, <1>2, SameRows, StepInv

LEMMA RollbackInv ==
  ASSUME Inv, NEW w \in Workers, Rollback(w)
  PROVE  Inv'
  <1>1. Free(w, {})
    BY DEF Free
  <1>2. tx' = [tx EXCEPT ![w] = Idle] /\ locks' = [locks EXCEPT ![w] = {}] /\ UNCHANGED rows
    BY DEF Rollback, End
  <1>. QED
    BY <1>1, <1>2, IdleSound, SameRows, StepInv

-----------------------------------------------------------------------------
(***************************************************************************)
(* Settling and expiry.                                                    *)
(***************************************************************************)
LEMMA PaymentRow ==
  ASSUME TypeOK, NEW p \in PaymentIds, payments[p].status # "none"
  PROVE  payments[p] # NoPayment
  BY DEF NoPayment

\* The order of a payment is there
LEMMA OrderOfPayment ==
  ASSUME Inv, NEW p \in PaymentIds, payments[p] # NoPayment
  PROVE  /\ payments[p].order \in OrderIds /\ orders[payments[p].order] # NoOrder
         /\ orders[payments[p].order] \in [status : OrderStatus, lines : Carts]
  <1>1. payments[p] \in [status : PaymentStatus, order : OrderIds]
    BY DEF Inv, TypeOK
  <1>2. payments[p].order \in OrderIds /\ orders[payments[p].order] # NoOrder
    BY <1>1 DEF Inv, RowsSound, References
  <1>. QED
    BY <1>2 DEF Inv, TypeOK

LEMMA SettleInv ==
  ASSUME Inv, NEW w \in Workers, NEW p \in PaymentIds, NEW status \in Answers, Settle(w, p, status)
  PROVE  Inv'
  <1>. DEFINE t == [op |-> "settle", todo |-> <<Lock("payments", p, "for update")>>,
                    payment |-> p, status |-> status, order |-> None,
                    left |-> [q \in Products |-> None]]
  <1>1. Begin(w, t) /\ payments[p] # NoPayment
    BY PaymentRow DEF Settle, Inv
  <1>2. Lock("payments", p, "for update") \in RowLock
    BY LocksTyped DEF Exclusive
  <1>3. t \in Settlement
    <2>1. <<Lock("payments", p, "for update")>> \in Seq(RowLock)
      BY <1>2, SequenceOfOne
    <2>. QED
      BY <2>1 DEF Settlement
  <1>4. Sound(t, {})
    BY <1>1 DEF Sound, Settling, Idle, Exclusive
  <1>5. t \in Tx
    BY <1>3 DEF Tx
  <1>. HIDE DEF t
  <1>. QED
    BY <1>1, <1>4, <1>5, BeginInv

\* The lock that a settlement waits for tells how far it has got
LEMMA SettlementWaits ==
  ASSUME Inv, NEW w \in Workers, tx[w].op = "settle", tx[w].todo # << >>
  PROVE  LET t == tx[w] IN
         /\ t \in Settlement /\ Settling(t, locks[w])
         /\ t.payment \in PaymentIds /\ payments[t.payment] # NoPayment
         /\ Wanted(w).table \in {"payments", "orders"} =>
              t.order = None /\ \A q \in Products : t.left[q] = None
         /\ Wanted(w).table = "orders" =>
              t.todo = <<Exclusive("orders", payments[t.payment].order)>>
         /\ Wanted(w).table = "products" => t.order \in OrderIds
  <1>. DEFINE t == tx[w]
  <1>1. t \in Settlement /\ Settling(t, locks[w]) /\ Wanted(w) = t.todo[1] /\ 1 \in DOMAIN t.todo
    BY Wanting, Kinds DEF Sound
  <1>2. t.payment \in PaymentIds /\ payments[t.payment] # NoPayment
    BY <1>1 DEF Settlement, Settling
  <1>. HIDE DEF t
  <1>3. \A table, id : Exclusive(table, id).table = table
    BY LockFields, ZenonT(30)
  <1>4. CASE t.order = None /\ \A q \in Products : t.left[q] = None
    <2>1. t.todo \in {<<Exclusive("payments", t.payment)>>,
                     <<Exclusive("orders", payments[t.payment].order)>>}
      BY <1>1, <1>4, RowLocksAssumption DEF Settling, t
    <2>2. \/ t.todo = <<Exclusive("payments", t.payment)>> /\ Wanted(w).table = "payments"
          \/ t.todo = <<Exclusive("orders", payments[t.payment].order)>> /\ Wanted(w).table = "orders"
      BY <1>1, <1>3, <2>1
    <2>. QED
      BY <1>1, <1>2, <1>4, <2>2 DEF t
  <1>5. CASE t.order \in OrderIds /\ \A i \in DOMAIN t.todo : \E q \in Products : t.todo[i] = Exclusive("products", q)
    <2>1. Wanted(w).table = "products"
      BY <1>1, <1>3, <1>5
    <2>. QED
      BY <1>1, <1>2, <1>5, <2>1 DEF t
  <1>. QED
    BY <1>1, <1>4, <1>5 DEF Settling

LEMMA SettlePaymentInv ==
  ASSUME Inv, NEW w \in Workers, SettlePayment(w)
  PROVE  Inv'
  <1>1. tx[w].todo # << >> /\ tx[w].op = "settle" /\ Wanted(w).table = "payments"
    BY DEF SettlePayment, Wants, Wanted
  <1>2. tx[w] \in Settlement /\ tx[w].order = None /\ \A q \in Products : tx[w].left[q] = None
    BY <1>1, SettlementWaits
  <1>4. tx[w].payment \in PaymentIds /\ payments[tx[w].payment] # NoPayment
    BY <1>1, SettlementWaits
  <1>5. PICK todo \in {<< >>, <<Exclusive("orders", payments[tx[w].payment].order)>>} :
          Grant(w, [tx[w] EXCEPT !.todo = todo])
    BY DEF SettlePayment, Exclusive
  <1>. DEFINE t == [tx[w] EXCEPT !.todo = todo]
  <1>6. todo \in Seq(RowLock)
    <2>1. Exclusive("orders", payments[tx[w].payment].order) \in RowLock
      BY <1>4, OrderOfPayment, LocksTyped
    <2>2. <<Exclusive("orders", payments[tx[w].payment].order)>> \in Seq(RowLock)
      BY <2>1, SequenceOfOne
    <2>3. << >> \in Seq(RowLock)
      OBVIOUS
    <2>. QED
      BY <2>2, <2>3
  <1>7. t \in Settlement
    BY <1>2, <1>6 DEF Settlement
  <1>8. Sound(t, locks[w] \union {Wanted(w)})
    <2>1. t.op = "settle" /\ t.order = None /\ t.payment = tx[w].payment /\ t.left = tx[w].left /\ t.todo = todo
      BY <1>1, <1>2 DEF Settlement
    <2>. HIDE DEF t
    <2>. QED
      BY <1>2, <1>4, <2>1 DEF Sound, Settling, Idle
  <1>9. t \in Tx
    BY <1>7 DEF Tx
  <1>. HIDE DEF t
  <1>. QED
    BY <1>1, <1>5, <1>8, <1>9, GrantInv DEF t

LEMMA SettleOrderInv ==
  ASSUME Inv, NEW w \in Workers, SettleOrder(w)
  PROVE  Inv'
  <1>. DEFINE o == Wanted(w).id
              products == [i \in DOMAIN orders[o].lines |-> orders[o].lines[i].product]
              todo == Locks("products", products, "for update")
  <1>1. tx[w].todo # << >> /\ tx[w].op = "settle" /\ Wanted(w).table = "orders"
    BY DEF SettleOrder, Wants, Wanted
  <1>2. tx[w] \in Settlement /\ Settling(tx[w], locks[w])
    BY <1>1, SettlementWaits
  <1>3. /\ tx[w].order = None /\ tx[w].todo = <<Exclusive("orders", payments[tx[w].payment].order)>>
        /\ \A q \in Products : tx[w].left[q] = None
    BY <1>1, SettlementWaits
  <1>4. tx[w].payment \in PaymentIds /\ payments[tx[w].payment] # NoPayment
    BY <1>1, SettlementWaits
  <1>5. o = payments[tx[w].payment].order /\ Wanted(w) = Exclusive("orders", o)
    <2>1. Wanted(w) = Exclusive("orders", payments[tx[w].payment].order)
      BY <1>3 DEF Wanted
    <2>2. Exclusive("orders", payments[tx[w].payment].order).id = payments[tx[w].payment].order
      BY Zenon DEF Exclusive, Lock
    <2>3. o = payments[tx[w].payment].order
      BY <2>1, <2>2
    <2>. QED
      BY <2>1, <2>3
  <1>6. o \in OrderIds /\ orders[o] \in [status : OrderStatus, lines : Carts]
    BY <1>4, <1>5, OrderOfPayment
  <1>. HIDE DEF o
  <1>7. CASE orders[o].status = "paid"
    <2>. DEFINE t == [tx[w] EXCEPT !.todo = << >>]
    <2>1. Grant(w, t)
      BY <1>3, <1>7 DEF SettleOrder, Rest, o
    <2>2. t \in Settlement /\ t.todo = << >> /\ t.op = "settle" /\ t.order = None
          /\ t.left = tx[w].left /\ t.payment = tx[w].payment
      <3>1. << >> \in Seq(RowLock)
        OBVIOUS
      <3>. QED
        BY <1>2, <1>3, <3>1 DEF Settlement
    <2>. HIDE DEF t
    <2>3. Sound(t, locks[w] \union {Wanted(w)})
      BY <1>3, <1>4, <2>2 DEF Sound, Settling, Idle
    <2>. QED
      BY <1>1, <2>1, <2>2, <2>3, GrantInv DEF Tx
  <1>8. CASE orders[o].status # "paid"
    <2>. DEFINE t == [tx[w] EXCEPT !.order = o, !.todo = todo]
    <2>1. Grant(w, t)
      BY <1>8 DEF SettleOrder, o
    <2>2. orders[o].lines \in Carts /\ orders[o].lines \in Seq(Line)
      BY <1>6, RowLocksAssumption
    <2>3. /\ DOMAIN todo = DOMAIN orders[o].lines
          /\ \A i \in DOMAIN todo : todo[i] = Exclusive("products", orders[o].lines[i].product)
      BY DEF Locks, Exclusive
    <2>4. \A i \in DOMAIN todo : orders[o].lines[i].product \in Products
      BY <2>2, <2>3, UnitsListed
    <2>5. todo \in Seq(RowLock)
      <3>1. todo \in [1..Len(orders[o].lines) -> RowLock]
        BY <2>2, <2>3, <2>4, LocksTyped, SequenceOf, ZenonT(30) DEF Locks
      <3>. QED
        BY <2>2, <3>1, SequenceOf, SequenceFrom
    <2>. HIDE DEF todo
    <2>6. t \in Settlement /\ t.todo = todo /\ t.op = "settle" /\ t.order = o
          /\ t.left = tx[w].left /\ t.payment = tx[w].payment
      BY <1>2, <1>6, <2>5 DEF Settlement
    <2>. HIDE DEF t
    <2>7. orders[o].status \in {"pending", "canceled"}
      BY <1>6, <1>8 DEF OrderStatus
    <2>8. \A q \in Products : Units(orders[o].lines)[q] > 0 =>
            \E i \in DOMAIN todo : todo[i] = Exclusive("products", q)
      BY <2>2, <2>3, UnitsListed
    <2>9. Settling(t, locks[w] \union {Wanted(w)})
      BY <1>3, <1>4, <1>5, <1>6, <2>3, <2>4, <2>6, <2>7, <2>8 DEF Settling
    <2>10. Sound(t, locks[w] \union {Wanted(w)})
      BY <2>6, <2>9 DEF Sound, Idle
    <2>. QED
      BY <1>1, <2>1, <2>6, <2>10, GrantInv DEF Tx
  <1>. QED
    BY <1>7, <1>8

LEMMA SettleProductInv ==
  ASSUME Inv, NEW w \in Workers, SettleProduct(w)
  PROVE  Inv'
  <1>. DEFINE q == Wanted(w).id
              o == tx[w].order
              n == Units(orders[o].lines)[q]
  <1>1. tx[w].todo # << >> /\ tx[w].op = "settle" /\ Wanted(w).table = "products"
    BY DEF SettleProduct, Wants, Wanted
  <1>2. tx[w] \in Settlement /\ Settling(tx[w], locks[w]) /\ o \in OrderIds /\ o # None
    BY <1>1, SettlementWaits, RowLocksAssumption
  <1>3. PICK p \in Products : Wanted(w) = Exclusive("products", p)
    <2>1. Wanted(w) = tx[w].todo[1] /\ 1 \in DOMAIN tx[w].todo
      BY <1>1, Wanting
    <2>. QED
      BY <1>2, <2>1 DEF Settling
  <1>4. q = p
    <2>1. Exclusive("products", p).id = p
      BY Zenon DEF Exclusive, Lock
    <2>. QED
      BY <1>3, <2>1
  <1>5. orders[o].status \in {"pending", "canceled"} /\ orders[o] \in [status : OrderStatus, lines : Carts]
    BY <1>2, SMTT(30) DEF Settling, Inv, TypeOK, NoOrder
  <1>6. n \in Nat
    <2>1. orders[o].lines \in Carts
      BY <1>5
    <2>. QED
      BY <1>4, <2>1, UnitsListed
  <1>7. CASE Rollback(w)
    BY <1>7, RollbackInv
  <1>8. CASE ~Rollback(w)
    <2>. DEFINE left == [tx[w].left EXCEPT ![q] = stock[q] - n]
                t == [Rest(w) EXCEPT !.left[q] = stock[q] - n]
    <2>1. There(q) /\ n <= stock[q] /\ Grant(w, t)
      BY <1>8 DEF SettleProduct
    <2>2. stock[q] \in Nat
      BY <1>4, <2>1 DEF There, Inv, TypeOK
    <2>3. left \in [Products -> Nat \union {None}]
      BY <1>2, <1>4, <1>6, <2>1, <2>2 DEF Settlement
    <2>4. left[q] = stock[q] - n /\ \A x \in Products \ {q} : left[x] = tx[w].left[x]
      BY <1>2, <1>4 DEF Settlement
    <2>. HIDE DEF left, n
    <2>5. /\ t.op = "settle" /\ t.todo = Tail(tx[w].todo) /\ t.payment = tx[w].payment
          /\ t.order = o /\ t.left = left /\ t \in Settlement
      BY <1>1, <1>2, <2>3, Wanting DEF Settlement, Rest, left
    <2>. HIDE DEF t, o, q
    <2>6. /\ t.payment \in PaymentIds /\ payments[t.payment] # NoPayment
          /\ Exclusive("orders", o) \in locks[w]
      BY <1>1, <1>2, <2>5, SettlementWaits DEF Settling, o
    <2>7. \A i \in DOMAIN t.todo : \E x \in Products : t.todo[i] = Exclusive("products", x)
      <3>1. \A i \in DOMAIN tx[w].todo : \E x \in Products : tx[w].todo[i] = Exclusive("products", x)
        BY <1>2 DEF Settling, o
      <3>. QED
        BY <1>1, <2>5, <3>1, Wanting
    <2>8. ASSUME NEW x \in Products, t.left[x] # None
          PROVE  /\ There(x) /\ Exclusive("products", x) \in locks[w] \union {Wanted(w)}
                 /\ Units(orders[o].lines)[x] <= stock[x]
                 /\ t.left[x] = stock[x] - Units(orders[o].lines)[x]
      <3>1. CASE x = q
        BY <1>3, <1>4, <2>1, <2>4, <2>5, <3>1 DEF n
      <3>2. CASE x # q
        <4>1. tx[w].left[x] # None
          BY <2>4, <2>5, <2>8, <3>2
        <4>. QED
          BY <1>2, <2>4, <2>5, <3>2, <4>1 DEF Settling, o
      <3>. QED
        BY <3>1, <3>2
    <2>9. ASSUME NEW x \in Products, Units(orders[o].lines)[x] > 0
          PROVE  t.left[x] # None \/ \E i \in DOMAIN t.todo : t.todo[i] = Exclusive("products", x)
      <3>1. CASE x = q
        <4>1. stock[q] - n \in Nat
          BY <1>6, <2>1, <2>2
        <4>. QED
          BY <2>4, <2>5, <3>1, <4>1, RowLocksAssumption
      <3>2. CASE x # q
        <4>1. tx[w].left[x] # None \/ \E i \in DOMAIN tx[w].todo : tx[w].todo[i] = Exclusive("products", x)
          BY <1>2, <2>9 DEF Settling, o
        <4>2. Exclusive("products", x) # Wanted(w)
          BY <1>3, <1>4, <3>2, LockIds
        <4>3. CASE tx[w].left[x] # None
          BY <2>4, <2>5, <3>2, <4>3
        <4>4. CASE \E i \in DOMAIN tx[w].todo : tx[w].todo[i] = Exclusive("products", x)
          <5>1. PICK i \in DOMAIN tx[w].todo : tx[w].todo[i] = Exclusive("products", x)
            BY <4>4
          <5>2. PICK j \in DOMAIN Tail(tx[w].todo) : Tail(tx[w].todo)[j] = tx[w].todo[i]
            BY <1>1, <4>2, <5>1, Wanting
          <5>. QED
            BY <2>5, <5>1, <5>2
        <4>. QED
          BY <4>1, <4>3, <4>4
      <3>. QED
        BY <3>1, <3>2
    <2>10. Settling(t, locks[w] \union {Wanted(w)})
      BY <1>2, <1>5, <2>5, <2>6, <2>7, <2>8, <2>9 DEF Settling
    <2>11. Sound(t, locks[w] \union {Wanted(w)})
      BY <2>5, <2>10 DEF Sound, Idle
    <2>. QED
      BY <1>1, <2>1, <2>5, <2>11, GrantInv DEF Tx
  <1>. QED
    BY <1>7, <1>8

\* A transaction commits
LEMMA CommitInv ==
  ASSUME Inv, NEW w \in Workers, End(w), Preserves(locks[w]), RowsSound',
         stock' \in [Products -> Nat \union {Unborn, Gone}],
         orders' \in [OrderIds -> [status : OrderStatus, lines : Carts] \union {NoOrder}],
         payments' \in [PaymentIds -> [status : PaymentStatus, order : OrderIds] \union {NoPayment}]
  PROVE  Inv'
  <1>1. Free(w, {})
    BY DEF Free
  <1>2. tx' = [tx EXCEPT ![w] = Idle] /\ locks' = [locks EXCEPT ![w] = {}]
    BY DEF End
  <1>. QED
    BY <1>1, <1>2, IdleSound, StepInv

\* What the commit of a settlement sells, if anything
LEMMA Sold ==
  ASSUME Inv, NEW w \in Workers, CommitSettle(w)
  PROVE  \/ stock' = stock /\ orders' = orders
         \/ \E o \in OrderIds :
              /\ orders[o] \in [status : {"pending", "canceled"}, lines : Carts]
              /\ Exclusive("orders", o) \in locks[w]
              /\ orders' = [orders EXCEPT ![o].status = "paid"]
              /\ stock' \in [Products -> Nat \union {Unborn, Gone}]
              /\ \A q \in Products :
                   \/ /\ There(q) /\ Exclusive("products", q) \in locks[w]
                      /\ Units(orders[o].lines)[q] <= stock[q]
                      /\ stock'[q] = stock[q] - Units(orders[o].lines)[q]
                   \/ Units(orders[o].lines)[q] = 0 /\ stock'[q] = stock[q]
  <1>1. tx[w] \in Settlement /\ Settling(tx[w], locks[w]) /\ tx[w].todo = << >>
    <2>1. tx[w] \in Tx /\ Sound(tx[w], locks[w]) /\ tx[w].op = "settle" /\ tx[w].todo = << >>
      BY DEF CommitSettle, Inv, TypeOK
    <2>. QED
      BY <2>1, Kinds DEF Sound
  <1>2. stock \in [Products -> Nat \union {Unborn, Gone}]
        /\ orders \in [OrderIds -> [status : OrderStatus, lines : Carts] \union {NoOrder}]
    BY DEF Inv, TypeOK
  <1>3. CASE tx[w].order = None /\ \A q \in Products : tx[w].left[q] = None
    <2>1. orders' = [x \in OrderIds |-> orders[x]] /\ stock' = [q \in Products |-> stock[q]]
      BY <1>3, RowLocksAssumption DEF CommitSettle
    <2>. QED
      BY <1>2, <2>1
  <1>4. CASE tx[w].order \in OrderIds
    <2>. DEFINE o == tx[w].order
                units == Units(orders[o].lines)
    <2>1. o # None
      BY <1>4, RowLocksAssumption
    <2>2. orders[o].status \in {"pending", "canceled"} /\ Exclusive("orders", o) \in locks[w]
      BY <1>1, <2>1 DEF Settling
    <2>3. orders[o] \in [status : {"pending", "canceled"}, lines : Carts]
      BY <1>2, <1>4, <2>2 DEF NoOrder
    <2>4. orders' = [orders EXCEPT ![o].status = "paid"]
      BY <1>2, <1>4 DEF CommitSettle
    <2>5. units \in [Products -> Nat]
      BY <2>3, UnitsListed
    <2>6. ASSUME NEW q \in Products
          PROVE  \/ /\ There(q) /\ Exclusive("products", q) \in locks[w]
                    /\ units[q] <= stock[q] /\ stock'[q] = stock[q] - units[q]
                 \/ units[q] = 0 /\ stock'[q] = stock[q]
      <3>1. CASE tx[w].left[q] # None
        BY <1>1, <2>1, <3>1 DEF CommitSettle, Settling
      <3>2. CASE tx[w].left[q] = None
        <4>1. ~(units[q] > 0)
          BY <1>1, <2>1, <3>2, SMTT(30) DEF Settling
        <4>2. units[q] = 0
          BY <2>5, <4>1
        <4>. QED
          BY <3>2, <4>2 DEF CommitSettle
      <3>. QED
        BY <3>1, <3>2
    <2>7. ASSUME NEW q \in Products
          PROVE  stock'[q] \in Nat \union {Unborn, Gone}
      BY <1>2, <2>5, <2>6 DEF There
    <2>8. stock' \in [Products -> Nat \union {Unborn, Gone}]
      BY <2>7 DEF CommitSettle
    <2>. QED
      BY <1>4, <2>2, <2>3, <2>4, <2>6, <2>8
  <1>. QED
    BY <1>1, <1>3, <1>4 DEF Settling

LEMMA CommitSettleInv ==
  ASSUME Inv, NEW w \in Workers, CommitSettle(w)
  PROVE  Inv'
  <1>1. /\ stock \in [Products -> Nat \union {Unborn, Gone}]
        /\ orders \in [OrderIds -> [status : OrderStatus, lines : Carts] \union {NoOrder}]
        /\ payments \in [PaymentIds -> [status : PaymentStatus, order : OrderIds] \union {NoPayment}]
        /\ RowsSound
    BY DEF Inv, TypeOK
  <1>2. /\ payments' \in [PaymentIds -> [status : PaymentStatus, order : OrderIds] \union {NoPayment}]
        /\ \A p \in PaymentIds :
             /\ payments'[p] # NoPayment <=> payments[p] # NoPayment
             /\ payments'[p].order = payments[p].order
    <2>1. tx[w] \in Settlement /\ Settling(tx[w], locks[w])
      <3>1. tx[w] \in Tx /\ Sound(tx[w], locks[w]) /\ tx[w].op = "settle"
        BY DEF CommitSettle, Inv, TypeOK
      <3>. QED
        BY <3>1, Kinds DEF Sound
    <2>2. /\ tx[w].payment \in PaymentIds /\ payments[tx[w].payment] # NoPayment
          /\ tx[w].status \in PaymentStatus
      BY <2>1, RowLocksAssumption DEF Settlement, Settling
    <2>3. "none" \notin PaymentStatus
      BY DEF PaymentStatus, OpenStatuses, FinalStatuses
    <2>. DEFINE row == [payments[tx[w].payment] EXCEPT !.status = tx[w].status]
    <2>4. row \in [status : PaymentStatus, order : OrderIds] /\ row.order = payments[tx[w].payment].order
      BY <1>1, <2>2
    <2>5. row # NoPayment
      BY <2>3, <2>4 DEF NoPayment
    <2>6. payments' = [payments EXCEPT ![tx[w].payment] = row]
      BY DEF CommitSettle
    <2>. HIDE DEF row
    <2>. QED
      BY <1>1, <2>2, <2>4, <2>5, <2>6
  <1>. DEFINE Effect ==
        /\ stock' \in [Products -> Nat \union {Unborn, Gone}]
        /\ orders' \in [OrderIds -> [status : OrderStatus, lines : Carts] \union {NoOrder}]
        /\ \A o \in OrderIds :
             /\ orders'[o] # NoOrder <=> orders[o] # NoOrder
             /\ orders'[o].lines = orders[o].lines
             /\ orders'[o].status = orders[o].status \/ Exclusive("orders", o) \in locks[w]
        /\ \A q \in Products :
             /\ There(q) <=> There(q)'
             /\ stock'[q] = stock[q] \/ (Exclusive("products", q) \in locks[w] /\ Ordered(q))
  <1>3. Effect
    <2>1. CASE stock' = stock /\ orders' = orders
      BY <1>1, <2>1 DEF There
    <2>2. ASSUME NEW o \in OrderIds,
                 orders[o] \in [status : {"pending", "canceled"}, lines : Carts],
                 Exclusive("orders", o) \in locks[w],
                 orders' = [orders EXCEPT ![o].status = "paid"],
                 stock' \in [Products -> Nat \union {Unborn, Gone}],
                 \A q \in Products :
                   \/ /\ There(q) /\ Exclusive("products", q) \in locks[w]
                      /\ Units(orders[o].lines)[q] <= stock[q]
                      /\ stock'[q] = stock[q] - Units(orders[o].lines)[q]
                   \/ Units(orders[o].lines)[q] = 0 /\ stock'[q] = stock[q]
          PROVE  Effect
      <3>1. Units(orders[o].lines) \in [Products -> Nat]
        BY <2>2, UnitsListed
      <3>2. ASSUME NEW q \in Products
            PROVE  /\ There(q) <=> There(q)'
                   /\ stock'[q] = stock[q] \/ (Exclusive("products", q) \in locks[w] /\ Ordered(q))
        <4>1. CASE Units(orders[o].lines)[q] = 0
          <5>1. stock'[q] = stock[q]
            BY <1>1, <2>2, <4>1 DEF There
          <5>. QED
            BY <5>1 DEF There
        <4>2. CASE Units(orders[o].lines)[q] # 0
          <5>1. Units(orders[o].lines)[q] > 0
            BY <3>1, <4>2
          <5>2. There(q) /\ stock[q] \in Nat /\ stock'[q] \in Nat /\ Exclusive("products", q) \in locks[w]
            BY <1>1, <2>2, <3>1, <4>2 DEF There
          <5>. QED
            BY <5>1, <5>2, RowLocksAssumption DEF There, Ordered
        <4>. QED
          BY <4>1, <4>2
      <3>3. orders'[o].status = "paid" /\ orders'[o].lines = orders[o].lines
            /\ orders'[o] \in [status : OrderStatus, lines : Carts]
        BY <1>1, <2>2 DEF OrderStatus
      <3>4. orders[o] # NoOrder /\ orders'[o] # NoOrder
        BY <2>2, <3>3 DEF NoOrder
      <3>. QED
        BY <1>1, <2>2, <3>2, <3>3, <3>4
    <2>. QED
      BY <2>1, <2>2, Sold
  <1>4. Preserves(locks[w])
    BY <1>2, <1>3 DEF Preserves
  <1>5. \A q \in Products : Ordered(q)' <=> Ordered(q)
    BY <1>3 DEF Ordered
  <1>6. RowsSound'
    <2>1. References'
      BY <1>1, <1>2, <1>3 DEF RowsSound, References
    <2>2. ItemsKept' /\ Untouched'
      BY <1>1, <1>3, <1>5 DEF RowsSound, ItemsKept, Untouched
    <2>3. /\ {o \in OrderIds : orders'[o] # NoOrder} = {o \in OrderIds : orders[o] # NoOrder}
          /\ {p \in PaymentIds : payments'[p] # NoPayment} = {p \in PaymentIds : payments[p] # NoPayment}
      BY <1>2, <1>3
    <2>4. Finite'
      BY <1>1, <2>3 DEF RowsSound, Finite
    <2>. QED
      BY <2>1, <2>2, <2>4 DEF RowsSound
  <1>7. End(w)
    BY DEF CommitSettle
  <1>. QED
    BY <1>2, <1>3, <1>4, <1>6, <1>7, CommitInv

-----------------------------------------------------------------------------
(***************************************************************************)
(* Commits that sell nothing: orders and payments are inserted, orders     *)
(* that are pending and locked are canceled, payments change their status. *)
(***************************************************************************)
Writes(w) ==
  /\ stock' = stock
  /\ orders' \in [OrderIds -> [status : OrderStatus, lines : Carts] \union {NoOrder}]
  /\ payments' \in [PaymentIds -> [status : PaymentStatus, order : OrderIds] \union {NoPayment}]
  /\ \A o \in OrderIds :
       /\ orders[o] # NoOrder =>
            /\ orders'[o] # NoOrder /\ orders'[o].lines = orders[o].lines
            /\ \/ orders'[o].status = orders[o].status
               \/ /\ orders[o].status = "pending" /\ orders'[o].status = "canceled"
                  /\ Exclusive("orders", o) \in locks[w]
       /\ orders[o] = NoOrder =>
            /\ orders'[o].status # "paid"
            /\ \A i \in DOMAIN orders'[o].lines : There(orders'[o].lines[i].product)
  /\ \A p \in PaymentIds :
       /\ payments[p] # NoPayment =>
            payments'[p] # NoPayment /\ payments'[p].order = payments[p].order
       /\ payments[p] = NoPayment /\ payments'[p] # NoPayment => orders'[payments'[p].order] # NoOrder
  /\ Finite'

LEMMA FiniteGrows ==
  ASSUME NEW old, NEW new, NEW e, IsFiniteSet(old), new \subseteq old \union {e}
  PROVE  IsFiniteSet(new)
  BY FS_AddElement, FS_Subset

LEMMA WritesInv ==
  ASSUME Inv, NEW w \in Workers, End(w), Writes(w)
  PROVE  Inv'
  <1>1. /\ stock \in [Products -> Nat \union {Unborn, Gone}]
        /\ orders \in [OrderIds -> [status : OrderStatus, lines : Carts] \union {NoOrder}]
        /\ payments \in [PaymentIds -> [status : PaymentStatus, order : OrderIds] \union {NoPayment}]
        /\ RowsSound
    BY DEF Inv, TypeOK
  <1>2. Preserves(locks[w])
    BY DEF Writes, Preserves
  <1>3. References'
    <2>. SUFFICES ASSUME NEW p \in PaymentIds, payments'[p] # NoPayment
                  PROVE  orders'[payments'[p].order] # NoOrder
      BY DEF References
    <2>1. CASE payments[p] = NoPayment
      BY <2>1 DEF Writes
    <2>2. CASE payments[p] # NoPayment
      BY <2>2, OrderOfPayment DEF Writes
    <2>. QED
      BY <2>1, <2>2
  <1>4. \A o \in OrderIds : orders[o].lines \in Carts \union {<< >>} /\ orders'[o].lines \in Carts \union {<< >>}
    BY <1>1 DEF Writes, NoOrder
  <1>5. ASSUME NEW q \in Products
        PROVE  (Ordered(q) => Ordered(q)') /\ (Ordered(q)' => Ordered(q) \/ There(q))
    <2>1. ASSUME NEW o \in OrderIds
          PROVE  /\ Units(orders[o].lines)[q] > 0 => Units(orders'[o].lines)[q] > 0
                 /\ Units(orders'[o].lines)[q] > 0 => Units(orders[o].lines)[q] > 0 \/ There(q)
      <3>1. CASE orders[o] # NoOrder
        BY <3>1 DEF Writes
      <3>2. CASE orders[o] = NoOrder
        <4>1. ~(Units(orders[o].lines)[q] > 0)
          BY <1>4, <3>2, UnitsListed DEF NoOrder
        <4>2. Units(orders'[o].lines)[q] > 0 => \E i \in DOMAIN orders'[o].lines : orders'[o].lines[i].product = q
          BY <1>4, UnitsListed
        <4>. QED
          BY <3>2, <4>1, <4>2 DEF Writes
      <3>. QED
        BY <3>1, <3>2
    <2>. QED
      BY <2>1 DEF Ordered
  <1>6. \A q \in Products : There(q) <=> There(q)'
    BY DEF Writes, There
  <1>7. ItemsKept' /\ Untouched'
    BY <1>1, <1>5, <1>6 DEF RowsSound, ItemsKept, Untouched, Writes
  <1>8. RowsSound'
    BY <1>3, <1>7 DEF RowsSound, Writes
  <1>. QED
    BY <1>1, <1>2, <1>8, CommitInv DEF Writes

-----------------------------------------------------------------------------
(***************************************************************************)
(* Expiry.                                                                 *)
(***************************************************************************)
LEMMA ExpireInv ==
  ASSUME Inv, NEW w \in Workers, NEW p \in PaymentIds, Expire(w, p)
  PROVE  Inv'
  <1>. DEFINE t == [op |-> "expire", todo |-> <<Lock("payments", p, "for update")>>, payment |-> p]
  <1>1. Begin(w, t) /\ payments[p] # NoPayment
    BY PaymentRow DEF Expire, Inv
  <1>2. <<Exclusive("payments", p)>> \in Seq(RowLock)
    BY LocksTyped, SequenceOfOne
  <1>3. t \in Tx
    BY <1>2 DEF Tx, Expiry, Exclusive
  <1>4. Sound(t, {})
    BY <1>1 DEF Sound, First, Idle, Exclusive
  <1>. HIDE DEF t
  <1>. QED
    BY <1>1, <1>3, <1>4, BeginInv

LEMMA ExpirePaymentInv ==
  ASSUME Inv, NEW w \in Workers, ExpirePayment(w)
  PROVE  Inv'
  <1>1. tx[w].todo # << >> /\ tx[w].op = "expire" /\ Grant(w, Rest(w))
    BY DEF ExpirePayment, Wants
  <1>2. /\ tx[w] \in Expiry /\ payments[tx[w].payment] # NoPayment
        /\ tx[w].todo = <<Exclusive("payments", tx[w].payment)>>
    BY <1>1, Wanting, Kinds DEF Sound, First
  <1>3. Wanted(w) = Exclusive("payments", tx[w].payment) /\ Tail(tx[w].todo) = << >>
    BY <1>2 DEF Wanted
  <1>4. Rest(w) \in Expiry /\ Rest(w).todo = << >> /\ Rest(w).payment = tx[w].payment /\ Rest(w).op = "expire"
    BY <1>1, <1>2, <1>3, Wanting DEF Rest, Expiry
  <1>5. Sound(Rest(w), locks[w] \union {Wanted(w)})
    BY <1>2, <1>3, <1>4 DEF Sound, First, Idle
  <1>. QED
    BY <1>1, <1>4, <1>5, GrantInv DEF Tx

LEMMA CommitExpireWrites ==
  ASSUME Inv, NEW w \in Workers, CommitExpire(w)
  PROVE  Writes(w)
  <1>1. /\ orders \in [OrderIds -> [status : OrderStatus, lines : Carts] \union {NoOrder}]
        /\ payments \in [PaymentIds -> [status : PaymentStatus, order : OrderIds] \union {NoPayment}]
        /\ Finite
    BY DEF Inv, TypeOK, RowsSound
  <1>2. tx[w] \in Expiry /\ payments[tx[w].payment] # NoPayment
    <2>1. tx[w] \in Tx /\ Sound(tx[w], locks[w]) /\ tx[w].op = "expire"
      BY DEF CommitExpire, Inv, TypeOK
    <2>. QED
      BY <2>1, Kinds DEF Sound
  <1>. DEFINE p == tx[w].payment
              row == [payments[p] EXCEPT !.status = IF @ = "succeeded" THEN @ ELSE "closed"]
  <1>3. p \in PaymentIds /\ payments[p] \in [status : PaymentStatus, order : OrderIds]
    BY <1>1, <1>2 DEF Expiry
  <1>4. row \in [status : PaymentStatus, order : OrderIds] /\ row.order = payments[p].order
    BY <1>3 DEF PaymentStatus, FinalStatuses
  <1>5. row # NoPayment
    BY <1>4 DEF NoPayment, PaymentStatus, OpenStatuses, FinalStatuses
  <1>6. payments' = [payments EXCEPT ![p] = row] /\ orders' = orders /\ stock' = stock
    BY <1>1 DEF CommitExpire
  <1>. HIDE DEF row, p
  <1>7. \A x \in PaymentIds : /\ payments'[x] # NoPayment <=> payments[x] # NoPayment
                              /\ payments'[x].order = payments[x].order
    BY <1>1, <1>2, <1>3, <1>4, <1>5, <1>6 DEF p
  <1>8. Finite'
    <2>1. {x \in PaymentIds : payments'[x] # NoPayment} = {x \in PaymentIds : payments[x] # NoPayment}
      BY <1>7
    <2>. QED
      BY <1>1, <1>6, <2>1 DEF Finite
  <1>9. \A o \in OrderIds : orders[o] = NoOrder => orders'[o].status # "paid" /\ DOMAIN orders'[o].lines = {}
    BY <1>6 DEF NoOrder
  <1>. QED
    BY <1>1, <1>3, <1>4, <1>6, <1>7, <1>8, <1>9 DEF Writes

-----------------------------------------------------------------------------
(***************************************************************************)
(* Checkouts: superseding, resuming, creating.                             *)
(***************************************************************************)
\* The locks that the statements of a checkout take, in whatever order
LEMMA StatementLocks ==
  ASSUME Inv
  PROVE  /\ \A ids \in PendingOrders : Locks("orders", ids, "for update") \in Seq(RowLock)
         /\ \A o \in OrderIds : PaymentLocks(o) \subseteq Seq(RowLock)
  <1>1. ASSUME NEW ids \in PendingOrders
        PROVE  Locks("orders", ids, "for update") \in Seq(RowLock)
    <2>. DEFINE S == {o \in OrderIds : orders[o].status = "pending"}
    <2>1. S \subseteq {o \in OrderIds : orders[o] # NoOrder}
      BY DEF NoOrder
    <2>2. IsFiniteSet(S)
      BY <2>1, FS_Subset DEF Inv, RowsSound, Finite
    <2>3. \A id \in S : Lock("orders", id, "for update") \in RowLock
      BY LocksTyped DEF Exclusive
    <2>4. ids \in SetToSeqs(S)
      BY DEF PendingOrders
    <2>. HIDE DEF S
    <2>. QED
      BY <2>2, <2>3, <2>4, LocksOfSet
  <1>2. ASSUME NEW o \in OrderIds, NEW ids \in SetToSeqs(OpenPayments(o))
        PROVE  Locks("payments", ids, "for update") \in Seq(RowLock)
    <2>1. OpenPayments(o) \subseteq {p \in PaymentIds : payments[p] # NoPayment}
      BY DEF OpenPayments, NoPayment, OpenStatuses
    <2>2. IsFiniteSet(OpenPayments(o))
      BY <2>1, FS_Subset DEF Inv, RowsSound, Finite
    <2>3. \A id \in OpenPayments(o) : Lock("payments", id, "for update") \in RowLock
      BY LocksTyped DEF Exclusive, OpenPayments
    <2>. QED
      BY <2>2, <2>3, LocksOfSet
  <1>. QED
    BY <1>1, <1>2 DEF PaymentLocks

LEMMA InitiateInv ==
  ASSUME Inv, NEW w \in Workers, Initiate(w)
  PROVE  Inv'
  <1>1. PICK ids \in PendingOrders :
          Begin(w, [op |-> "initiate", todo |-> Locks("orders", ids, "for update"),
                    stale |-> << >>, orders |-> {}, payments |-> {}, lines |-> << >>])
    BY DEF Initiate
  <1>. DEFINE todo == Locks("orders", ids, "for update")
              t == [op |-> "initiate", todo |-> todo,
                    stale |-> << >>, orders |-> {}, payments |-> {}, lines |-> << >>]
  <1>2. todo \in Seq(RowLock)
    BY StatementLocks
  <1>. HIDE DEF todo
  <1>3. << >> \in Seq(OrderIds) /\ Range(<< >>) = {}
    BY DEF Range
  <1>4. t \in Tx
    BY <1>2, <1>3 DEF Tx, Initiation
  <1>5. Sound(t, {})
    <2>1. \A i \in DOMAIN todo : todo[i].mode = "for update"
      BY DEF todo, Locks, Lock
    <2>2. /\ t.op = "initiate" /\ t.todo = todo /\ t.stale = << >> /\ t.orders = {}
          /\ t.payments = {} /\ t.lines = << >>
      OBVIOUS
    <2>. HIDE DEF t
    <2>3. Superseding(t, {})
      BY <1>3, <2>1, <2>2 DEF Superseding
    <2>4. Canceling(t) /\ Reserving(t, {})
      BY <2>2 DEF Canceling, Reserving
    <2>. QED
      BY <2>2, <2>3, <2>4 DEF Sound, Idle
  <1>. QED
    BY <1>1, <1>4, <1>5, BeginInv DEF todo

\* A transaction that takes its next lock and remembers no more than it did
LEMMA ReservingKept ==
  ASSUME Inv, NEW w \in Workers, tx[w].todo # << >>, Reserving(tx[w], locks[w]), NEW t,
         t.lines = tx[w].lines, t.todo = Tail(tx[w].todo),
         Wanted(w).mode = "for update" \/ (Wanted(w).table = "products" => There(Wanted(w).id))
  PROVE  Reserving(t, locks[w] \union {Wanted(w)})
  <1>. SUFFICES ASSUME NEW i \in DOMAIN tx[w].lines
                PROVE  LET q == tx[w].lines[i].product IN
                       \/ There(q) /\ Shared("products", q) \in locks[w] \union {Wanted(w)}
                       \/ \E j \in DOMAIN Tail(tx[w].todo) : Tail(tx[w].todo)[j] = Shared("products", q)
    BY DEF Reserving
  <1>. DEFINE q == tx[w].lines[i].product
  <1>1. CASE There(q) /\ Shared("products", q) \in locks[w]
    BY <1>1
  <1>2. CASE Shared("products", q) = Wanted(w)
    <2>1. /\ Shared("products", q).mode = "key share" /\ Shared("products", q).table = "products"
          /\ Shared("products", q).id = q
      BY Zenon DEF Shared, Lock
    <2>2. Wanted(w).mode = "key share" /\ Wanted(w).table = "products" /\ Wanted(w).id = q
      BY <1>2, <2>1
    <2>3. There(q)
      BY <2>2
    <2>. QED
      BY <1>2, <2>3
  <1>3. CASE /\ Shared("products", q) # Wanted(w)
             /\ \E j \in DOMAIN tx[w].todo : tx[w].todo[j] = Shared("products", q)
    <2>1. PICK j \in DOMAIN tx[w].todo : tx[w].todo[j] = Shared("products", q)
      BY <1>3
    <2>2. \E i1 \in DOMAIN Tail(tx[w].todo) : Tail(tx[w].todo)[i1] = tx[w].todo[j]
      BY <1>3, <2>1, Wanting
    <2>. QED
      BY <2>1, <2>2
  <1>. QED
    BY <1>1, <1>2, <1>3 DEF Reserving

LEMMA SupersedingKept ==
  ASSUME Inv, NEW w \in Workers, tx[w].todo # << >>, Superseding(tx[w], locks[w]), NEW t,
         t.todo = Tail(tx[w].todo)
  PROVE  \A j \in DOMAIN t.todo : t.todo[j].table = "orders" => t.todo[j].mode = "for update"
  <1>. SUFFICES ASSUME NEW j \in DOMAIN Tail(tx[w].todo), Tail(tx[w].todo)[j].table = "orders"
                PROVE  Tail(tx[w].todo)[j].mode = "for update"
    OBVIOUS
  <1>1. PICK i \in DOMAIN tx[w].todo : Tail(tx[w].todo)[j] = tx[w].todo[i]
    BY Wanting
  <1>. QED
    BY <1>1 DEF Superseding

LEMMA SupersedeOrderInv ==
  ASSUME Inv, NEW w \in Workers, SupersedeOrder(w)
  PROVE  Inv'
  <1>. DEFINE o == Wanted(w).id
              held == locks[w] \union {Wanted(w)}
  <1>1. tx[w].todo # << >> /\ tx[w].op = "initiate" /\ Wanted(w).table = "orders"
    BY DEF SupersedeOrder, Wants, Wanted
  <1>2. /\ tx[w] \in Initiation
        /\ Superseding(tx[w], locks[w]) /\ Canceling(tx[w]) /\ Reserving(tx[w], locks[w])
    BY <1>1, Wanting, Kinds DEF Sound
  <1>3. Rest(w) \in Initiation /\ Rest(w).todo = Tail(tx[w].todo) /\ Rest(w).stale = tx[w].stale
        /\ Rest(w).op = "initiate" /\ Rest(w).orders = tx[w].orders
        /\ Rest(w).payments = tx[w].payments /\ Rest(w).lines = tx[w].lines
    BY <1>1, <1>2, Wanting DEF Rest, Initiation
  <1>4. ASSUME NEW t \in Initiation, t.op = "initiate", t.todo = Tail(tx[w].todo),
               t.orders = tx[w].orders, t.payments = tx[w].payments, t.lines = tx[w].lines,
               \A x \in t.orders \union Range(t.stale) :
                 orders[x].status = "pending" /\ Exclusive("orders", x) \in held,
               Grant(w, t)
        PROVE  Inv'
    <2>1. Reserving(t, held)
      BY <1>1, <1>2, <1>4, ReservingKept
    <2>2. Canceling(t)
      BY <1>2, <1>4 DEF Canceling
    <2>3. Superseding(t, held)
      <3>1. \A j \in DOMAIN t.todo : t.todo[j].table = "orders" => t.todo[j].mode = "for update"
        BY <1>1, <1>2, <1>4, SupersedingKept
      <3>. QED
        BY <1>4, <3>1 DEF Superseding
    <2>4. Sound(t, held)
      BY <1>4, <2>1, <2>2, <2>3 DEF Sound, Idle
    <2>. QED
      BY <1>1, <1>4, <2>4, GrantInv DEF Tx
  <1>5. CASE orders[o].status # "pending"
    <2>1. \A x \in Rest(w).orders \union Range(Rest(w).stale) :
            orders[x].status = "pending" /\ Exclusive("orders", x) \in held
      BY <1>2, <1>3 DEF Superseding
    <2>2. Grant(w, Rest(w))
      BY <1>5 DEF SupersedeOrder
    <2>. QED
      BY <1>3, <1>4, <2>1, <2>2
  <1>6. CASE orders[o].status = "pending"
    <2>1. o \in OrderIds /\ Wanted(w) = Exclusive("orders", o)
      <3>1. Wanted(w) \in RowLock /\ Wanted(w) = tx[w].todo[1] /\ 1 \in DOMAIN tx[w].todo
        BY <1>1, Wanting
      <3>2. Wanted(w).mode = "for update"
        BY <1>1, <1>2, <3>1 DEF Superseding
      <3>. QED
        BY <1>1, <3>1, <3>2 DEF RowLock, Exclusive, Lock
    <2>. DEFINE stale == Append(tx[w].stale, o)
                t == [Rest(w) EXCEPT !.stale = stale]
    <2>2. Grant(w, t)
      BY <1>3, <1>6 DEF SupersedeOrder
    <2>3. tx[w].stale \in Seq(OrderIds)
      BY <1>2 DEF Initiation
    <2>4. stale \in Seq(OrderIds) /\ Range(stale) = Range(tx[w].stale) \union {o}
      BY <2>1, <2>3, RangeOfAppend
    <2>5. t \in Initiation /\ t.op = "initiate" /\ t.todo = Tail(tx[w].todo)
          /\ t.orders = tx[w].orders /\ t.payments = tx[w].payments /\ t.lines = tx[w].lines
          /\ t.stale = stale
      BY <1>3, <2>4 DEF Initiation
    <2>. HIDE DEF t, stale, o
    <2>6. \A x \in t.orders \union Range(t.stale) :
            orders[x].status = "pending" /\ Exclusive("orders", x) \in held
      BY <1>2, <1>6, <2>1, <2>4, <2>5 DEF Superseding
    <2>. QED
      BY <1>4, <2>2, <2>5, <2>6
  <1>. QED
    BY <1>5, <1>6

LEMMA CancelOpenInv ==
  ASSUME Inv, NEW w \in Workers, CancelOpen(w)
  PROVE  Inv'
  <1>1. /\ tx[w] \in Initiation /\ tx[w].stale # << >> /\ tx[w].todo = << >>
        /\ Superseding(tx[w], locks[w]) /\ Canceling(tx[w]) /\ Reserving(tx[w], locks[w])
    <2>1. /\ tx[w] \in Tx /\ Sound(tx[w], locks[w]) /\ tx[w].op = "initiate"
          /\ tx[w].stale # << >> /\ tx[w].todo = << >>
      BY DEF CancelOpen, Inv, TypeOK
    <2>. QED
      BY <2>1, Kinds DEF Sound
  <1>2. tx[w].stale \in Seq(OrderIds) /\ tx[w].orders \subseteq OrderIds
    BY <1>1 DEF Initiation
  <1>. DEFINE o == Head(tx[w].stale)
  <1>3. PICK todo \in PaymentLocks(o) :
          tx' = [tx EXCEPT ![w].todo = todo, ![w].stale = Tail(@), ![w].orders = @ \union {o}]
    BY DEF CancelOpen
  <1>. DEFINE t == [tx[w] EXCEPT !.todo = todo, !.stale = Tail(@), !.orders = @ \union {o}]
  <1>4. /\ o \in OrderIds /\ o \in Range(tx[w].stale)
        /\ Tail(tx[w].stale) \in Seq(OrderIds)
        /\ Range(Tail(tx[w].stale)) \subseteq Range(tx[w].stale)
    <2>1. /\ Len(tx[w].stale) \in Nat \ {0} /\ DOMAIN tx[w].stale = 1..Len(tx[w].stale)
          /\ o = tx[w].stale[1] /\ o \in OrderIds
          /\ Tail(tx[w].stale) \in Seq(OrderIds)
          /\ DOMAIN Tail(tx[w].stale) = 1..(Len(tx[w].stale) - 1)
          /\ \A i \in 1..(Len(tx[w].stale) - 1) : Tail(tx[w].stale)[i] = tx[w].stale[i + 1]
      BY <1>1, <1>2
    <2>. QED
      BY <2>1 DEF Range
  <1>5. todo \in Seq(RowLock) /\ \A i \in DOMAIN todo : todo[i].table = "payments"
    <2>1. todo \in Seq(RowLock)
      BY <1>3, <1>4, StatementLocks
    <2>2. PICK ids \in SetToSeqs(OpenPayments(o)) : todo = Locks("payments", ids, "for update")
      BY <1>3 DEF PaymentLocks
    <2>. QED
      BY <2>1, <2>2 DEF Locks, Lock
  <1>6. tx' = [tx EXCEPT ![w] = t]
    BY <1>3 DEF Inv, TypeOK
  <1>. HIDE DEF o
  <1>7. /\ t \in Initiation /\ t.op = "initiate" /\ t.todo = todo /\ t.stale = Tail(tx[w].stale)
        /\ t.orders = tx[w].orders \union {o} /\ t.payments = tx[w].payments /\ t.lines = tx[w].lines
    BY <1>1, <1>2, <1>4, <1>5 DEF Initiation
  <1>. HIDE DEF t
  <1>8. Superseding(t, locks[w])
    <2>1. \A x \in t.orders \union Range(t.stale) :
            orders[x].status = "pending" /\ Exclusive("orders", x) \in locks[w]
      BY <1>1, <1>4, <1>7 DEF Superseding
    <2>. QED
      BY <1>5, <1>7, <2>1 DEF Superseding
  <1>9. Canceling(t)
    BY <1>1, <1>7 DEF Canceling
  <1>10. Reserving(t, locks[w])
    BY <1>1, <1>7 DEF Reserving
  <1>11. Sound(t, locks[w])
    BY <1>7, <1>8, <1>9, <1>10 DEF Sound, Idle
  <1>12. UNCHANGED <<stock, orders, payments, locks>>
    BY DEF CancelOpen
  <1>. QED
    BY <1>6, <1>7, <1>11, <1>12, ContinueInv DEF Tx

LEMMA CancelPaymentInv ==
  ASSUME Inv, NEW w \in Workers, CancelPayment(w)
  PROVE  Inv'
  <1>. DEFINE p == Wanted(w).id
              held == locks[w] \union {Wanted(w)}
  <1>1. tx[w].todo # << >> /\ tx[w].op \in {"initiate", "resume"} /\ Wanted(w).table = "payments"
    BY DEF CancelPayment, Wants, Wanted
  <1>2. p \in PaymentIds /\ Wanted(w).mode = "for update" /\ payments[p] \in [status : PaymentStatus, order : OrderIds] \union {NoPayment}
    <2>1. Wanted(w) \in RowLock
      BY <1>1, Wanting
    <2>. QED
      BY <1>1, <2>1 DEF RowLock, Inv, TypeOK
  <1>3. payments[p].status \in OpenStatuses => payments[p] # NoPayment
    BY DEF NoPayment, OpenStatuses
  <1>. DEFINE With(more) == [Rest(w) EXCEPT !.payments = @ \union more]
  <1>4. PICK more \in SUBSET {p} : Grant(w, With(more)) /\ \A x \in more : payments[x] # NoPayment
    <2>1. CASE payments[p].status \in OpenStatuses
      <3>1. Grant(w, With({p}))
        BY <2>1 DEF CancelPayment
      <3>. HIDE DEF With
      <3>. QED
        BY <1>3, <2>1, <3>1
    <2>2. CASE payments[p].status \notin OpenStatuses
      <3>1. Rest(w) = With({})
        BY <1>1, Wanting, Kinds DEF Rest, Initiation, Resumption
      <3>2. Grant(w, Rest(w))
        BY <2>2 DEF CancelPayment
      <3>. HIDE DEF With
      <3>3. Grant(w, With({}))
        BY <3>1, <3>2
      <3>. QED
        BY <3>3
    <2>. QED
      BY <2>1, <2>2
  <1>. DEFINE t == With(more)
  <1>5. CASE tx[w].op = "initiate"
    <2>1. /\ tx[w] \in Initiation
          /\ Superseding(tx[w], locks[w]) /\ Canceling(tx[w]) /\ Reserving(tx[w], locks[w])
      BY <1>1, <1>5, Wanting, Kinds DEF Sound
    <2>2. /\ t \in Initiation /\ t.op = "initiate" /\ t.todo = Tail(tx[w].todo)
          /\ t.stale = tx[w].stale /\ t.orders = tx[w].orders
          /\ t.payments = tx[w].payments \union more /\ t.lines = tx[w].lines
      BY <1>1, <1>2, <2>1, Wanting DEF Rest, Initiation
    <2>. HIDE DEF t
    <2>3. Reserving(t, held)
      BY <1>1, <1>2, <2>1, <2>2, ReservingKept
    <2>4. Canceling(t)
      BY <1>4, <2>1, <2>2 DEF Canceling
    <2>5. Superseding(t, held)
      <3>1. \A j \in DOMAIN t.todo : t.todo[j].table = "orders" => t.todo[j].mode = "for update"
        BY <1>1, <2>1, <2>2, SupersedingKept
      <3>. QED
        BY <2>1, <2>2, <3>1 DEF Superseding
    <2>6. Sound(t, held)
      BY <2>2, <2>3, <2>4, <2>5 DEF Sound, Idle
    <2>7. Grant(w, t)
      BY <1>4 DEF t
    <2>. QED
      BY <1>1, <2>2, <2>6, <2>7, GrantInv DEF Tx
  <1>6. CASE tx[w].op = "resume"
    <2>1. tx[w] \in Resumption /\ orders[tx[w].order] # NoOrder /\ Canceling(tx[w])
      BY <1>1, <1>6, Wanting, Kinds DEF Sound
    <2>2. /\ t \in Resumption /\ t.op = "resume" /\ t.todo = Tail(tx[w].todo)
          /\ t.order = tx[w].order /\ t.payments = tx[w].payments \union more
      BY <1>1, <1>2, <2>1, Wanting DEF Rest, Resumption
    <2>. HIDE DEF t
    <2>3. Sound(t, held)
      BY <1>4, <2>1, <2>2 DEF Sound, Idle, Canceling
    <2>4. Grant(w, t)
      BY <1>4 DEF t
    <2>. QED
      BY <1>1, <2>2, <2>3, <2>4, GrantInv DEF Tx
  <1>. QED
    BY <1>1, <1>5, <1>6

LEMMA OrderFromCartInv ==
  ASSUME Inv, NEW w \in Workers, NEW lines \in Carts, OrderFromCart(w, lines)
  PROVE  Inv'
  <1>. DEFINE t == [tx[w] EXCEPT !.lines = lines, !.todo = ItemChecks(lines)]
  <1>1. /\ tx[w] \in Initiation
        /\ Superseding(tx[w], locks[w]) /\ Canceling(tx[w])
    <2>1. tx[w] \in Tx /\ Sound(tx[w], locks[w]) /\ tx[w].op = "initiate"
      BY DEF OrderFromCart, Inv, TypeOK
    <2>. QED
      BY <2>1, Kinds DEF Sound
  <1>2. /\ tx' = [tx EXCEPT ![w] = t] /\ UNCHANGED <<stock, orders, payments, locks>>
    BY DEF OrderFromCart, Inv, TypeOK
  <1>3. /\ t \in Initiation /\ t.op = "initiate" /\ t.todo = ItemChecks(lines) /\ t.stale = tx[w].stale
        /\ t.orders = tx[w].orders /\ t.payments = tx[w].payments /\ t.lines = lines
    BY <1>1, ChecksOfLines DEF Initiation
  <1>. HIDE DEF t
  <1>4. Superseding(t, locks[w])
    <2>1. \A id : Shared("products", id).table = "products"
      BY Zenon DEF Shared, Lock
    <2>2. \A i \in DOMAIN t.todo : t.todo[i] = Shared("products", lines[i].product)
      BY <1>3, ChecksOfLines
    <2>. QED
      BY <1>1, <1>3, <2>1, <2>2 DEF Superseding
  <1>5. Canceling(t)
    BY <1>1, <1>3 DEF Canceling
  <1>6. Reserving(t, locks[w])
    BY <1>3, ChecksOfLines DEF Reserving
  <1>7. Sound(t, locks[w])
    BY <1>3, <1>4, <1>5, <1>6 DEF Sound, Idle
  <1>. QED
    BY <1>2, <1>3, <1>7, ContinueInv DEF Tx

LEMMA ResumeInv ==
  ASSUME Inv, NEW w \in Workers, NEW o \in OrderIds, Resume(w, o)
  PROVE  Inv'
  <1>1. PICK todo \in PaymentLocks(o) :
          Begin(w, [op |-> "resume", todo |-> Append(todo, Lock("orders", o, "key share")),
                    order |-> o, payments |-> {}])
    BY DEF Resume
  <1>2. todo \in Seq(RowLock) /\ Lock("orders", o, "key share") \in RowLock
    BY StatementLocks, LocksTyped DEF Shared
  <1>. DEFINE all == Append(todo, Lock("orders", o, "key share"))
              t == [op |-> "resume", todo |-> all, order |-> o, payments |-> {}]
  <1>3. all \in Seq(RowLock)
    BY <1>2, RangeOfAppend
  <1>. HIDE DEF all
  <1>4. t \in Resumption /\ t.op = "resume" /\ t.order = o /\ t.payments = {}
    BY <1>3 DEF Resumption
  <1>5. Begin(w, t)
    BY <1>1 DEF all
  <1>. HIDE DEF t
  <1>6. orders[o] # NoOrder
    BY DEF Resume
  <1>7. Sound(t, {})
    BY <1>4, <1>6 DEF Sound, Idle, Canceling
  <1>. QED
    BY <1>4, <1>5, <1>7, BeginInv DEF Tx

LEMMA CreateOrderInv ==
  ASSUME Inv, NEW w \in Workers, NEW lines \in Carts, CreateOrder(w, lines)
  PROVE  Inv'
  <1>. DEFINE t == [op |-> "create", todo |-> ItemChecks(lines), lines |-> lines]
  <1>1. Begin(w, t)
    BY DEF CreateOrder
  <1>2. t \in Creation /\ t.op = "create" /\ t.todo = ItemChecks(lines) /\ t.lines = lines
    BY ChecksOfLines DEF Creation
  <1>. HIDE DEF t
  <1>3. Reserving(t, {})
    BY <1>2, ChecksOfLines DEF Reserving
  <1>4. Sound(t, {})
    BY <1>2, <1>3 DEF Sound, Idle
  <1>. QED
    BY <1>1, <1>2, <1>4, BeginInv DEF Tx

\* Foreign keys are checked only by what inserts rows
LEMMA CheckReferenceInv ==
  ASSUME Inv, NEW w \in Workers, CheckReference(w)
  PROVE  Inv'
  <1>. DEFINE t == Rest(w)
              held == locks[w] \union {Wanted(w)}
  <1>1. tx[w].todo # << >> /\ Wanted(w).mode = "key share"
    BY DEF CheckReference
  <1>2. CASE Rollback(w)
    BY <1>2, RollbackInv
  <1>3. ASSUME Grant(w, t), Wanted(w).table = "products" => There(Wanted(w).id)
        PROVE  Inv'
    <2>1. /\ tx[w] \in Tx /\ Sound(tx[w], locks[w]) /\ Tail(tx[w].todo) \in Seq(RowLock)
          /\ Wanted(w) = tx[w].todo[1] /\ 1 \in DOMAIN tx[w].todo
      BY <1>1, Wanting
    <2>2. \A table, id : Wanted(w) # Exclusive(table, id)
      <3>1. \A table, id : Exclusive(table, id).mode = "for update"
        BY Zenon DEF Exclusive, Lock
      <3>. QED
        BY <1>1, <3>1
    <2>3. CASE tx[w].op = "initiate"
      <3>1. /\ tx[w] \in Initiation
            /\ Superseding(tx[w], locks[w]) /\ Canceling(tx[w]) /\ Reserving(tx[w], locks[w])
        BY <2>1, <2>3, Kinds DEF Sound
      <3>2. /\ t \in Initiation /\ t.op = "initiate" /\ t.todo = Tail(tx[w].todo)
            /\ t.stale = tx[w].stale /\ t.orders = tx[w].orders
            /\ t.payments = tx[w].payments /\ t.lines = tx[w].lines
        BY <2>1, <3>1 DEF Rest, Initiation
      <3>. HIDE DEF t
      <3>3. Reserving(t, held)
        BY <1>1, <1>3, <3>1, <3>2, ReservingKept
      <3>4. Canceling(t)
        BY <3>1, <3>2 DEF Canceling
      <3>5. \A j \in DOMAIN t.todo : t.todo[j].table = "orders" => t.todo[j].mode = "for update"
        BY <1>1, <3>1, <3>2, SupersedingKept
      <3>6. Superseding(t, held)
        BY <3>1, <3>2, <3>5 DEF Superseding
      <3>7. Sound(t, held)
        BY <3>2, <3>3, <3>4, <3>6 DEF Sound, Idle
      <3>. QED
        BY <1>1, <1>3, <3>2, <3>7, GrantInv DEF Tx
    <2>4. CASE tx[w].op = "resume"
      <3>1. tx[w] \in Resumption /\ orders[tx[w].order] # NoOrder /\ Canceling(tx[w])
        BY <2>1, <2>4, Kinds DEF Sound
      <3>2. /\ t \in Resumption /\ t.op = "resume" /\ t.order = tx[w].order /\ t.payments = tx[w].payments
        BY <2>1, <3>1 DEF Rest, Resumption
      <3>. HIDE DEF t
      <3>3. Sound(t, held)
        BY <3>1, <3>2 DEF Sound, Idle, Canceling
      <3>. QED
        BY <1>1, <1>3, <3>2, <3>3, GrantInv DEF Tx
    <2>5. CASE tx[w].op = "create"
      <3>1. tx[w] \in Creation /\ Reserving(tx[w], locks[w])
        BY <2>1, <2>5, Kinds DEF Sound
      <3>2. /\ t \in Creation /\ t.op = "create" /\ t.todo = Tail(tx[w].todo) /\ t.lines = tx[w].lines
        BY <2>1, <3>1 DEF Rest, Creation
      <3>. HIDE DEF t
      <3>3. Reserving(t, held)
        BY <1>1, <1>3, <3>1, <3>2, ReservingKept
      <3>4. Sound(t, held)
        BY <3>2, <3>3 DEF Sound, Idle
      <3>. QED
        BY <1>1, <1>3, <3>2, <3>4, GrantInv DEF Tx
    <2>6. tx[w].op # "settle"
      <3>. SUFFICES ASSUME tx[w].op = "settle" PROVE FALSE
        OBVIOUS
      <3>1. Settling(tx[w], locks[w])
        BY <2>1 DEF Sound
      <3>2. \A lock : tx[w].todo = <<lock>> => lock = Wanted(w)
        BY <2>1
      <3>3. CASE tx[w].todo \in {<< >>, <<Exclusive("payments", tx[w].payment)>>,
                                 <<Exclusive("orders", payments[tx[w].payment].order)>>}
        BY <1>1, <2>2, <3>2, <3>3
      <3>4. CASE \A i \in DOMAIN tx[w].todo : \E q \in Products : tx[w].todo[i] = Exclusive("products", q)
        BY <2>1, <2>2, <3>4
      <3>. QED
        BY <3>1, <3>3, <3>4 DEF Settling
    <2>7. tx[w].op \notin {"expire", "delete"}
      <3>1. \A lock : tx[w].todo = <<lock>> => lock = Wanted(w)
        BY <2>1
      <3>. QED
        BY <1>1, <2>1, <2>2, <3>1 DEF Sound, First
    <2>8. tx[w] # Idle
      <3>. SUFFICES ASSUME tx[w] = Idle PROVE FALSE
        OBVIOUS
      <3>1. tx[w].todo = << >>
        BY DEF Idle
      <3>. QED
        BY <1>1, <3>1
    <2>. QED
      BY <2>1, <2>3, <2>4, <2>5, <2>6, <2>7, <2>8, Kinds
  <1>. QED
    BY <1>2, <1>3 DEF CheckReference

LEMMA CommitCheckoutWrites ==
  ASSUME Inv, NEW w \in Workers, CommitCheckout(w)
  PROVE  Writes(w)
  <1>. DEFINE t == tx[w]
              Canceled(x) == IF x \in t.payments THEN [payments[x] EXCEPT !.status = "closed"]
                                                 ELSE payments[x]
  <1>1. /\ orders \in [OrderIds -> [status : OrderStatus, lines : Carts] \union {NoOrder}]
        /\ payments \in [PaymentIds -> [status : PaymentStatus, order : OrderIds] \union {NoPayment}]
        /\ Finite /\ t \in Tx /\ Sound(t, locks[w])
    BY DEF Inv, TypeOK, RowsSound
  <1>2. stock' = stock /\ t.todo = << >>
    BY DEF CommitCheckout
  <1>3. ASSUME Canceling(t), t.payments \subseteq PaymentIds, NEW x \in PaymentIds
        PROVE  /\ Canceled(x) \in [status : PaymentStatus, order : OrderIds] \union {NoPayment}
               /\ Canceled(x) # NoPayment <=> payments[x] # NoPayment
               /\ Canceled(x).order = payments[x].order
    <2>1. CASE x \in t.payments
      <3>1. payments[x] \in [status : PaymentStatus, order : OrderIds]
        BY <1>1, <1>3, <2>1 DEF Canceling
      <3>2. /\ Canceled(x) \in [status : PaymentStatus, order : OrderIds]
            /\ Canceled(x).order = payments[x].order /\ Canceled(x).status = "closed"
        BY <2>1, <3>1 DEF PaymentStatus, FinalStatuses
      <3>3. Canceled(x) # NoPayment /\ payments[x] # NoPayment
        BY <1>3, <2>1, <3>2 DEF NoPayment, Canceling
      <3>. QED
        BY <3>2, <3>3
    <2>2. CASE x \notin t.payments
      BY <1>1, <2>2
    <2>. QED
      BY <2>1, <2>2
  <1>4. ASSUME Reserving(t, locks[w]), NEW i \in DOMAIN t.lines
        PROVE  There(t.lines[i].product)
    BY <1>2, <1>4 DEF Reserving
  <1>5. ASSUME NEW p \in NextPayment, NEW o \in OrderIds, orders'[o] # NoOrder,
               Canceling(t), t.payments \subseteq PaymentIds,
               payments' = [x \in PaymentIds |-> IF x = p THEN [status |-> "pending", order |-> o]
                                                 ELSE Canceled(x)]
        PROVE  /\ payments' \in [PaymentIds -> [status : PaymentStatus, order : OrderIds] \union {NoPayment}]
               /\ \A x \in PaymentIds :
                    /\ payments[x] # NoPayment =>
                         payments'[x] # NoPayment /\ payments'[x].order = payments[x].order
                    /\ payments[x] = NoPayment /\ payments'[x] # NoPayment =>
                         orders'[payments'[x].order] # NoOrder
               /\ IsFiniteSet({x \in PaymentIds : payments'[x] # NoPayment})
    <2>1. p \in PaymentIds /\ payments[p] = NoPayment
      BY DEF NextPayment
    <2>2. payments'[p] = [status |-> "pending", order |-> o] /\ payments'[p].order = o
      BY <1>5, <2>1
    <2>3. payments'[p] \in [status : PaymentStatus, order : OrderIds]
      BY <2>2 DEF PaymentStatus, OpenStatuses
    <2>4. \A x \in PaymentIds : x # p => payments'[x] = Canceled(x)
      BY <1>5
    <2>. HIDE DEF Canceled
    <2>5. \A x \in PaymentIds :
            payments'[x] \in [status : PaymentStatus, order : OrderIds] \union {NoPayment}
      BY <1>3, <1>5, <2>3, <2>4
    <2>6. payments' \in [PaymentIds -> [status : PaymentStatus, order : OrderIds] \union {NoPayment}]
      BY <1>5, <2>5
    <2>7. IsFiniteSet({x \in PaymentIds : payments[x] # NoPayment})
      BY <1>1 DEF Finite
    <2>8. \A x \in PaymentIds : x # p /\ payments'[x] # NoPayment => payments[x] # NoPayment
      BY <1>3, <1>5, <2>4
    <2>9. IsFiniteSet({x \in PaymentIds : payments'[x] # NoPayment})
      <3>1. {x \in PaymentIds : payments'[x] # NoPayment}
              \subseteq {x \in PaymentIds : payments[x] # NoPayment} \union {p}
        BY <2>8
      <3>. QED
        BY <2>7, <3>1, FiniteGrows
    <2>. QED
      BY <1>3, <1>5, <2>1, <2>2, <2>4, <2>6, <2>8, <2>9
  <1>6. CASE t.op = "initiate"
    <2>1. /\ t \in Initiation /\ t.lines # << >>
          /\ Superseding(t, locks[w]) /\ Canceling(t) /\ Reserving(t, locks[w])
      BY <1>1, <1>6, Kinds DEF Sound, CommitCheckout
    <2>2. /\ t.lines \in Carts /\ t.orders \subseteq OrderIds /\ t.payments \subseteq PaymentIds
          /\ \A x \in t.orders : orders[x].status = "pending" /\ Exclusive("orders", x) \in locks[w]
      BY <2>1 DEF Initiation, Superseding
    <2>3. PICK o \in NextOrder, p \in NextPayment :
            /\ orders' = [x \in OrderIds |->
                 IF x = o THEN [status |-> "pending", lines |-> t.lines]
                 ELSE IF x \in t.orders THEN [orders[x] EXCEPT !.status = "canceled"]
                 ELSE orders[x]]
            /\ payments' = [x \in PaymentIds |-> IF x = p THEN [status |-> "pending", order |-> o]
                                                 ELSE Canceled(x)]
      BY <1>6 DEF CommitCheckout
    <2>4. o \in OrderIds /\ orders[o] = NoOrder
      BY DEF NextOrder
    <2>5. /\ orders'[o] \in [status : OrderStatus, lines : Carts]
          /\ orders'[o].status = "pending" /\ orders'[o].lines = t.lines /\ orders'[o] # NoOrder
      <3>1. orders'[o] = [status |-> "pending", lines |-> t.lines]
        BY <2>3, <2>4
      <3>. QED
        BY <2>2, <3>1 DEF OrderStatus, NoOrder
    <2>6. ASSUME NEW x \in OrderIds, x # o
          PROVE  \/ orders'[x] = orders[x]
                 \/ /\ orders'[x] \in [status : OrderStatus, lines : Carts]
                    /\ orders[x].status = "pending" /\ orders'[x].status = "canceled"
                    /\ orders'[x].lines = orders[x].lines /\ orders'[x] # NoOrder
                    /\ orders[x] # NoOrder /\ Exclusive("orders", x) \in locks[w]
      <3>1. CASE x \in t.orders
        <4>1. orders[x].status = "pending" /\ Exclusive("orders", x) \in locks[w]
          BY <2>2, <3>1
        <4>2. orders[x] # NoOrder /\ orders[x] \in [status : OrderStatus, lines : Carts]
          BY <1>1, <4>1 DEF NoOrder
        <4>3. orders'[x] = [orders[x] EXCEPT !.status = "canceled"]
          BY <2>3, <2>6, <3>1
        <4>4. /\ orders'[x] \in [status : OrderStatus, lines : Carts]
              /\ orders'[x].status = "canceled" /\ orders'[x].lines = orders[x].lines
          BY <4>2, <4>3 DEF OrderStatus
        <4>5. orders'[x] # NoOrder
          BY <4>4 DEF NoOrder
        <4>. QED
          BY <4>1, <4>2, <4>4, <4>5
      <3>2. CASE x \notin t.orders
        BY <2>3, <2>6, <3>2
      <3>. QED
        BY <3>1, <3>2
    <2>7. orders' \in [OrderIds -> [status : OrderStatus, lines : Carts] \union {NoOrder}]
      <3>1. \A x \in OrderIds : orders'[x] \in [status : OrderStatus, lines : Carts] \union {NoOrder}
        BY <1>1, <2>5, <2>6
      <3>. QED
        BY <2>3, <3>1
    <2>8. IsFiniteSet({x \in OrderIds : orders'[x] # NoOrder})
      <3>1. IsFiniteSet({x \in OrderIds : orders[x] # NoOrder})
        BY <1>1 DEF Finite
      <3>2. \A x \in OrderIds : x # o /\ orders'[x] # NoOrder => orders[x] # NoOrder
        BY <2>6
      <3>3. {x \in OrderIds : orders'[x] # NoOrder} \subseteq {x \in OrderIds : orders[x] # NoOrder} \union {o}
        BY <3>2
      <3>. QED
        BY <3>1, <3>3, FiniteGrows
    <2>. HIDE DEF t, Canceled
    <2>9. \A x \in OrderIds : orders[x] = NoOrder =>
            /\ orders'[x].status # "paid"
            /\ \A i \in DOMAIN orders'[x].lines : There(orders'[x].lines[i].product)
      <3>1. orders'[o].status # "paid" /\ \A i \in DOMAIN orders'[o].lines : There(orders'[o].lines[i].product)
        BY <1>4, <2>1, <2>5
      <3>2. ASSUME NEW x \in OrderIds, x # o, orders[x] = NoOrder
            PROVE  orders'[x].status # "paid" /\ DOMAIN orders'[x].lines = {}
        BY <2>6, <3>2 DEF NoOrder
      <3>. QED
        BY <3>1, <3>2
    <2>10. \A x \in OrderIds : orders[x] # NoOrder =>
            /\ orders'[x] # NoOrder /\ orders'[x].lines = orders[x].lines
            /\ \/ orders'[x].status = orders[x].status
               \/ /\ orders[x].status = "pending" /\ orders'[x].status = "canceled"
                  /\ Exclusive("orders", x) \in locks[w]
      BY <2>4, <2>6
    <2>11. /\ payments' \in [PaymentIds -> [status : PaymentStatus, order : OrderIds] \union {NoPayment}]
           /\ \A x \in PaymentIds :
                /\ payments[x] # NoPayment =>
                     payments'[x] # NoPayment /\ payments'[x].order = payments[x].order
                /\ payments[x] = NoPayment /\ payments'[x] # NoPayment =>
                     orders'[payments'[x].order] # NoOrder
           /\ IsFiniteSet({x \in PaymentIds : payments'[x] # NoPayment})
      BY <1>5, <2>1, <2>2, <2>3, <2>4, <2>5
    <2>. QED
      BY <1>2, <2>7, <2>8, <2>9, <2>10, <2>11 DEF Writes, Finite
  <1>7. CASE t.op = "resume"
    <2>1. t \in Resumption /\ orders[t.order] # NoOrder /\ Canceling(t)
      BY <1>1, <1>7, Kinds DEF Sound
    <2>2. t.order \in OrderIds /\ t.payments \subseteq PaymentIds
      BY <2>1 DEF Resumption
    <2>3. PICK p \in NextPayment :
            payments' = [x \in PaymentIds |-> IF x = p THEN [status |-> "pending", order |-> t.order]
                                              ELSE Canceled(x)]
      BY <1>7 DEF CommitCheckout
    <2>4. orders' = orders
      BY <1>7 DEF CommitCheckout
    <2>. HIDE DEF t, Canceled
    <2>5. /\ payments' \in [PaymentIds -> [status : PaymentStatus, order : OrderIds] \union {NoPayment}]
          /\ \A x \in PaymentIds :
               /\ payments[x] # NoPayment =>
                    payments'[x] # NoPayment /\ payments'[x].order = payments[x].order
               /\ payments[x] = NoPayment /\ payments'[x] # NoPayment =>
                    orders'[payments'[x].order] # NoOrder
          /\ IsFiniteSet({x \in PaymentIds : payments'[x] # NoPayment})
      BY <1>5, <2>1, <2>2, <2>3, <2>4
    <2>6. \A o \in OrderIds : orders[o] = NoOrder => orders'[o].status # "paid" /\ DOMAIN orders'[o].lines = {}
      BY <2>4 DEF NoOrder
    <2>. QED
      BY <1>1, <1>2, <2>4, <2>5, <2>6 DEF Writes, Finite
  <1>8. CASE t.op = "create"
    <2>1. t \in Creation /\ Reserving(t, locks[w])
      BY <1>1, <1>8, Kinds DEF Sound
    <2>2. t.lines \in Carts
      BY <2>1 DEF Creation
    <2>3. PICK o \in NextOrder : orders' = [orders EXCEPT ![o] = [status |-> "pending", lines |-> t.lines]]
      BY <1>8 DEF CommitCheckout
    <2>4. payments' = payments
      BY <1>8 DEF CommitCheckout
    <2>5. o \in OrderIds /\ orders[o] = NoOrder
      BY DEF NextOrder
    <2>. DEFINE row == [status |-> "pending", lines |-> t.lines]
    <2>6. /\ row \in [status : OrderStatus, lines : Carts] /\ row # NoOrder
          /\ row.status = "pending" /\ row.lines = t.lines
      BY <2>2 DEF OrderStatus, NoOrder
    <2>. HIDE DEF row, t
    <2>7. orders' = [orders EXCEPT ![o] = row]
      BY <2>3 DEF row
    <2>8. orders' \in [OrderIds -> [status : OrderStatus, lines : Carts] \union {NoOrder}]
      BY <1>1, <2>5, <2>6, <2>7
    <2>9. orders'[o] = row /\ \A x \in OrderIds : x # o => orders'[x] = orders[x]
      BY <1>1, <2>5, <2>7
    <2>10. IsFiniteSet({x \in OrderIds : orders'[x] # NoOrder})
      <3>1. IsFiniteSet({x \in OrderIds : orders[x] # NoOrder})
        BY <1>1 DEF Finite
      <3>2. \A x \in OrderIds : x # o /\ orders'[x] # NoOrder => orders[x] # NoOrder
        BY <2>9
      <3>3. {x \in OrderIds : orders'[x] # NoOrder} \subseteq {x \in OrderIds : orders[x] # NoOrder} \union {o}
        BY <3>2
      <3>. QED
        BY <3>1, <3>3, FiniteGrows
    <2>11. \A x \in OrderIds : orders[x] = NoOrder =>
             /\ orders'[x].status # "paid"
             /\ \A i \in DOMAIN orders'[x].lines : There(orders'[x].lines[i].product)
      <3>1. orders'[o].status # "paid" /\ \A i \in DOMAIN orders'[o].lines : There(orders'[o].lines[i].product)
        BY <1>4, <2>1, <2>6, <2>9
      <3>2. \A x \in OrderIds : x # o /\ orders[x] = NoOrder =>
              orders'[x].status # "paid" /\ DOMAIN orders'[x].lines = {}
        BY <2>9 DEF NoOrder
      <3>. QED
        BY <3>1, <3>2
    <2>. QED
      BY <1>1, <1>2, <2>4, <2>5, <2>8, <2>9, <2>10, <2>11 DEF Writes, Finite
  <1>. QED
    BY <1>6, <1>7, <1>8 DEF CommitCheckout

-----------------------------------------------------------------------------
(***************************************************************************)
(* Products are created and deleted.                                       *)
(***************************************************************************)
LEMMA DeleteProductInv ==
  ASSUME Inv, NEW w \in Workers, NEW q \in Products, DeleteProduct(w, q)
  PROVE  Inv'
  <1>. DEFINE t == [op |-> "delete", todo |-> <<Lock("products", q, "for update")>>, product |-> q]
  <1>1. Begin(w, t)
    BY DEF DeleteProduct
  <1>2. <<Exclusive("products", q)>> \in Seq(RowLock)
    BY LocksTyped, SequenceOfOne
  <1>3. t \in Tx
    BY <1>2 DEF Tx, Deletion, Exclusive
  <1>4. Sound(t, {})
    BY DEF Sound, First, Idle, Exclusive
  <1>. HIDE DEF t
  <1>. QED
    BY <1>1, <1>3, <1>4, BeginInv

LEMMA DeleteProductRowInv ==
  ASSUME Inv, NEW w \in Workers, DeleteProductRow(w)
  PROVE  Inv'
  <1>1. tx[w].todo # << >> /\ tx[w].op = "delete" /\ Grant(w, Rest(w))
    BY DEF DeleteProductRow, Wants
  <1>2. tx[w] \in Deletion /\ tx[w].todo = <<Exclusive("products", tx[w].product)>>
    BY <1>1, Wanting, Kinds DEF Sound, First
  <1>3. Wanted(w) = Exclusive("products", tx[w].product) /\ Tail(tx[w].todo) = << >>
    BY <1>2 DEF Wanted
  <1>4. Rest(w) \in Deletion /\ Rest(w).todo = << >> /\ Rest(w).product = tx[w].product /\ Rest(w).op = "delete"
    BY <1>1, <1>2, <1>3, Wanting DEF Rest, Deletion
  <1>5. Sound(Rest(w), locks[w] \union {Wanted(w)})
    BY <1>3, <1>4 DEF Sound, First, Idle
  <1>. QED
    BY <1>1, <1>4, <1>5, GrantInv DEF Tx

LEMMA CommitDeleteInv ==
  ASSUME Inv, NEW w \in Workers, CommitDelete(w)
  PROVE  Inv'
  <1>1. /\ stock \in [Products -> Nat \union {Unborn, Gone}]
        /\ orders \in [OrderIds -> [status : OrderStatus, lines : Carts] \union {NoOrder}]
        /\ payments \in [PaymentIds -> [status : PaymentStatus, order : OrderIds] \union {NoPayment}]
        /\ RowsSound
    BY DEF Inv, TypeOK
  <1>2. PICK q \in Products : q = tx[w].product /\ Exclusive("products", q) \in locks[w]
    <2>1. tx[w] \in Tx /\ Sound(tx[w], locks[w]) /\ tx[w].op = "delete" /\ tx[w].todo = << >>
      BY DEF CommitDelete, Inv, TypeOK
    <2>2. tx[w] \in Deletion /\ First(tx[w], Exclusive("products", tx[w].product), locks[w])
      BY <2>1, Kinds DEF Sound
    <2>. QED
      BY <2>1, <2>2 DEF First, Deletion
  <1>3. CASE Rollback(w)
    BY <1>3, RollbackInv
  <1>4. CASE ~Rollback(w)
    <2>1. /\ ~Ordered(q) /\ stock' = [stock EXCEPT ![q] = Gone]
          /\ End(w) /\ orders' = orders /\ payments' = payments
      BY <1>2, <1>4 DEF CommitDelete
    <2>2. /\ stock' \in [Products -> Nat \union {Unborn, Gone}]
          /\ ~There(q)' /\ \A x \in Products : x # q => stock'[x] = stock[x]
      <3>1. stock'[q] = Gone /\ \A x \in Products : x # q => stock'[x] = stock[x]
        BY <1>1, <1>2, <2>1
      <3>2. ~There(q)'
        BY <3>1 DEF There
      <3>. QED
        BY <1>1, <2>1, <3>1, <3>2
    <2>3. Preserves(locks[w])
      BY <1>2, <2>1, <2>2 DEF Preserves
    <2>4. \A x \in Products : Ordered(x)' <=> Ordered(x)
      BY <2>1 DEF Ordered
    <2>5. ItemsKept' /\ Untouched'
      BY <1>1, <2>1, <2>2, <2>4 DEF RowsSound, ItemsKept, Untouched, There
    <2>6. RowsSound'
      BY <1>1, <2>1, <2>5 DEF RowsSound, References, Finite
    <2>. QED
      BY <1>1, <2>1, <2>2, <2>3, <2>6, CommitInv
  <1>. QED
    BY <1>3, <1>4

LEMMA CreateProductInv ==
  ASSUME Inv, NEW q \in Products, CreateProduct(q)
  PROVE  Inv'
  <1>1. /\ stock \in [Products -> Nat \union {Unborn, Gone}]
        /\ tx \in [Workers -> Tx] /\ locks \in [Workers -> SUBSET RowLock]
        /\ \A w \in Workers : \A l \in locks[w] : Holders(w, l) = {}
        /\ RowsSound
    BY DEF Inv, TypeOK
  <1>2. /\ ~There(q) /\ UNCHANGED <<orders, payments, tx, locks>>
        /\ stock' = [stock EXCEPT ![q] = InitialStock[q]]
    BY DEF CreateProduct, There
  <1>3. /\ stock' \in [Products -> Nat \union {Unborn, Gone}] /\ stock'[q] = InitialStock[q]
        /\ \A x \in Products : x # q => stock'[x] = stock[x]
    BY <1>1, <1>2, RowLocksAssumption
  <1>4. Preserves({})
    BY <1>2, <1>3 DEF Preserves
  <1>5. \A x \in Products : Ordered(x)' <=> Ordered(x)
    BY <1>2 DEF Ordered
  <1>6. ItemsKept' /\ Untouched'
    BY <1>1, <1>2, <1>3, <1>5 DEF RowsSound, ItemsKept, Untouched, There
  <1>7. RowsSound'
    BY <1>1, <1>2, <1>6 DEF RowsSound, References, Finite
  <1>8. TypeOK'
    <2>1. \A w \in Workers : \A l \in locks[w] : Holders(w, l)' = {}
      BY <1>1, <1>2 DEF Holders
    <2>. QED
      BY <1>2, <1>3, <2>1 DEF Inv, TypeOK
  <1>9. ASSUME NEW w \in Workers
        PROVE  Sound(tx[w], locks[w])'
    <2>1. tx[w] \in Tx /\ Sound(tx[w], locks[w]) /\ TypeOK /\ tx'[w] = tx[w] /\ locks'[w] = locks[w]
      BY <1>1, <1>2 DEF Inv
    <2>2. \A l \in {}, k \in locks[w] : ~Conflict(l, k)
      OBVIOUS
    <2>. QED
      BY <1>4, <2>1, <2>2, OthersKept
  <1>. QED
    BY <1>7, <1>8, <1>9 DEF Inv

-----------------------------------------------------------------------------
(***************************************************************************)
(* The invariant.                                                          *)
(***************************************************************************)
LEMMA InitInv == Init => Inv
  <1>. SUFFICES ASSUME Init PROVE Inv
    OBVIOUS
  <1>1. TypeOK
    <2>1. stock \in [Products -> Nat \union {Unborn, Gone}]
      BY RowLocksAssumption DEF Init
    <2>2. Idle \in Tx
      BY DEF Tx
    <2>. QED
      BY <2>1, <2>2 DEF Init, TypeOK
  <1>2. \A q \in Products : ~Ordered(q)
    <2>1. \A q \in Products : ~(Units(<< >>)[q] > 0)
      BY UnitsListed
    <2>. QED
      BY <2>1 DEF Init, Ordered, NoOrder
  <1>3. References /\ ItemsKept
    BY <1>2 DEF Init, References, ItemsKept
  <1>4. Untouched
    BY DEF Init, Untouched, There
  <1>5. Finite
    <2>1. {o \in OrderIds : orders[o] # NoOrder} = {} /\ {p \in PaymentIds : payments[p] # NoPayment} = {}
      BY DEF Init
    <2>. QED
      BY <2>1, FS_EmptySet DEF Finite
  <1>6. \A w \in Workers : Sound(tx[w], locks[w])
    BY IdleSound DEF Init
  <1>. QED
    BY <1>1, <1>3, <1>4, <1>5, <1>6 DEF Inv, RowsSound

LEMMA NextInv == Inv /\ [Next]_vars => Inv'
  <1>. SUFFICES ASSUME Inv, [Next]_vars PROVE Inv'
    OBVIOUS
  <1>1. ASSUME NEW w \in Workers, Start(w)
        PROVE  Inv'
    BY <1>1, SettleInv, ExpireInv, InitiateInv, ResumeInv, CreateOrderInv, DeleteProductInv DEF Start
  <1>2. ASSUME NEW w \in Workers, Continue(w)
        PROVE  Inv'
    <2>1. CASE SettlePayment(w) \/ SettleOrder(w) \/ SettleProduct(w) \/ CommitSettle(w)
      BY <2>1, SettlePaymentInv, SettleOrderInv, SettleProductInv, CommitSettleInv
    <2>2. CASE ExpirePayment(w)
      BY <2>2, ExpirePaymentInv
    <2>3. CASE CommitExpire(w)
      BY <2>3, CommitExpireWrites, WritesInv DEF CommitExpire
    <2>4. CASE SupersedeOrder(w) \/ CancelOpen(w) \/ CancelPayment(w)
      BY <2>4, SupersedeOrderInv, CancelOpenInv, CancelPaymentInv
    <2>5. CASE \E lines \in Carts : OrderFromCart(w, lines)
      BY <2>5, OrderFromCartInv
    <2>6. CASE CheckReference(w)
      BY <2>6, CheckReferenceInv
    <2>7. CASE CommitCheckout(w)
      BY <2>7, CommitCheckoutWrites, WritesInv DEF CommitCheckout
    <2>8. CASE Refuse(w)
      BY <2>8, RollbackInv DEF Refuse
    <2>9. CASE DeleteProductRow(w) \/ CommitDelete(w)
      BY <2>9, DeleteProductRowInv, CommitDeleteInv
    <2>. QED
      BY <1>2, <2>1, <2>2, <2>3, <2>4, <2>5, <2>6, <2>7, <2>8, <2>9 DEF Continue
  <1>3. ASSUME NEW w \in Workers, DeadlockVictim(w) \/ Fail(w)
        PROVE  Inv'
    BY <1>3, RollbackInv DEF DeadlockVictim, Fail
  <1>4. ASSUME NEW q \in Products, CreateProduct(q)
        PROVE  Inv'
    BY <1>4, CreateProductInv
  <1>5. CASE UNCHANGED vars
    <2>1. UNCHANGED rows /\ UNCHANGED <<tx, locks>>
      BY <1>5 DEF vars, rows
    <2>2. RowsSound' /\ \A w \in Workers : Sound(tx[w], locks[w])'
      BY <2>1, SameRows DEF Inv
    <2>. QED
      BY <1>5, <2>2 DEF vars, Inv, TypeOK, Holders
  <1>. QED
    BY <1>1, <1>2, <1>3, <1>4, <1>5 DEF Next

-----------------------------------------------------------------------------
(***************************************************************************)
(* The theorems.                                                           *)
(***************************************************************************)
\* Every reachable state satisfies the inductive invariant
LEMMA Invariant == Spec => []Inv
  BY InitInv, NextInv, PTL DEF Spec

\* However many transactions run at once, every table keeps rows of its shape,
\* and no two of them hold row locks that conflict
THEOREM RowLocksTyped == Spec => []TypeOK
  <1>1. Inv => TypeOK
    BY DEF Inv
  <1>. QED
    BY <1>1, Invariant, PTL

\* What an order lists is there, although foreign keys are checked only at the
\* commit: a product is deleted under no order, nor under one being created
THEOREM ItemsAlwaysKept == Spec => []ItemsKept
  <1>1. Inv => ItemsKept
    BY DEF Inv, RowsSound
  <1>. QED
    BY <1>1, Invariant, PTL

\* PaymentService.expire never waits while it holds a row, so no deadlock goes
\* through it, and expire_stale_payments is never ended by one
THEOREM ExpirySafe == Spec => []ExpiryNeverDeadlocked
  <1>1. Inv => ExpiryNeverDeadlocked
    <2>. SUFFICES ASSUME Inv, NEW w \in Workers, tx[w].op = "expire", Deadlocked(w)
                  PROVE  FALSE
      BY DEF ExpiryNeverDeadlocked
    <2>1. tx[w].todo # << >>
      BY DEF Deadlocked, WaitsFor
    <2>2. locks[w] = {}
      BY <2>1 DEF Inv, Sound, First
    <2>3. \A v \in Workers : WaitsFor(v) \subseteq Workers \ {w}
      BY <2>2 DEF WaitsFor, Holders
    <2>4. Workers \ {w} \in SUBSET Workers
      OBVIOUS
    <2>5. w \in Workers \ {w}
      BY <2>3, <2>4 DEF Deadlocked
    <2>. QED
      BY <2>5
  <1>. QED
    BY <1>1, Invariant, PTL

-----------------------------------------------------------------------------
(***************************************************************************)
(* The ledger.  What is left of a product is its stock, or what it will    *)
(* start with or has never sold; an order that is paid has been sold its   *)
(* lines.                                                                  *)
(***************************************************************************)
Left(q) == IF There(q) THEN stock[q] ELSE InitialStock[q]
SoldTo(o) == IF orders[o].status = "paid" THEN Units(orders[o].lines) ELSE Nothing

LeftAlone == (\A q \in Products : Left(q)' = Left(q)) /\ \A o \in OrderIds : SoldTo(o)' = SoldTo(o)

\* Rows are written only when a transaction commits, or a product is created
LEMMA StepWrites ==
  ASSUME Inv, [Next]_vars
  PROVE  \/ UNCHANGED rows
         \/ \E w \in Workers : Writes(w) \/ CommitSettle(w) \/ (CommitDelete(w) /\ ~Rollback(w))
         \/ \E q \in Products : CreateProduct(q)
  <1>1. ASSUME NEW w \in Workers, Start(w)
        PROVE  UNCHANGED rows
    BY <1>1 DEF Start, Settle, Expire, Initiate, Resume, CreateOrder, DeleteProduct, Begin, rows
  <1>2. ASSUME NEW w \in Workers, Continue(w)
        PROVE  UNCHANGED rows \/ Writes(w) \/ CommitSettle(w) \/ (CommitDelete(w) /\ ~Rollback(w))
    <2>1. CASE SettlePayment(w) \/ SettleOrder(w) \/ SettleProduct(w) \/ ExpirePayment(w)
      BY <2>1 DEF SettlePayment, SettleOrder, SettleProduct, ExpirePayment, Grant, Rollback
    <2>2. CASE SupersedeOrder(w) \/ CancelOpen(w) \/ CancelPayment(w) \/ CheckReference(w)
      BY <2>2 DEF SupersedeOrder, CancelOpen, CancelPayment, CheckReference, Grant, Rollback, rows
    <2>3. CASE \E lines \in Carts : OrderFromCart(w, lines)
      BY <2>3 DEF OrderFromCart, rows
    <2>4. CASE Refuse(w) \/ DeleteProductRow(w) \/ (CommitDelete(w) /\ Rollback(w))
      BY <2>4 DEF Refuse, DeleteProductRow, Grant, Rollback
    <2>. QED
      BY <1>2, <2>1, <2>2, <2>3, <2>4, CommitExpireWrites, CommitCheckoutWrites DEF Continue
  <1>3. ASSUME NEW w \in Workers, DeadlockVictim(w) \/ Fail(w)
        PROVE  UNCHANGED rows
    BY <1>3 DEF DeadlockVictim, Fail, Rollback
  <1>4. CASE UNCHANGED vars
    BY <1>4 DEF vars, rows
  <1>. QED
    BY <1>1, <1>2, <1>3, <1>4 DEF Next

\* Only the commit of a settlement moves anything
LEMMA LedgerLeftAlone ==
  ASSUME Inv, [Next]_vars, \A w \in Workers : ~CommitSettle(w)
  PROVE  LeftAlone
  <1>1. CASE UNCHANGED rows
    BY <1>1 DEF rows, LeftAlone, Left, SoldTo, There
  <1>2. ASSUME NEW w \in Workers, Writes(w)
        PROVE  LeftAlone
    <2>1. \A q \in Products : Left(q)' = Left(q)
      BY <1>2 DEF Writes, Left, There
    <2>2. ASSUME NEW o \in OrderIds
          PROVE  SoldTo(o)' = SoldTo(o)
      <3>1. CASE orders[o] = NoOrder
        BY <1>2, <3>1 DEF Writes, SoldTo, NoOrder
      <3>2. CASE orders[o] # NoOrder
        BY <1>2, <3>2 DEF Writes, SoldTo
      <3>. QED
        BY <3>1, <3>2
    <2>. QED
      BY <2>1, <2>2 DEF LeftAlone
  <1>3. ASSUME NEW q \in Products, CreateProduct(q)
        PROVE  LeftAlone
    <2>1. stock' = [stock EXCEPT ![q] = InitialStock[q]] /\ ~There(q) /\ orders' = orders
      BY <1>3 DEF CreateProduct, There
    <2>2. stock'[q] = InitialStock[q] /\ \A x \in Products : x # q => stock'[x] = stock[x]
      BY <2>1 DEF Inv, TypeOK
    <2>3. \A x \in Products : Left(x)' = Left(x)
      BY <2>1, <2>2 DEF Left, There
    <2>. QED
      BY <2>1, <2>3 DEF LeftAlone, SoldTo
  <1>4. ASSUME NEW w \in Workers, CommitDelete(w), ~Rollback(w)
        PROVE  LeftAlone
    <2>1. PICK q \in Products : q = tx[w].product
      <3>1. tx[w] \in Tx /\ tx[w].op = "delete"
        BY <1>4 DEF CommitDelete, Inv, TypeOK
      <3>. QED
        BY <3>1, Kinds DEF Deletion
    <2>2. stock' = [stock EXCEPT ![q] = Gone] /\ ~Ordered(q) /\ orders' = orders
      BY <1>4, <2>1 DEF CommitDelete
    <2>3. stock'[q] = Gone /\ \A x \in Products : x # q => stock'[x] = stock[x]
      BY <2>2 DEF Inv, TypeOK
    <2>4. Left(q) = InitialStock[q]
      BY <2>2 DEF Left, Inv, RowsSound, Untouched
    <2>5. \A x \in Products : Left(x)' = Left(x)
      BY <2>3, <2>4 DEF Left, There
    <2>. QED
      BY <2>2, <2>5 DEF LeftAlone, SoldTo
  <1>. QED
    BY <1>1, <1>2, <1>3, <1>4, StepWrites

\* The commit of a settlement sells an order its lines, or nothing
LEMMA LedgerSells ==
  ASSUME Inv, NEW w \in Workers, CommitSettle(w)
  PROVE  \/ LeftAlone
         \/ \E o \in OrderIds, lines \in Carts :
              /\ SoldTo(o) = Nothing /\ SoldTo(o)' = Units(lines)
              /\ \A x \in OrderIds : x # o => SoldTo(x)' = SoldTo(x)
              /\ \A q \in Products : Units(lines)[q] <= Left(q) /\ Left(q)' = Left(q) - Units(lines)[q]
  <1>1. CASE stock' = stock /\ orders' = orders
    BY <1>1 DEF LeftAlone, Left, SoldTo, There
  <1>2. ASSUME NEW o \in OrderIds,
               orders[o] \in [status : {"pending", "canceled"}, lines : Carts],
               orders' = [orders EXCEPT ![o].status = "paid"],
               \A q \in Products :
                 \/ /\ There(q) /\ Units(orders[o].lines)[q] <= stock[q]
                    /\ stock'[q] = stock[q] - Units(orders[o].lines)[q]
                 \/ Units(orders[o].lines)[q] = 0 /\ stock'[q] = stock[q]
        PROVE  \E lines \in Carts :
                 /\ SoldTo(o) = Nothing /\ SoldTo(o)' = Units(lines)
                 /\ \A x \in OrderIds : x # o => SoldTo(x)' = SoldTo(x)
                 /\ \A q \in Products : Units(lines)[q] <= Left(q) /\ Left(q)' = Left(q) - Units(lines)[q]
    <2>1. PICK lines \in Carts : lines = orders[o].lines
      BY <1>2
    <2>2. Units(lines) \in [Products -> Nat]
      BY UnitsListed
    <2>3. orders'[o].status = "paid" /\ orders'[o].lines = lines /\ \A x \in OrderIds : x # o => orders'[x] = orders[x]
      BY <1>2, <2>1 DEF Inv, TypeOK
    <2>4. /\ SoldTo(o) = Nothing /\ SoldTo(o)' = Units(lines)
          /\ \A x \in OrderIds : x # o => SoldTo(x)' = SoldTo(x)
      BY <1>2, <2>3 DEF SoldTo
    <2>5. ASSUME NEW q \in Products
          PROVE  Units(lines)[q] <= Left(q) /\ Left(q)' = Left(q) - Units(lines)[q]
      <3>1. stock[q] \in Nat \union {Unborn, Gone} /\ InitialStock[q] \in Nat
        BY RowLocksAssumption DEF Inv, TypeOK
      <3>2. Left(q) \in Nat
        BY <3>1 DEF Left, There
      <3>3. CASE /\ There(q) /\ Units(lines)[q] <= stock[q]
                 /\ stock'[q] = stock[q] - Units(lines)[q]
        <4>1. Left(q) = stock[q] /\ stock'[q] \in Nat
          BY <2>2, <3>1, <3>3 DEF Left, There
        <4>2. There(q)'
          BY <4>1, RowLocksAssumption DEF There
        <4>. QED
          BY <3>3, <4>1, <4>2 DEF Left
      <3>4. CASE Units(lines)[q] = 0 /\ stock'[q] = stock[q]
        <4>1. Left(q)' = Left(q)
          BY <3>4 DEF Left, There
        <4>. QED
          BY <3>2, <3>4, <4>1
      <3>. QED
        BY <1>2, <2>1, <3>3, <3>4
    <2>. QED
      BY <2>4, <2>5
  <1>. QED
    BY <1>1, <1>2, Sold

\* Although a transaction waits for each product in turn, and others commit in
\* between, orders are sold as OrderLedger promises: an order's lines leave the
\* stock in one step, each order once, and no reduction of stock is lost
THEOREM RowLocksImplementsLedger == Spec => SoldOnce
  <1>1. Init => Ledger!Init
    <2>. SUFFICES ASSUME Init PROVE Ledger!Init
      OBVIOUS
    <2>1. \A q \in Products : Left(q) = InitialStock[q]
      BY DEF Init, Left, There
    <2>2. \A o \in OrderIds : SoldTo(o) = Nothing
      BY DEF Init, SoldTo, NoOrder
    <2>3. [q \in Products |-> Left(q)] = InitialStock
      BY <2>1, RowLocksAssumption
    <2>. QED
      BY <2>2, <2>3 DEF Ledger!Init, Ledger!Nothing, Nothing, Left, SoldTo
  <1>2. ASSUME Inv, [Next]_vars
        PROVE  [Ledger!Next]_(Ledger!ledgerVars)
    <2>1. CASE LeftAlone
      BY <2>1 DEF LeftAlone, Left, SoldTo, Ledger!ledgerVars
    <2>2. ASSUME NEW o \in OrderIds, NEW lines \in Carts,
                 SoldTo(o) = Nothing, SoldTo(o)' = Units(lines),
                 \A x \in OrderIds : x # o => SoldTo(x)' = SoldTo(x),
                 \A q \in Products : Units(lines)[q] <= Left(q) /\ Left(q)' = Left(q) - Units(lines)[q]
          PROVE  Ledger!Next
      <3>1. Units(lines) # Nothing
        <4>1. lines # << >>
          BY RowLocksAssumption
        <4>. QED
          BY <4>1, UnitsListed
      <3>2. Ledger!Sell(o, Units(lines))
        BY <2>2, <3>1 DEF Ledger!Sell, Ledger!Nothing, Nothing, Left, SoldTo
      <3>. QED
        BY <3>2 DEF Ledger!Next
    <2>. QED
      BY <1>2, <2>1, <2>2, LedgerLeftAlone, LedgerSells
  <1>. QED
    BY <1>1, <1>2, Invariant, PTL DEF Spec, SoldOnce, Ledger!Spec
=============================================================================
