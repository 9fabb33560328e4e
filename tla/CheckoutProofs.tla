--------------------------- MODULE CheckoutProofs ---------------------------
(***************************************************************************)
(* Proofs about Checkout, for every value of its constants.                *)
(***************************************************************************)
EXTENDS Checkout, TLAPS

\* The rows and values a request in progress carries
LEMMA RequestFields ==
  ASSUME TypeOK, NEW r \in Requests
  PROVE  /\ request[r].op = "supersede" =>
              request[r].user \in Users /\ request[r].orders \subseteq OrderIds
         /\ request[r].op = "initiate" =>
              /\ request[r].user \in Users /\ request[r].orders \subseteq OrderIds
              /\ request[r].payments \subseteq PaymentIds
              /\ request[r].items \in Items /\ request[r].items # Nothing
         /\ request[r].op \in {"resume", "reopen", "reinitiate"} =>
              request[r].order \in OrderIds
         /\ request[r].op \in {"reopen", "reinitiate"} =>
              request[r].payments \subseteq PaymentIds
         /\ request[r].op = "reply" =>
              request[r].payment \in PaymentIds /\ request[r].status \in PaymentStatus
         /\ request[r].op = "edit" =>
              /\ request[r].product \in Products /\ request[r].stock \in Nat
              /\ request[r].active \in BOOLEAN
  BY DEF TypeOK, Request, Idle

\* A row that is there has its table's shape
LEMMA RowFields ==
  ASSUME TypeOK
  PROVE  /\ \A o \in OrderIds : orders[o].status # "none" => orders[o] \in OrderRow
         /\ \A p \in PaymentIds : payments[p].status # "none" => payments[p] \in PaymentRow
         /\ \A o \in OrderIds : orders[o].status \in OrderStatus \union {"none"}
         /\ \A p \in PaymentIds : payments[p].status \in PaymentStatus \union {"none"}
         /\ \A p \in PaymentIds : payments[p].order \in OrderIds \union {None}
         /\ \A o \in OrderIds : orders[o].items \in [Products -> Int]
  <1>. Nothing \in [Products -> Int]
    BY DEF Nothing
  <1>. QED
    BY CheckoutAssumption DEF TypeOK, OrderRow, PaymentRow, NoOrder, NoPayment,
         Items, OrderStatus, PaymentStatus

\* A session that a strategy has opened or made up is one
LEMMA NewSessions == \A v : NewSession(v) \in SessionState \ {"none"}
  BY DEF NewSession, SessionState

\* The inductive invariant behind every theorem here
Inv == TypeOK /\ References /\ LocksHold

LEMMA InitInv == Init => Inv
  <1>. SUFFICES ASSUME Init PROVE Inv
    OBVIOUS
  <1>1. Nothing \in Items
    BY CheckoutAssumption DEF Nothing, Items
  <1>2. TypeOK
    BY <1>1, NewSessions, CheckoutAssumption DEF Init, TypeOK, Request, SessionState
  <1>3. References
    BY NewSessions, CheckoutAssumption DEF Init, References, Idle, NoPayment
  <1>4. LocksHold
    BY DEF Init, LocksHold, Idle
  <1>. QED
    BY <1>2, <1>3, <1>4 DEF Inv

\* Taking lines that are there leaves a stock
LEMMA TakeEnough ==
  ASSUME stock \in [Products -> Nat], NEW items \in Items, Enough(items)
  PROVE  Take(items) \in [Products -> Nat]
  BY CheckoutAssumption DEF Items, Enough, Take

\* What the first success of a payment does to the rows
LEMMA ApplyResultStep ==
  ASSUME Inv, NEW p \in PaymentIds, NEW s \in PaymentStatus, ApplyResult(p, s)
  PROVE  /\ cart' \in [Users -> Items]
         /\ stock' \in [Products -> Nat]
         /\ orders' \in [OrderIds -> OrderRow \union {NoOrder}]
         /\ payments' \in [PaymentIds -> PaymentRow \union {NoPayment}]
         /\ \A x \in PaymentIds : payments'[x].status = "none" <=> payments[x].status = "none"
         /\ \A x \in PaymentIds : payments'[x].order # None =>
              orders'[payments'[x].order].status # "none"
         /\ \A o \in OrderIds : orders[o].status # "none" => orders'[o].status # "none"
         /\ \A o \in OrderIds : HeldForUpdate(o) /\ orders[o].status = "pending" =>
              orders'[o] = orders[o]
         /\ \A x \in PaymentIds : PaymentHeld(x) => payments'[x] = payments[x]
  <1>. USE DEF Inv
  <1>1. payments[p] \in PaymentRow
    BY RowFields DEF ApplyResult
  <1>2. Nothing \in Items
    BY CheckoutAssumption DEF Nothing, Items
  <1>3. CASE /\ s # "succeeded" \/ payments[p].status = "succeeded"
             /\ payments' = [payments EXCEPT ![p].status = s]
             /\ UNCHANGED <<orders, stock, cart>>
    BY <1>1, <1>3 DEF TypeOK, References, ApplyResult, PaymentRow, PaymentStatus
  <1>4. CASE SettleOrder(p) /\ cart' = [cart EXCEPT ![payments[p].user] = Nothing]
    <2>. DEFINE o == payments[p].order
    <2>1. /\ o \in OrderIds /\ orders[o] \in OrderRow /\ ~HeldForUpdate(o)
          /\ payments' = [payments EXCEPT ![p].status = "succeeded"]
      BY <1>1, <1>4, RowFields DEF SettleOrder, References, PaymentRow
    <2>2. cart' \in [Users -> Items]
      BY <1>1, <1>2, <1>4 DEF TypeOK, PaymentRow
    <2>3. payments' \in [PaymentIds -> PaymentRow \union {NoPayment}]
      BY <1>1, <2>1 DEF TypeOK, PaymentRow, PaymentStatus
    <2>4. CASE orders[o].status = "paid" /\ UNCHANGED <<orders, stock>>
      BY <1>1, <2>1, <2>2, <2>3, <2>4 DEF TypeOK, References, ApplyResult
    <2>5. CASE /\ orders[o].status # "paid" /\ Enough(orders[o].items)
               /\ stock' = Take(orders[o].items)
               /\ orders' = [orders EXCEPT ![o].status = "paid"]
      <3>1. stock' \in [Products -> Nat]
        BY <2>1, <2>5, TakeEnough DEF TypeOK, OrderRow
      <3>2. orders' \in [OrderIds -> OrderRow \union {NoOrder}]
        BY <2>1, <2>5 DEF TypeOK, OrderRow, OrderStatus
      <3>3. /\ \A x \in PaymentIds : x # p => payments'[x] = payments[x]
            /\ payments'[p].status = "succeeded" /\ payments'[p].order = payments[p].order
        BY <1>1, <2>1 DEF TypeOK, PaymentRow
      <3>4. /\ \A x \in OrderIds : x # o => orders'[x] = orders[x]
            /\ orders'[o].status = "paid"
        BY <2>1, <2>5 DEF TypeOK, OrderRow
      <3>5. payments[p].status # "none" /\ orders[o].status # "none" /\ ~PaymentHeld(p)
        BY <1>1, <2>1 DEF ApplyResult, PaymentRow, PaymentStatus, OrderRow, OrderStatus
      <3>6. \A x \in PaymentIds : payments[x].order # None => orders[payments[x].order].status # "none"
        BY DEF References
      <3>. HIDE DEF Inv
      <3>7. \A x \in OrderIds : orders[x].status # "none" => orders'[x].status # "none"
        BY <3>4
      <3>8. \A x \in PaymentIds : payments'[x].order # None => orders'[payments'[x].order].status # "none"
        <4>1. ASSUME NEW x \in PaymentIds, payments'[x].order # None
              PROVE  orders'[payments'[x].order].status # "none"
          <5>1. payments'[x].order = payments[x].order
            BY <3>3
          <5>2. PICK y \in OrderIds : y = payments[x].order
            <6>1. payments[x].order \in OrderIds \union {None}
              BY RowFields DEF Inv
            <6>. QED
              BY <4>1, <5>1, <6>1
          <5>3. orders[y].status # "none"
            BY <4>1, <5>1, <5>2, <3>6
          <5>. QED
            BY <3>7, <5>1, <5>2, <5>3
        <4>. QED
          BY <4>1
      <3>. QED
        BY <2>1, <2>2, <2>3, <3>1, <3>2, <3>3, <3>4, <3>5, <3>7, <3>8
    <2>. QED
      BY <1>4, <2>4, <2>5 DEF SettleOrder
  <1>5. CASE SettleDeferred(p) /\ cart' = [cart EXCEPT ![payments[p].user] = Nothing]
    <2>. DEFINE items == payments[p].snapshot
    <2>1. PICK o \in OrderIds :
            /\ NextOrder(o)
            /\ orders' = [orders EXCEPT ![o] =
                            [status |-> "paid", user |-> payments[p].user, items |-> items]]
            /\ payments' = [payments EXCEPT ![p].status = "succeeded", ![p].order = o]
      BY <1>5 DEF SettleDeferred
    <2>2. cart' \in [Users -> Items]
      BY <1>1, <1>2, <1>5 DEF TypeOK, PaymentRow
    <2>3. payments' \in [PaymentIds -> PaymentRow \union {NoPayment}]
      BY <1>1, <2>1 DEF TypeOK, PaymentRow, PaymentStatus
    <2>4. stock' \in [Products -> Nat]
      BY <1>1, <1>5, TakeEnough DEF TypeOK, PaymentRow, SettleDeferred, Orderable
    <2>5. orders' \in [OrderIds -> OrderRow \union {NoOrder}]
      BY <1>1, <1>5, <2>1 DEF TypeOK, PaymentRow, OrderRow, OrderStatus, SettleDeferred, Orderable
    <2>. QED
      BY <1>1, <2>1, <2>2, <2>3, <2>4, <2>5 DEF TypeOK, References, ApplyResult, NextOrder
  <1>. QED
    BY <1>3, <1>4, <1>5 DEF ApplyResult

\* A step that only puts a request in a state in which it holds no row
LEMMA RequestOnly ==
  ASSUME Inv, NEW r \in Requests, NEW new \in Request,
         request' = [request EXCEPT ![r] = new],
         UNCHANGED <<cart, stock, active, orders, payments, session, due, expiring>>,
         new.op \notin {"initiate", "reinitiate"},
         new.op \in {"resume", "reopen"} => orders[new.order].status # "none",
         new.op = "supersede" => \A o \in new.orders : orders[o].status # "none",
         new.op = "reply" => payments[new.payment].status # "none"
  PROVE  Inv'
  <1>1. TypeOK'
    BY DEF Inv, TypeOK
  <1>2. References'
    BY DEF Inv, TypeOK, References
  <1>3. LocksHold'
    BY DEF Inv, TypeOK, LocksHold
  <1>. QED
    BY <1>1, <1>2, <1>3 DEF Inv

\* _apply_result together with the end, or not, of a request that holds no row
LEMMA ApplyResultInv ==
  ASSUME Inv, NEW p \in PaymentIds, NEW s \in PaymentStatus, ApplyResult(p, s),
         UNCHANGED <<active, session, due>>, expiring' \subseteq expiring,
         \/ UNCHANGED request
         \/ \E r \in Requests : request' = [request EXCEPT ![r] = Idle]
  PROVE  Inv'
  <1>1. \A r \in Requests : request'[r] \in {request[r], Idle}
    BY DEF Inv, TypeOK
  <1>2. TypeOK'
    BY ApplyResultStep DEF Inv, TypeOK, Request
  <1>3. References'
    BY <1>1, ApplyResultStep, RequestFields DEF Inv, References, Idle
  <1>4. LocksHold'
    BY <1>1, ApplyResultStep, RequestFields DEF Inv, LocksHold, Idle, HeldForUpdate, PaymentHeld
  <1>. QED
    BY <1>2, <1>3, <1>4 DEF Inv

\* Statuses the strategies report are payment statuses
LEMMA StrategyStatuses ==
  /\ \A v \in PaymentProvider : InitiateStatus(v) = "pending"
  /\ \A v, x : \A f \in BOOLEAN : VerifyStatus(v, x, f) \in PaymentStatus
  /\ \A v, e : WebhookStatus(v, e) \in PaymentStatus
  /\ \A v, x : \A f \in BOOLEAN : \A c \in ConfirmResults(v, x, f) :
       /\ c.status \in PaymentStatus
       /\ c.session = x \/ (x = "processing" /\ c.session \in {"paid", "failed"})
  <1>1. \A t : BkashStatusMap(t) \in PaymentStatus
    BY DEF BkashStatusMap, PaymentStatus
  <1>2. \A x : StatusFromSession(x) \in PaymentStatus
    BY DEF StatusFromSession, PaymentStatus
  <1>3. \A v, x : \A f \in BOOLEAN : VerifyStatus(v, x, f) \in PaymentStatus
    BY <1>1, <1>2 DEF VerifyStatus, PaymentStatus
  <1>4. \A v, e : WebhookStatus(v, e) \in PaymentStatus
    BY <1>1 DEF WebhookStatus, StripeWebhookStatus, PaymentStatus
  <1>5. \A v \in PaymentProvider : InitiateStatus(v) = "pending"
    BY DEF InitiateStatus, PaymentProvider, StatusFromSession, BkashStatusMap
  <1>6. ASSUME NEW v, NEW x, NEW f \in BOOLEAN, NEW c \in ConfirmResults(v, x, f)
        PROVE  /\ c.status \in PaymentStatus
               /\ c.session = x \/ (x = "processing" /\ c.session \in {"paid", "failed"})
    <2>1. CASE f \/ v = "stripe"
      <3>1. c \in {[session |-> x, status |-> VerifyStatus(v, x, f)]}
        BY <1>6, <2>1, Zenon DEF ConfirmResults
      <3>. QED
        BY <1>3, <3>1
    <2>2. CASE ~(f \/ v = "stripe") /\ x = "processing"
      BY <1>1, <1>6, <2>2 DEF ConfirmResults
    <2>3. CASE ~(f \/ v = "stripe") /\ x # "processing"
      <3>. DEFINE Reply(t) == {[session |-> x, status |-> BkashStatusMap(t)]}
      <3>1. c \in Reply("absent") \union IF x = "paid" THEN Reply("Completed") ELSE {}
        BY <1>6, <2>3, Zenon DEF ConfirmResults
      <3>2. c \in Reply("absent") \/ c \in Reply("Completed")
        BY <3>1, Zenon
      <3>. QED
        BY <1>1, <3>2
    <2>. QED
      BY <2>1, <2>2, <2>3
  <1>. QED
    BY <1>3, <1>4, <1>5, <1>6

\* A strategy simulates or it does not
LEMMA FakeIsSwitch == \A v : FakeEnabled(v) \in BOOLEAN
  BY SMT DEF FakeEnabled

LEMMA InitiateStartInv ==
  ASSUME Inv, NEW r \in Requests, NEW u \in Users, InitiateStart(r, u)
  PROVE  Inv'
  <1>. DEFINE new == [op |-> "supersede", user |-> u, orders |-> PendingOrders(u)]
  <1>1. new \in Request
    BY DEF Request, PendingOrders
  <1>. QED
    BY <1>1, RequestOnly DEF InitiateStart, PendingOrders

LEMMA InitiateLockInv ==
  ASSUME Inv, NEW r \in Requests, InitiateLock(r)
  PROVE  Inv'
  <1>. DEFINE user == request[r].user
              stale == {o \in request[r].orders : orders[o].status = "pending"}
              new == [op |-> "initiate", user |-> user, orders |-> stale,
                      payments |-> OpenPayments(stale), items |-> cart[user]]
  <1>1. /\ user \in Users /\ stale \subseteq OrderIds
        /\ OpenPayments(stale) \subseteq PaymentIds
    BY RequestFields DEF Inv, InitiateLock, OpenPayments
  <1>2. new \in Request
    BY <1>1 DEF Inv, TypeOK, InitiateLock, Orderable, Request
  <1>3. request' = [request EXCEPT ![r] = new]
    BY DEF InitiateLock
  <1>4. TypeOK'
    BY <1>2, <1>3 DEF Inv, TypeOK, InitiateLock
  <1>5. References'
    BY <1>3 DEF Inv, TypeOK, References, InitiateLock
  <1>6. LocksHold'
    BY <1>1, <1>3 DEF Inv, TypeOK, LocksHold, InitiateLock, OpenPayments, PaymentHeld,
         HeldForUpdate
  <1>. QED
    BY <1>4, <1>5, <1>6 DEF Inv

LEMMA InitiateCommitInv ==
  ASSUME Inv, NEW r \in Requests, NEW provider \in Providers, InitiateCommit(r, provider)
  PROVE  Inv'
  <1>. DEFINE lines == request[r].items
  <1>1. PICK o \in OrderIds, p \in PaymentIds :
          /\ orders[o].status = "none" /\ payments[p].status = "none"
          /\ orders' = [x \in OrderIds |->
               IF x = o THEN PendingOrder(request[r].user, lines)
               ELSE IF x \in request[r].orders THEN [orders[x] EXCEPT !.status = "canceled"]
               ELSE orders[x]]
          /\ payments' = [x \in PaymentIds |->
               IF x = p THEN [status |-> InitiateStatus(provider), order |-> o,
                              user |-> request[r].user, provider |-> provider,
                              snapshot |-> lines]
               ELSE IF x \in request[r].payments THEN [payments[x] EXCEPT !.status = "canceled"]
               ELSE payments[x]]
          /\ session' = [session EXCEPT ![p] = NewSession(provider)]
    BY DEF InitiateCommit, NextOrder, NextPayment
  <1>2. InitiateStatus(provider) = "pending"
    BY StrategyStatuses, CheckoutAssumption
  <1>3. /\ request[r].op = "initiate" /\ request[r].user \in Users
        /\ lines \in Items \ {Nothing}
    BY RequestFields DEF Inv, InitiateCommit
  <1>4. \A x \in request[r].orders : orders[x].status = "pending" /\ x # o
    BY <1>1, <1>3 DEF Inv, LocksHold
  <1>5. \A x \in request[r].payments : payments[x].status \in OpenStatuses /\ x # p
    BY <1>1, <1>3 DEF Inv, LocksHold, OpenStatuses
  <1>6. request' = [request EXCEPT ![r] = Idle]
    BY DEF InitiateCommit
  <1>7. TypeOK'
    <2>1. orders' \in [OrderIds -> OrderRow \union {NoOrder}]
      BY <1>1, <1>3, <1>4, RowFields DEF Inv, TypeOK, PendingOrder, OrderRow, OrderStatus
    <2>2. payments' \in [PaymentIds -> PaymentRow \union {NoPayment}]
      BY <1>1, <1>2, <1>3, <1>5, RowFields, SMTT(30)
      DEF Inv, TypeOK, PaymentRow, PaymentStatus, OpenStatuses
    <2>3. session' \in [PaymentIds -> SessionState]
      BY <1>1, NewSessions DEF Inv, TypeOK
    <2>. QED
      BY <1>6, <2>1, <2>2, <2>3 DEF Inv, TypeOK, InitiateCommit, Request
  <1>8. /\ \A x \in OrderIds : orders[x].status # "none" => orders'[x].status # "none"
        /\ \A x \in OrderIds : orders[x].status = "pending" /\ x \notin request[r].orders =>
             orders'[x] = orders[x]
        /\ orders'[o].status # "none"
    BY <1>1, <1>4, RowFields DEF Inv, PendingOrder
  <1>9. /\ \A x \in PaymentIds : payments'[x].status = "none" <=> x # p /\ payments[x].status = "none"
        /\ \A x \in PaymentIds : payments[x].status # "none" /\ x \notin request[r].payments =>
             payments'[x] = payments[x]
        /\ \A x \in PaymentIds : payments'[x].order = IF x = p THEN o ELSE payments[x].order
    BY <1>1, <1>2, <1>5, RowFields DEF Inv, OpenStatuses
  <1>10. References'
    BY <1>1, <1>6, <1>8, <1>9, NewSessions, RowFields, RequestFields, SMTT(30) DEF Inv, TypeOK, References, Idle
  <1>11. LocksHold'
    BY <1>3, <1>6, <1>8, <1>9, RequestFields DEF Inv, TypeOK, LocksHold, Idle, OpenStatuses
  <1>. QED
    BY <1>7, <1>10, <1>11 DEF Inv

LEMMA ResumeLockInv ==
  ASSUME Inv, NEW r \in Requests, ResumeLock(r)
  PROVE  Inv'
  <1>. DEFINE held == {p \in request[r].payments : payments[p].status \in OpenStatuses}
              new == [op |-> "reinitiate", order |-> request[r].order, payments |-> held]
  <1>1. new \in Request
    BY RequestFields DEF Inv, ResumeLock, Request
  <1>2. request' = [request EXCEPT ![r] = new]
    BY DEF ResumeLock
  <1>3. TypeOK'
    BY <1>1, <1>2 DEF Inv, TypeOK, ResumeLock
  <1>4. References'
    BY <1>2 DEF Inv, TypeOK, References, ResumeLock
  <1>5. LocksHold'
    BY <1>2, RequestFields DEF Inv, TypeOK, LocksHold, ResumeLock, PaymentHeld
  <1>. QED
    BY <1>3, <1>4, <1>5 DEF Inv

LEMMA ResumeCommitInv ==
  ASSUME Inv, NEW r \in Requests, NEW provider \in Providers, ResumeCommit(r, provider)
  PROVE  Inv'
  <1>. DEFINE o == request[r].order
  <1>1. PICK p \in PaymentIds :
          /\ payments[p].status = "none"
          /\ payments' = [x \in PaymentIds |->
               IF x = p THEN [status |-> InitiateStatus(provider), order |-> o,
                              user |-> orders[o].user, provider |-> provider,
                              snapshot |-> Nothing]
               ELSE IF x \in request[r].payments THEN [payments[x] EXCEPT !.status = "canceled"]
               ELSE payments[x]]
          /\ session' = [session EXCEPT ![p] = NewSession(provider)]
    BY DEF ResumeCommit, NextPayment
  <1>2. InitiateStatus(provider) = "pending" /\ Nothing \in Items
    BY StrategyStatuses, CheckoutAssumption DEF Nothing, Items
  <1>3. /\ request[r].op = "reinitiate" /\ o \in OrderIds
        /\ orders[o] \in OrderRow /\ orders[o].status # "none"
    BY RequestFields, RowFields DEF Inv, References, ResumeCommit
  <1>4. \A x \in request[r].payments : payments[x].status \in OpenStatuses /\ x # p
    BY <1>1, <1>3 DEF Inv, LocksHold, OpenStatuses
  <1>5. request' = [request EXCEPT ![r] = Idle] /\ UNCHANGED orders
    BY DEF ResumeCommit
  <1>6. TypeOK'
    <2>1. payments' \in [PaymentIds -> PaymentRow \union {NoPayment}]
      BY <1>1, <1>2, <1>3, <1>4, RowFields, SMTT(30)
      DEF Inv, TypeOK, PaymentRow, PaymentStatus, OpenStatuses, OrderRow
    <2>2. session' \in [PaymentIds -> SessionState]
      BY <1>1, NewSessions DEF Inv, TypeOK
    <2>. QED
      BY <1>5, <2>1, <2>2 DEF Inv, TypeOK, ResumeCommit, Request
  <1>7. /\ \A x \in PaymentIds : payments'[x].status = "none" <=> x # p /\ payments[x].status = "none"
        /\ \A x \in PaymentIds : payments[x].status # "none" /\ x \notin request[r].payments =>
             payments'[x] = payments[x]
        /\ \A x \in PaymentIds : payments'[x].order = IF x = p THEN o ELSE payments[x].order
    BY <1>1, <1>2, <1>4, RowFields DEF Inv, OpenStatuses
  <1>8. References'
    BY <1>1, <1>3, <1>5, <1>7, NewSessions, RowFields, RequestFields
    DEF Inv, TypeOK, References, Idle
  <1>9. LocksHold'
    BY <1>3, <1>5, <1>7, RequestFields DEF Inv, TypeOK, LocksHold, Idle, OpenStatuses
  <1>. QED
    BY <1>6, <1>8, <1>9 DEF Inv

LEMMA ConfirmInv ==
  ASSUME Inv, NEW r \in Requests, NEW p \in PaymentIds, Confirm(r, p)
  PROVE  Inv'
  <1>1. PICK result \in ConfirmResults(payments[p].provider, session[p],
                                       FakeEnabled(payments[p].provider)) :
          /\ session' = [session EXCEPT ![p] = result.session]
          /\ request' = [request EXCEPT ![r] =
                           [op |-> "reply", payment |-> p, status |-> result.status]]
    BY DEF Confirm
  <1>2. /\ result.status \in PaymentStatus
        /\ result.session = session[p]
             \/ (session[p] = "processing" /\ result.session \in {"paid", "failed"})
    BY FakeIsSwitch, StrategyStatuses
  <1>3. TypeOK'
    BY <1>1, <1>2 DEF Inv, TypeOK, Confirm, Request, SessionState
  <1>4. References'
    BY <1>1, <1>2 DEF Inv, TypeOK, References, Confirm
  <1>5. LocksHold'
    BY <1>1 DEF Inv, TypeOK, LocksHold, Confirm
  <1>. QED
    BY <1>3, <1>4, <1>5 DEF Inv

\* create_order outside a checkout: POST /orders and POST /cart/checkout
LEMMA NewOrderInv ==
  ASSUME Inv, NEW u \in Users, NEW items \in Items, Orderable(items),
         \E o \in OrderIds :
           NextOrder(o) /\ orders' = [orders EXCEPT ![o] = PendingOrder(u, items)],
         cart' \in [Users -> Items],
         UNCHANGED <<stock, active, payments, session, request, due, expiring>>
  PROVE  Inv'
  <1>1. PICK o \in OrderIds :
          /\ orders[o].status = "none"
          /\ orders' = [orders EXCEPT ![o] = PendingOrder(u, items)]
    BY DEF NextOrder
  <1>2. TypeOK'
    BY <1>1 DEF Inv, TypeOK, PendingOrder, OrderRow, OrderStatus, Orderable
  <1>3. References'
    BY <1>1, RowFields, RequestFields DEF Inv, TypeOK, References, PendingOrder
  <1>4. LocksHold'
    BY <1>1, RequestFields DEF Inv, TypeOK, LocksHold
  <1>. QED
    BY <1>2, <1>3, <1>4 DEF Inv

LEMMA RequestStepInv ==
  ASSUME Inv, NEW r \in Requests, RequestStep(r)
  PROVE  Inv'
  <1>1. CASE \E u \in Users : InitiateStart(r, u)
    BY <1>1, InitiateStartInv
  <1>2. CASE InitiateLock(r)
    BY <1>2, InitiateLockInv
  <1>3. CASE \E provider \in Providers : InitiateCommit(r, provider)
    BY <1>3, InitiateCommitInv
  <1>4. CASE \E o \in OrderIds : ResumeStart(r, o)
    <2>1. PICK o \in OrderIds : ResumeStart(r, o)
      BY <1>4
    <2>2. [op |-> "resume", order |-> o] \in Request
      BY DEF Request
    <2>. QED
      BY <2>1, <2>2, RequestOnly DEF ResumeStart
  <1>5. CASE ResumeUpdate(r)
    <2>. DEFINE o == request[r].order
                new == [op |-> "reopen", order |-> o, payments |-> OpenPayments({o})]
    <2>1. o \in OrderIds /\ orders[o].status # "none"
      BY <1>5, RequestFields DEF Inv, References, ResumeUpdate
    <2>2. new \in Request
      BY <2>1 DEF Request, OpenPayments
    <2>. QED
      BY <1>5, <2>1, <2>2, RequestOnly DEF ResumeUpdate
  <1>6. CASE ResumeLock(r)
    BY <1>6, ResumeLockInv
  <1>7. CASE \E provider \in Providers : ResumeCommit(r, provider)
    BY <1>7, ResumeCommitInv
  <1>8. CASE \E p \in PaymentIds : Verify(r, p)
    <2>1. PICK p \in PaymentIds : Verify(r, p)
      BY <1>8
    <2>. DEFINE new == [op |-> "reply", payment |-> p,
                        status |-> VerifyStatus(payments[p].provider, session[p],
                                               FakeEnabled(payments[p].provider))]
    <2>2. new \in Request
      BY FakeIsSwitch, StrategyStatuses DEF Request
    <2>. QED
      BY <2>1, <2>2, RequestOnly DEF Verify
  <1>9. CASE \E p \in PaymentIds : Confirm(r, p)
    BY <1>9, ConfirmInv
  <1>10. CASE ApplyReply(r)
    BY <1>10, RequestFields, ApplyResultInv DEF Inv, ApplyReply
  <1>11. CASE \E product \in Products, isActive \in BOOLEAN : EditProduct(r, product, isActive)
    <2>1. PICK product \in Products, isActive \in BOOLEAN : EditProduct(r, product, isActive)
      BY <1>11
    <2>2. [op |-> "edit", product |-> product, stock |-> stock[product],
           active |-> isActive] \in Request
      BY DEF Inv, TypeOK, Request
    <2>. QED
      BY <2>1, <2>2, RequestOnly DEF EditProduct
  <1>12. CASE SaveProduct(r)
    <2>1. TypeOK'
      BY <1>12, RequestFields DEF Inv, TypeOK, SaveProduct, Request
    <2>2. References' /\ LocksHold'
      BY <1>12 DEF Inv, TypeOK, References, LocksHold, SaveProduct, Idle
    <2>. QED
      BY <2>1, <2>2 DEF Inv
  <1>13. CASE Abort(r)
    <2>1. Idle \in Request
      BY DEF Request
    <2>. QED
      BY <1>13, <2>1, RequestOnly DEF Abort, Idle
  <1>. QED
    BY <1>1, <1>2, <1>3, <1>4, <1>5, <1>6, <1>7, <1>8, <1>9, <1>10, <1>11, <1>12, <1>13
    DEF RequestStep

LEMMA PaymentStepInv ==
  ASSUME Inv, NEW p \in PaymentIds, PaymentStep(p)
  PROVE  Inv'
  <1>1. CASE \E e \in Event : Webhook(p, e)
    BY <1>1, StrategyStatuses, ApplyResultInv DEF Webhook
  <1>2. CASE \E s \in FinalStatuses : Abandon(p, s)
    BY <1>2, ApplyResultInv DEF Abandon, PaymentStatus
  <1>3. CASE CountdownFires(p)
    BY <1>3 DEF Inv, TypeOK, References, LocksHold, CountdownFires
  <1>4. CASE Expire(p)
    <2>1. CASE UNCHANGED <<cart, stock, orders, payments>>
      BY <1>4, <2>1 DEF Inv, TypeOK, References, LocksHold, Expire
    <2>2. CASE ApplyResult(p, "failed")
      BY <1>4, <2>2, ApplyResultInv DEF Expire, PaymentStatus
    <2>. QED
      BY <1>4, <2>1, <2>2 DEF Expire
  <1>5. CASE ProviderStep(p)
    <2>1. PICK s \in ProviderMoves(payments[p].provider, session[p]) :
            session' = [session EXCEPT ![p] = s]
      BY <1>5 DEF ProviderStep
    <2>2. session[p] # "none" /\ s \in SessionState /\ s # "none"
      BY DEF ProviderMoves, SessionState
    <2>. QED
      BY <1>5, <2>1, <2>2 DEF Inv, TypeOK, References, LocksHold, ProviderStep
  <1>6. CASE Deadline(p)
    BY <1>6 DEF Inv, TypeOK, References, LocksHold, Deadline
  <1>. QED
    BY <1>1, <1>2, <1>3, <1>4, <1>5, <1>6 DEF PaymentStep

LEMMA NextInv == Inv /\ [Next]_vars => Inv'
  <1>. SUFFICES ASSUME Inv, [Next]_vars PROVE Inv'
    OBVIOUS
  <1>1. CASE \E r \in Requests : RequestStep(r)
    BY <1>1, RequestStepInv
  <1>2. CASE \E p \in PaymentIds : PaymentStep(p)
    BY <1>2, PaymentStepInv
  <1>3. ASSUME NEW u \in Users, CustomerStep(u) PROVE Inv'
    <2>1. CASE \E items \in Items : CreateOrder(u, items)
      BY <2>1, NewOrderInv DEF CreateOrder, Inv, TypeOK
    <2>2. CASE CheckoutCart(u)
      <3>1. cart[u] \in Items /\ cart' \in [Users -> Items]
        BY <2>2, CheckoutAssumption DEF CheckoutCart, Inv, TypeOK, Items, Nothing
      <3>. QED
        BY <2>2, <3>1, NewOrderInv DEF CheckoutCart
    <2>3. ASSUME NEW product \in Products, NEW quantity \in 0..MaxQuantity,
                 SetQuantity(u, product, quantity)
          PROVE  Inv'
      <3>1. cart' \in [Users -> Items]
        BY <2>3 DEF SetQuantity, Inv, TypeOK, Items
      <3>. QED
        BY <2>3, <3>1 DEF SetQuantity, Inv, TypeOK, References, LocksHold
    <2>. QED
      BY <1>3, <2>1, <2>2, <2>3 DEF CustomerStep
  <1>4. ASSUME NEW o \in OrderIds, NEW s \in OrderStatus, PatchOrderStatus(o, s) PROVE Inv'
    <2>1. TypeOK'
      BY <1>4, RowFields DEF Inv, TypeOK, PatchOrderStatus, OrderRow
    <2>2. References' /\ LocksHold'
      BY <1>4, RequestFields, RowFields
      DEF Inv, TypeOK, References, LocksHold, PatchOrderStatus, HeldForUpdate, OrderStatus
    <2>. QED
      BY <2>1, <2>2 DEF Inv
  <1>5. CASE Sweep
    BY <1>5 DEF Inv, TypeOK, References, LocksHold, Sweep
  <1>6. CASE WorkerRestart
    BY <1>6 DEF Inv, TypeOK, References, LocksHold, WorkerRestart
  <1>7. CASE UNCHANGED vars
    BY <1>7 DEF Inv, TypeOK, References, LocksHold, vars
  <1>. QED
    BY <1>1, <1>2, <1>3, <1>4, <1>5, <1>6, <1>7 DEF Next

(***************************************************************************)
(* The rows keep their shape, references stay good and the row locks do    *)
(* their work, whatever staff and customers do.                            *)
(***************************************************************************)
THEOREM Invariance == Spec => [](TypeOK /\ References /\ LocksHold)
  <1>1. Spec => []Inv
    BY InitInv, NextInv, PTL DEF Spec
  <1>. QED
    BY <1>1, PTL DEF Inv

\* Every variable keeps its table's shape
THEOREM CheckoutTyped == Spec => []TypeOK
  BY Invariance, PTL

-----------------------------------------------------------------------------
\* Why a status is applied to a payment
Cause(p, s) ==
  \/ \E r \in Requests :
       request[r].op = "reply" /\ request[r].payment = p /\ request[r].status = s
  \/ \E e \in Accepted(payments[p].provider, session[p], payments[p].provider \in Unsigned) :
       s = WebhookStatus(payments[p].provider, e)
  \/ s \in {"failed", "canceled"} /\ payments[p].status # "succeeded"

\* create_order's one effect
OrderCreated ==
  \E u \in Users, items \in Items, o \in OrderIds :
    /\ items # Nothing
    /\ orders[o].status = "none"
    /\ orders' = [orders EXCEPT ![o] = PendingOrder(u, items)]

\* The few kinds of step that touch orders, payments or stock
LEMMA StepKinds ==
  ASSUME Inv, [Next]_vars
  PROVE  \/ UNCHANGED <<orders, payments, stock>>
         \/ \E r \in Requests, provider \in Providers : InitiateCommit(r, provider)
         \/ \E r \in Requests, provider \in Providers : ResumeCommit(r, provider)
         \/ \E p \in PaymentIds, s \in PaymentStatus :
              ApplyResult(p, s) /\ Cause(p, s) /\ UNCHANGED session
         \/ OrderCreated /\ UNCHANGED <<payments, stock, session>>
         \/ /\ "admin_orders" \in Endpoints
            /\ \E o \in OrderIds, s \in OrderStatus : PatchOrderStatus(o, s)
         \/ "products" \in Endpoints /\ \E r \in Requests : SaveProduct(r)
  <1>1. ASSUME NEW r \in Requests, RequestStep(r)
        PROVE  \/ UNCHANGED <<orders, payments, stock>>
               \/ \E provider \in Providers : InitiateCommit(r, provider)
               \/ \E provider \in Providers : ResumeCommit(r, provider)
               \/ ApplyReply(r)
               \/ "products" \in Endpoints /\ SaveProduct(r)
    BY <1>1 DEF RequestStep, InitiateStart, InitiateLock, ResumeStart, ResumeUpdate, ResumeLock,
         Verify, Confirm, EditProduct, Abort
  <1>2. ASSUME NEW r \in Requests, ApplyReply(r)
        PROVE  /\ request[r].payment \in PaymentIds /\ request[r].status \in PaymentStatus
               /\ ApplyResult(request[r].payment, request[r].status)
               /\ Cause(request[r].payment, request[r].status) /\ UNCHANGED session
    BY <1>2, RequestFields DEF Inv, ApplyReply, Cause
  <1>3. ASSUME NEW p \in PaymentIds, PaymentStep(p)
        PROVE  \/ UNCHANGED <<orders, payments, stock>>
               \/ \E s \in PaymentStatus :
                    ApplyResult(p, s) /\ Cause(p, s) /\ UNCHANGED session
    <2>1. CASE \E e \in Event : Webhook(p, e)
      BY <2>1, StrategyStatuses DEF Webhook, Cause
    <2>2. CASE \E s \in FinalStatuses : Abandon(p, s)
      BY <2>2 DEF Abandon, Cause, PaymentStatus
    <2>3. CASE Expire(p)
      BY <2>3 DEF Expire, Cause, PaymentStatus, FinalStatuses
    <2>. QED
      BY <1>3, <2>1, <2>2, <2>3 DEF PaymentStep, CountdownFires, ProviderStep, Deadline
  <1>4. ASSUME NEW u \in Users, CustomerStep(u)
        PROVE  \/ UNCHANGED <<orders, payments, stock>>
               \/ OrderCreated /\ UNCHANGED <<payments, stock, session>>
    <2>1. ASSUME NEW items \in Items, CreateOrder(u, items) PROVE OrderCreated
      BY <2>1 DEF CreateOrder, OrderCreated, Orderable, NextOrder
    <2>2. CASE CheckoutCart(u)
      BY <2>2 DEF CheckoutCart, OrderCreated, Orderable, NextOrder, Inv, TypeOK
    <2>. QED
      BY <1>4, <2>1, <2>2 DEF CustomerStep, CreateOrder, CheckoutCart, SetQuantity
  <1>. QED
    BY <1>1, <1>2, <1>3, <1>4 DEF Next, vars, Sweep, WorkerRestart

\* A step that pays order o with payment p
Pays(p, o) ==
  /\ orders[o].status # "paid" /\ orders'[o].status = "paid"
  /\ orders'[o].items \in Items /\ orders'[o].items # Nothing
  /\ Enough(orders'[o].items) /\ stock' = Take(orders'[o].items)
  /\ payments'[p].status = "succeeded" /\ payments'[p].order = o
  /\ payments'[p].provider = payments[p].provider
  /\ \A x \in OrderIds : x # o => orders'[x] = orders[x]

\* _apply_result writes the status alone, or it is a first success and pays
LEMMA ApplyResultKinds ==
  ASSUME Inv, NEW p \in PaymentIds, NEW s \in PaymentStatus, ApplyResult(p, s)
  PROVE  /\ \A x \in PaymentIds : x # p => payments'[x] = payments[x]
         /\ \A x \in PaymentIds : payments'[x].provider = payments[x].provider
         /\ payments[p].order # None => payments'[p].order = payments[p].order
         /\ payments'[p].status = s
         /\ \/ /\ UNCHANGED <<orders, stock>>
               /\ payments'[p].order = payments[p].order
               /\ \/ s # "succeeded" \/ payments[p].status = "succeeded"
                  \/ /\ payments[p].order \in OrderIds
                     /\ orders[payments[p].order].status = "paid"
            \/ s = "succeeded" /\ \E o \in OrderIds : Pays(p, o)
  <1>1. payments[p] \in PaymentRow
    BY RowFields DEF Inv, ApplyResult
  <1>2. CASE /\ s # "succeeded" \/ payments[p].status = "succeeded"
             /\ payments' = [payments EXCEPT ![p].status = s]
             /\ UNCHANGED <<orders, stock, cart>>
    BY <1>1, <1>2 DEF Inv, TypeOK, PaymentRow
  <1>3. CASE s = "succeeded" /\ SettleOrder(p)
    <2>. DEFINE o == payments[p].order
    <2>1. o \in OrderIds /\ orders[o] \in OrderRow
      BY <1>1, <1>3, RowFields DEF Inv, SettleOrder, References, PaymentRow
    <2>2. payments' = [payments EXCEPT ![p].status = "succeeded"]
      BY <1>3 DEF SettleOrder
    <2>3. /\ \A x \in PaymentIds : x # p => payments'[x] = payments[x]
          /\ \A x \in PaymentIds : payments'[x].provider = payments[x].provider
          /\ payments'[p].order = o /\ payments'[p].status = "succeeded"
      BY <1>1, <2>2 DEF Inv, TypeOK, PaymentRow
    <2>4. CASE orders[o].status = "paid" /\ UNCHANGED <<orders, stock>>
      BY <1>3, <2>1, <2>3, <2>4
    <2>5. CASE /\ orders[o].status # "paid" /\ Enough(orders[o].items)
               /\ stock' = Take(orders[o].items)
               /\ orders' = [orders EXCEPT ![o].status = "paid"]
      <3>1. /\ orders'[o].status = "paid" /\ orders'[o].items = orders[o].items
            /\ \A x \in OrderIds : x # o => orders'[x] = orders[x]
        BY <2>1, <2>5 DEF Inv, TypeOK, OrderRow
      <3>. QED
        BY <1>3, <2>1, <2>3, <2>5, <3>1 DEF Pays, OrderRow
    <2>. QED
      BY <1>3, <2>4, <2>5 DEF SettleOrder
  <1>4. CASE s = "succeeded" /\ SettleDeferred(p)
    <2>. DEFINE items == payments[p].snapshot
    <2>1. PICK o \in OrderIds :
            /\ orders[o].status = "none"
            /\ orders' = [orders EXCEPT ![o] =
                            [status |-> "paid", user |-> payments[p].user, items |-> items]]
            /\ payments' = [payments EXCEPT ![p].status = "succeeded", ![p].order = o]
      BY <1>4 DEF SettleDeferred, NextOrder
    <2>2. /\ \A x \in PaymentIds : x # p => payments'[x] = payments[x]
          /\ \A x \in PaymentIds : payments'[x].provider = payments[x].provider
          /\ payments'[p].order = o /\ payments'[p].status = "succeeded"
      BY <1>1, <2>1 DEF Inv, TypeOK, PaymentRow
    <2>3. /\ orders'[o].status = "paid" /\ orders'[o].items = items
          /\ \A x \in OrderIds : x # o => orders'[x] = orders[x]
      BY <2>1 DEF Inv, TypeOK
    <2>. QED
      BY <1>1, <1>4, <2>1, <2>2, <2>3 DEF Pays, PaymentRow, SettleDeferred, Orderable
  <1>. QED
    BY <1>2, <1>3, <1>4 DEF ApplyResult

\* What the commit of a superseding checkout leaves alone
LEMMA InitiateCommitRows ==
  ASSUME Inv, NEW r \in Requests, NEW provider \in Providers, InitiateCommit(r, provider)
  PROVE  /\ \A o \in OrderIds :
              \/ orders'[o] = orders[o]
              \/ orders[o].status \in {"none", "pending"} /\ orders'[o].status \in {"pending", "canceled"}
         /\ \A p \in PaymentIds :
              \/ payments'[p] = payments[p]
              \/ payments[p].status = "none" /\ payments'[p].status = "pending"
              \/ /\ payments[p].status \in OpenStatuses
                 /\ payments'[p] = [payments[p] EXCEPT !.status = "canceled"]
         /\ UNCHANGED stock
  <1>1. /\ \A o \in request[r].orders : orders[o].status = "pending"
        /\ \A p \in request[r].payments : payments[p].status \in OpenStatuses
    BY DEF Inv, LocksHold, InitiateCommit
  <1>2. InitiateStatus(provider) = "pending"
    BY StrategyStatuses, CheckoutAssumption
  <1>. QED
    BY <1>1, <1>2, RowFields DEF Inv, InitiateCommit, NextOrder, NextPayment, PendingOrder

LEMMA ResumeCommitRows ==
  ASSUME Inv, NEW r \in Requests, NEW provider \in Providers, ResumeCommit(r, provider)
  PROVE  /\ \A p \in PaymentIds :
              \/ payments'[p] = payments[p]
              \/ payments[p].status = "none" /\ payments'[p].status = "pending"
              \/ /\ payments[p].status \in OpenStatuses
                 /\ payments'[p] = [payments[p] EXCEPT !.status = "canceled"]
         /\ UNCHANGED <<orders, stock>>
  <1>1. \A p \in request[r].payments : payments[p].status \in OpenStatuses
    BY DEF Inv, LocksHold, ResumeCommit
  <1>2. InitiateStatus(provider) = "pending"
    BY StrategyStatuses, CheckoutAssumption
  <1>. QED
    BY <1>1, <1>2 DEF ResumeCommit, NextPayment

(***************************************************************************)
(* Without staff writing order statuses, a step leaves a paid order as it  *)
(* is, a payment at its order and provider, and pays an order only by the  *)
(* first success of one of its payments.                                   *)
(***************************************************************************)
LEMMA StepEffects ==
  ASSUME Inv, [Next]_vars, "admin_orders" \notin Endpoints
  PROVE  /\ \A o \in OrderIds : orders[o].status = "paid" => orders'[o] = orders[o]
         /\ \A p \in PaymentIds : payments[p].status # "none" =>
              /\ payments'[p].provider = payments[p].provider
              /\ payments[p].order # None => payments'[p].order = payments[p].order
         /\ \A p \in PaymentIds :
              payments'[p].status = "succeeded" /\ payments[p].status # "succeeded" =>
                payments'[p].order \in OrderIds /\ orders'[payments'[p].order].status = "paid"
         /\ \A p \in PaymentIds : payments'[p].status = "succeeded" =>
              payments'[p].order = payments[p].order \/ payments[p].status # "succeeded"
         /\ \/ /\ \A o \in OrderIds : orders'[o].status = "paid" => orders[o].status = "paid"
               /\ "products" \notin Endpoints => UNCHANGED stock
            \/ \E p \in PaymentIds, o \in OrderIds :
                 Pays(p, o) /\ Cause(p, "succeeded") /\ UNCHANGED session
  <1>1. CASE UNCHANGED <<orders, payments, stock>>
    BY <1>1
  <1>. DEFINE OnlyOpens(p) ==
         \/ payments'[p] = payments[p]
         \/ payments[p].status = "none" /\ payments'[p].status = "pending"
         \/ /\ payments[p].status \in OpenStatuses
            /\ payments'[p] = [payments[p] EXCEPT !.status = "canceled"]
  <1>7. ASSUME NEW p \in PaymentIds, OnlyOpens(p)
        PROVE  /\ payments[p].status # "none" =>
                    /\ payments'[p].provider = payments[p].provider
                    /\ payments'[p].order = payments[p].order
               /\ payments'[p].status = "succeeded" => payments'[p] = payments[p]
    <2>1. CASE payments[p].status \in OpenStatuses
      BY <1>7, <2>1, RowFields DEF Inv, PaymentRow, OpenStatuses
    <2>. QED
      BY <1>7, <2>1
  <1>2. CASE \E r \in Requests, provider \in Providers : InitiateCommit(r, provider)
    <2>1. \A p \in PaymentIds : OnlyOpens(p)
      BY <1>2, InitiateCommitRows
    <2>2. /\ \A o \in OrderIds : orders[o].status = "paid" => orders'[o] = orders[o]
          /\ \A o \in OrderIds : orders'[o].status = "paid" => orders[o].status = "paid"
          /\ UNCHANGED stock
      BY <1>2, InitiateCommitRows
    <2>. HIDE DEF OnlyOpens
    <2>. QED
      BY <1>7, <2>1, <2>2
  <1>3. CASE \E r \in Requests, provider \in Providers : ResumeCommit(r, provider)
    <2>1. \A p \in PaymentIds : OnlyOpens(p)
      BY <1>3, ResumeCommitRows
    <2>2. UNCHANGED <<orders, stock>>
      BY <1>3, ResumeCommitRows
    <2>. HIDE DEF OnlyOpens
    <2>. QED
      BY <1>7, <2>1, <2>2
  <1>4. ASSUME NEW p \in PaymentIds, NEW s \in PaymentStatus,
               ApplyResult(p, s), Cause(p, s), UNCHANGED session
        PROVE  /\ \A o \in OrderIds : orders[o].status = "paid" => orders'[o] = orders[o]
               /\ \A x \in PaymentIds :
                    /\ payments'[x].provider = payments[x].provider
                    /\ payments[x].order # None => payments'[x].order = payments[x].order
               /\ \A x \in PaymentIds :
                    payments'[x].status = "succeeded" /\ payments[x].status # "succeeded" =>
                      payments'[x].order \in OrderIds /\ orders'[payments'[x].order].status = "paid"
               /\ \A x \in PaymentIds : payments'[x].status = "succeeded" =>
                    payments'[x].order = payments[x].order \/ payments[x].status # "succeeded"
               /\ UNCHANGED <<orders, stock>>
                    \/ \E o \in OrderIds : Pays(p, o) /\ Cause(p, "succeeded")
    <2>1. CASE UNCHANGED <<orders, stock>> /\ payments'[p].order = payments[p].order
      BY <1>4, <2>1, ApplyResultKinds DEF Pays
    <2>2. CASE s = "succeeded" /\ \E o \in OrderIds : Pays(p, o)
      <3>1. PICK o \in OrderIds : Pays(p, o)
        BY <2>2
      <3>2. /\ \A x \in OrderIds : orders[x].status = "paid" => orders'[x] = orders[x]
            /\ payments'[p].order = o /\ orders'[o].status = "paid"
            /\ payments[p].status # "succeeded" \/ payments'[p].order = payments[p].order
        BY <3>1, <1>4, <2>2 DEF Pays, ApplyResult, Inv, References
      <3>3. /\ \A x \in PaymentIds : x # p => payments'[x] = payments[x]
            /\ \A x \in PaymentIds : payments'[x].provider = payments[x].provider
            /\ payments[p].order # None => payments'[p].order = payments[p].order
        BY <1>4, ApplyResultKinds
      <3>. QED
        BY <1>4, <2>2, <3>1, <3>2, <3>3
    <2>. QED
      BY <1>4, <2>1, <2>2, ApplyResultKinds
  <1>5. CASE OrderCreated /\ UNCHANGED <<payments, stock>>
    BY <1>5, RowFields DEF Inv, TypeOK, OrderCreated, PendingOrder
  <1>6. CASE "products" \in Endpoints /\ \E r \in Requests : SaveProduct(r)
    BY <1>6 DEF SaveProduct
  <1>. QED
    BY <1>1, <1>2, <1>3, <1>4, <1>5, <1>6, StepKinds

-----------------------------------------------------------------------------
(***************************************************************************)
(* Unless staff write order statuses by hand, a payment that reads         *)
(* succeeded belongs to a paid order.                                      *)
(***************************************************************************)
THEOREM SucceededOrdersPaid ==
  ASSUME "admin_orders" \notin Endpoints
  PROVE  Spec => []SucceededIsPaid
  <1>1. Init => SucceededIsPaid
    BY CheckoutAssumption DEF Init, SucceededIsPaid, NoPayment
  <1>2. Inv /\ SucceededIsPaid /\ [Next]_vars => SucceededIsPaid'
    <2>. SUFFICES ASSUME Inv, SucceededIsPaid, [Next]_vars, NEW p \in PaymentIds,
                         payments'[p].status = "succeeded"
                  PROVE  /\ payments'[p].order # None
                         /\ orders'[payments'[p].order].status = "paid"
      BY DEF SucceededIsPaid
    <2>1. CASE payments[p].status = "succeeded"
      <3>1. /\ payments[p].order \in OrderIds
            /\ orders[payments[p].order].status = "paid"
        BY <2>1, RowFields DEF Inv, SucceededIsPaid
      <3>. QED
        BY <2>1, <3>1, StepEffects, CheckoutAssumption
    <2>2. CASE payments[p].status # "succeeded"
      BY <2>2, StepEffects, CheckoutAssumption
    <2>. QED
      BY <2>1, <2>2
  <1>3. Spec => []Inv
    BY InitInv, NextInv, PTL DEF Spec
  <1>. QED
    BY <1>1, <1>2, <1>3, PTL DEF Spec

(***************************************************************************)
(* Unless staff write order statuses by hand, a paid order stays paid.     *)
(***************************************************************************)
THEOREM PaidOrdersStayPaid ==
  ASSUME "admin_orders" \notin Endpoints
  PROVE  Spec => PaidStaysPaid
  <1>1. Inv /\ [Next]_vars =>
          [\A o \in OrderIds : orders[o].status = "paid" => orders'[o].status = "paid"]_vars
    BY StepEffects
  <1>2. Spec => []Inv
    BY InitInv, NextInv, PTL DEF Spec
  <1>. QED
    BY <1>1, <1>2, PTL DEF Spec, PaidStaysPaid

(***************************************************************************)
(* Only a provider's answer takes a payment out of succeeded.              *)
(***************************************************************************)
THEOREM SucceededLeftOnAnswer == Spec => SucceededUntilAnswer
  <1>1. ASSUME Inv, [Next]_vars, NEW p \in PaymentIds,
               payments[p].status = "succeeded", payments'[p].status # "succeeded"
        PROVE  \/ \E r \in Requests : request[r].op = "reply" /\ request[r].payment = p
               \/ \E e \in Accepted(payments[p].provider, session[p],
                                  payments[p].provider \in Unsigned) :
                    WebhookStatus(payments[p].provider, e) = payments'[p].status
    <2>1. ASSUME NEW x \in PaymentIds, NEW s \in PaymentStatus, ApplyResult(x, s), Cause(x, s)
          PROVE  x = p /\ s = payments'[p].status
      BY <1>1, <2>1, ApplyResultKinds
    <2>2. CASE \E r \in Requests, provider \in Providers : InitiateCommit(r, provider)
      BY <1>1, <2>2, InitiateCommitRows DEF OpenStatuses
    <2>3. CASE \E r \in Requests, provider \in Providers : ResumeCommit(r, provider)
      BY <1>1, <2>3, ResumeCommitRows DEF OpenStatuses
    <2>4. CASE \E x \in PaymentIds, s \in PaymentStatus : ApplyResult(x, s) /\ Cause(x, s)
      BY <1>1, <2>1, <2>4 DEF Cause
    <2>. QED
      BY <1>1, <2>2, <2>3, <2>4, StepKinds DEF PatchOrderStatus, SaveProduct
  <1>2. Inv /\ [Next]_vars =>
          [\A p \in PaymentIds :
             payments[p].status = "succeeded" /\ payments'[p].status # "succeeded" =>
               \/ \E r \in Requests : request[r].op = "reply" /\ request[r].payment = p
               \/ \E e \in Accepted(payments[p].provider, session[p],
                                  payments[p].provider \in Unsigned) :
                    WebhookStatus(payments[p].provider, e) = payments'[p].status]_vars
    BY <1>1
  <1>3. Spec => []Inv
    BY InitInv, NextInv, PTL DEF Spec
  <1>. QED
    BY <1>2, <1>3, PTL DEF Spec, SucceededUntilAnswer

(***************************************************************************)
(* Unless staff write order statuses or whole product rows by hand,        *)
(* Checkout implements OrderLedger: each order is sold at most once, its   *)
(* lines leaving stock in the step that marks it paid.                     *)
(***************************************************************************)
THEOREM CheckoutImplementsLedger ==
  ASSUME "admin_orders" \notin Endpoints, "products" \notin Endpoints
  PROVE  Spec => SoldOnce
  <1>1. Init => Ledger!Init
    BY DEF Init, Ledger!Init, Sale, NoOrder, Nothing, Ledger!Nothing
  <1>2. ASSUME Inv, [Next]_vars
        PROVE  [Ledger!Next]_(Ledger!ledgerVars)
    <2>. DEFINE Lines(o) == IF orders[o].status = "paid" THEN orders[o].items ELSE Nothing
    <2>1. CASE /\ \A o \in OrderIds : orders'[o].status = "paid" => orders[o].status = "paid"
               /\ UNCHANGED stock
      <3>1. \A o \in OrderIds : Lines(o)' = Lines(o)
        BY <1>2, <2>1, StepEffects
      <3>2. Sale' = Sale
        BY <3>1 DEF Sale
      <3>. QED
        BY <2>1, <3>2 DEF Ledger!ledgerVars
    <2>2. ASSUME NEW p \in PaymentIds, NEW o \in OrderIds, Pays(p, o)
          PROVE  Ledger!Next
      <3>. DEFINE items == orders'[o].items
      <3>1. /\ Sale[o] = Nothing
            /\ items \in Items /\ items # Nothing
            /\ \A q \in Products : items[q] <= stock[q]
            /\ stock' = [q \in Products |-> stock[q] - items[q]]
        BY <2>2 DEF Pays, Sale, Enough, Take
      <3>2. Sale' = [Sale EXCEPT ![o] = items]
        BY <2>2 DEF Pays, Sale
      <3>. QED
        BY <3>1, <3>2 DEF Ledger!Next, Ledger!Sell, Nothing, Ledger!Nothing
    <2>. QED
      BY <1>2, <2>1, <2>2, StepEffects
  <1>3. Spec => []Inv
    BY InitInv, NextInv, PTL DEF Spec
  <1>. QED
    BY <1>1, <1>2, <1>3, PTL DEF Spec, SoldOnce, Ledger!Spec

-----------------------------------------------------------------------------
\* What the strategies report as a success was completed by the customer, and
\* a completed session stays completed
LEMMA SuccessIsCompleted ==
  ASSUME NEW v \in PaymentProvider, NEW x \in SessionState
  PROVE  /\ VerifyStatus(v, x, FALSE) = "succeeded" => Completed(v, x)
         /\ \A e \in Events(v, x) : WebhookStatus(v, e) = "succeeded" => Completed(v, x)
         /\ \A c \in ConfirmResults(v, x, FALSE) :
              c.status = "succeeded" \/ Completed(v, x) => Completed(v, c.session)
         /\ \A y \in ProviderMoves(v, x) : Completed(v, x) => Completed(v, y)
  <1>1. VerifyStatus(v, x, FALSE) = "succeeded" => Completed(v, x)
    BY DEF PaymentProvider, SessionState, VerifyStatus, StatusFromSession, BkashStatusMap,
         TransactionStatus, Completed
  <1>2. \A e \in Events(v, x) : WebhookStatus(v, e) = "succeeded" => Completed(v, x)
    <2>1. CASE v = "stripe"
      BY <2>1 DEF SessionState, Events, StripeEvents, WebhookStatus, StripeWebhookStatus, Completed
    <2>2. CASE v = "bkash"
      BY <2>2 DEF SessionState, Events, BkashEvents, WebhookStatus, BkashStatusMap, Completed
    <2>. QED
      BY <2>1, <2>2 DEF PaymentProvider
  <1>3. \A c \in ConfirmResults(v, x, FALSE) :
          c.status = "succeeded" \/ Completed(v, x) => Completed(v, c.session)
    <2>1. CASE v = "stripe"
      <3>. SUFFICES ASSUME NEW c \in ConfirmResults(v, x, FALSE),
                           c.status = "succeeded" \/ Completed(v, x)
                    PROVE  Completed(v, c.session)
        OBVIOUS
      <3>1. c = [session |-> x, status |-> VerifyStatus(v, x, FALSE)]
        BY <2>1, Zenon DEF ConfirmResults
      <3>2. c.session = x /\ c.status = VerifyStatus(v, x, FALSE)
        BY <3>1, Zenon
      <3>. QED
        BY <1>1, <3>2
    <2>2. CASE v = "bkash" /\ x = "processing"
      BY <2>2 DEF ConfirmResults, BkashStatusMap, Completed
    <2>3. CASE v = "bkash" /\ x = "paid"
      BY <2>3 DEF ConfirmResults, BkashStatusMap, Completed
    <2>4. CASE v = "bkash" /\ x \notin {"processing", "paid"}
      BY <2>4 DEF ConfirmResults, BkashStatusMap, Completed
    <2>. QED
      BY <2>1, <2>2, <2>3, <2>4 DEF PaymentProvider
  <1>4. \A y \in ProviderMoves(v, x) : Completed(v, x) => Completed(v, y)
    BY DEF PaymentProvider, SessionState, ProviderMoves, Completed
  <1>. QED
    BY <1>1, <1>2, <1>3, <1>4

\* The customer completed the session, or the provider is one that reports
\* successes without it
Backed(v, x) == Completed(v, x) \/ v \in Simulated \union Unsigned

LEMMA SuccessIsBacked ==
  ASSUME NEW v \in PaymentProvider, NEW x \in SessionState
  PROVE  /\ VerifyStatus(v, x, FakeEnabled(v)) = "succeeded" => Backed(v, x)
         /\ \A e \in Accepted(v, x, v \in Unsigned) :
              WebhookStatus(v, e) = "succeeded" => Backed(v, x)
         /\ \A c \in ConfirmResults(v, x, FakeEnabled(v)) :
              c.status = "succeeded" \/ Backed(v, x) => Backed(v, c.session)
         /\ \A y \in ProviderMoves(v, x) : Backed(v, x) => Backed(v, y)
  <1>1. CASE v \in Simulated \union Unsigned
    BY <1>1 DEF Backed
  <1>2. CASE v \notin Simulated \union Unsigned
    <2>1. /\ VerifyStatus(v, x, FakeEnabled(v)) = VerifyStatus(v, x, FALSE)
          /\ ConfirmResults(v, x, FakeEnabled(v)) = ConfirmResults(v, x, FALSE)
      BY <1>2 DEF FakeEnabled, VerifyStatus, ConfirmResults
    <2>2. Accepted(v, x, v \in Unsigned) = Events(v, x)
      BY <1>2 DEF Accepted
    <2>3. \A y : Backed(v, y) <=> Completed(v, y)
      BY <1>2 DEF Backed
    <2>4. VerifyStatus(v, x, FakeEnabled(v)) = "succeeded" => Backed(v, x)
      BY <2>1, <2>3, SuccessIsCompleted, Zenon
    <2>5. ASSUME NEW e \in Accepted(v, x, v \in Unsigned), WebhookStatus(v, e) = "succeeded"
          PROVE  Backed(v, x)
      <3>1. e \in Events(v, x)
        BY <2>2, <2>5, Zenon
      <3>. QED
        BY <2>3, <2>5, <3>1, SuccessIsCompleted, Zenon
    <2>6. \A c \in ConfirmResults(v, x, FakeEnabled(v)) :
            c.status = "succeeded" \/ Backed(v, x) => Backed(v, c.session)
      BY <2>1, <2>3, SuccessIsCompleted, Zenon
    <2>7. \A y \in ProviderMoves(v, x) : Backed(v, x) => Backed(v, y)
      BY <2>3, SuccessIsCompleted, Zenon
    <2>. QED
      BY <2>4, <2>6, <2>7, <2>5, Zenon
  <1>. QED
    BY <1>1, <1>2

\* A success on its way to be applied is backed
AnswersHonest ==
  \A r \in Requests : request[r].op = "reply" /\ request[r].status = "succeeded" =>
    Backed(payments[request[r].payment].provider, session[request[r].payment])

LEMMA BackedStays ==
  ASSUME Inv, [Next]_vars, NEW p \in PaymentIds, payments[p].status # "none",
         Backed(payments[p].provider, session[p])
  PROVE  Backed(payments[p].provider, session'[p])
  <1>1. payments[p].provider \in PaymentProvider /\ session[p] \in SessionState
    BY RowFields, CheckoutAssumption DEF Inv, TypeOK, PaymentRow
  <1>2. ASSUME NEW r \in Requests, RequestStep(r)
        PROVE  Backed(payments[p].provider, session'[p])
    <2>1. CASE \E provider \in Providers : InitiateCommit(r, provider) \/ ResumeCommit(r, provider)
      BY <2>1 DEF Inv, TypeOK, InitiateCommit, ResumeCommit, NextPayment
    <2>2. ASSUME NEW x \in PaymentIds, Confirm(r, x)
          PROVE  Backed(payments[p].provider, session'[p])
      <3>1. CASE x # p
        BY <2>2, <3>1 DEF Inv, TypeOK, Confirm
      <3>2. CASE x = p
        <4>1. PICK result \in ConfirmResults(payments[p].provider, session[p],
                                          FakeEnabled(payments[p].provider)) :
                session' = [session EXCEPT ![p] = result.session]
          BY <2>2, <3>2 DEF Confirm
        <4>. QED
          BY <1>1, <4>1, SuccessIsBacked DEF Inv, TypeOK
      <3>. QED
        BY <3>1, <3>2
    <2>. QED
      BY <1>2, <2>1, <2>2 DEF RequestStep, InitiateStart, InitiateLock, ResumeStart, ResumeUpdate,
           ResumeLock, Verify, ApplyReply, EditProduct, SaveProduct, Abort
  <1>3. ASSUME NEW x \in PaymentIds, PaymentStep(x)
        PROVE  Backed(payments[p].provider, session'[p])
    <2>1. CASE ProviderStep(x)
      BY <1>1, <2>1, SuccessIsBacked, ZenonT(30) DEF Inv, TypeOK, ProviderStep
    <2>. QED
      BY <1>3, <2>1 DEF PaymentStep, Webhook, Abandon, CountdownFires, Expire, Deadline
  <1>. QED
    BY <1>2, <1>3 DEF Next, vars, CustomerStep, CreateOrder, CheckoutCart, SetQuantity,
         PatchOrderStatus, Sweep, WorkerRestart

LEMMA AnswersHonestStep ==
  ASSUME Inv, AnswersHonest, [Next]_vars, "admin_orders" \notin Endpoints
  PROVE  AnswersHonest'
  <1>. SUFFICES ASSUME NEW r \in Requests, request'[r].op = "reply",
                       request'[r].status = "succeeded"
                PROVE  Backed(payments'[request'[r].payment].provider,
                                 session'[request'[r].payment])
    BY DEF AnswersHonest
  <1>1. CASE request'[r] = request[r]
    <2>. DEFINE p == request[r].payment
    <2>1. p \in PaymentIds /\ payments[p].status # "none"
      BY <1>1, RequestFields DEF Inv, References
    <2>2. Backed(payments[p].provider, session[p])
      BY <1>1 DEF AnswersHonest
    <2>. QED
      BY <1>1, <2>1, <2>2, BackedStays, StepEffects
  <1>2. ASSUME NEW p \in PaymentIds, Verify(r, p)
        PROVE  Backed(payments'[request'[r].payment].provider,
                         session'[request'[r].payment])
    <2>1. payments[p].provider \in PaymentProvider /\ session[p] \in SessionState
      BY <1>2, RowFields, CheckoutAssumption DEF Inv, TypeOK, PaymentRow, Verify
    <2>2. /\ request'[r].payment = p /\ UNCHANGED <<payments, session>>
          /\ request'[r].status = VerifyStatus(payments[p].provider, session[p],
                                               FakeEnabled(payments[p].provider))
      BY <1>2, CheckoutAssumption DEF Inv, TypeOK, Verify
    <2>. QED
      BY <2>1, <2>2, SuccessIsBacked
  <1>3. ASSUME NEW p \in PaymentIds, Confirm(r, p)
        PROVE  Backed(payments'[request'[r].payment].provider,
                         session'[request'[r].payment])
    <2>1. payments[p].provider \in PaymentProvider /\ session[p] \in SessionState
      BY <1>3, RowFields, CheckoutAssumption DEF Inv, TypeOK, PaymentRow, Confirm
    <2>2. PICK result \in ConfirmResults(payments[p].provider, session[p],
                                        FakeEnabled(payments[p].provider)) :
            /\ session' = [session EXCEPT ![p] = result.session]
            /\ request' = [request EXCEPT ![r] =
                             [op |-> "reply", payment |-> p, status |-> result.status]]
            /\ UNCHANGED payments
      BY <1>3, CheckoutAssumption DEF Confirm
    <2>3. /\ session'[p] = result.session /\ request'[r].payment = p
          /\ request'[r].status = result.status
      BY <2>2 DEF Inv, TypeOK
    <2>. QED
      BY <2>1, <2>2, <2>3, SuccessIsBacked, ZenonT(30)
  <1>4. ASSUME NEW q \in Requests, RequestStep(q)
        PROVE  \/ request'[r] = request[r]
               \/ \E p \in PaymentIds : Verify(r, p) \/ Confirm(r, p)
    BY <1>4, SMTT(30) DEF Inv, TypeOK, RequestStep, InitiateStart, InitiateLock, InitiateCommit, ResumeStart,
         ResumeUpdate, ResumeLock, ResumeCommit, Verify, Confirm, ApplyReply, EditProduct,
         SaveProduct, Abort, Idle
  <1>. QED
    BY <1>1, <1>2, <1>3, <1>4 DEF Next, vars, PaymentStep, Webhook, Abandon, CountdownFires, Expire,
         ProviderStep, Deadline, CustomerStep, CreateOrder, CheckoutCart, SetQuantity,
         PatchOrderStatus, Sweep, WorkerRestart

(***************************************************************************)
(* Unless staff write order statuses by hand, an order is paid only if the *)
(* customer completed a session of one of its payments, or it has one with *)
(* a provider that is simulated or whose notifications go unverified.      *)
(***************************************************************************)
THEOREM PaidOrdersCompleted ==
  ASSUME "admin_orders" \notin Endpoints
  PROVE  Spec => []CompletedIfPaid
  <1>1. Init => AnswersHonest /\ CompletedIfPaid
    BY DEF Init, AnswersHonest, CompletedIfPaid, Idle, NoOrder
  <1>2. Inv /\ AnswersHonest /\ CompletedIfPaid /\ [Next]_vars => CompletedIfPaid'
    <2>. SUFFICES ASSUME Inv, AnswersHonest, CompletedIfPaid, [Next]_vars,
                         NEW o \in OrderIds, orders'[o].status = "paid"
                  PROVE  \E p \in PaymentIds :
                           payments'[p].order = o /\ Backed(payments'[p].provider, session'[p])
      BY DEF CompletedIfPaid, Backed
    <2>1. CASE orders[o].status = "paid"
      <3>1. PICK p \in PaymentIds :
              payments[p].order = o /\ Backed(payments[p].provider, session[p])
        BY <2>1 DEF CompletedIfPaid, Backed
      <3>2. payments[p].status # "none"
        BY <3>1, CheckoutAssumption DEF Inv, TypeOK, PaymentRow, PaymentStatus, NoPayment
      <3>. QED
        BY <3>1, <3>2, BackedStays, StepEffects, CheckoutAssumption
    <2>2. CASE orders[o].status # "paid"
      <3>1. PICK p \in PaymentIds, x \in OrderIds :
              Pays(p, x) /\ Cause(p, "succeeded") /\ UNCHANGED session
        BY <2>2, StepEffects
      <3>2. x = o
        BY <2>2, <3>1 DEF Pays
      <3>3. payments[p].provider \in PaymentProvider /\ session[p] \in SessionState
        <4>1. payments'[p] \in PaymentRow
          BY <3>1, NextInv DEF Pays, Inv, TypeOK, NoPayment
        <4>. QED
          BY <3>1, <4>1, CheckoutAssumption DEF Pays, Inv, TypeOK, PaymentRow
      <3>4. Backed(payments[p].provider, session[p])
        BY <3>1, <3>3, SuccessIsBacked DEF Cause, AnswersHonest
      <3>. QED
        BY <3>1, <3>2, <3>4 DEF Pays
    <2>. QED
      BY <2>1, <2>2
  <1>3. Inv /\ AnswersHonest /\ [Next]_vars => AnswersHonest'
    BY AnswersHonestStep
  <1>4. Spec => []Inv
    BY InitInv, NextInv, PTL DEF Spec
  <1>. QED
    BY <1>1, <1>2, <1>3, <1>4, PTL DEF Spec
=============================================================================
