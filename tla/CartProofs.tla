----------------------------- MODULE CartProofs -----------------------------
(***************************************************************************)
(* Proofs about Cart, for any number of requests, products and lines, and  *)
(* any items, whatever order their quantities and products come in.        *)
(***************************************************************************)
EXTENDS Cart, FiniteSetTheorems, TLAPS

Written == [LineIds -> Line \union {Gone, None}]

\* The lines for one who has written w
Over(w) == [id \in LineIds |-> IF w[id] # None THEN w[id] ELSE lines[id]]

-----------------------------------------------------------------------------
(***************************************************************************)
(* What is true of the lines, committed and written.                       *)
(***************************************************************************)
OneLineEach(view) == \A p \in Products : \A i, j \in LinesOf(view, p) : i = j

Affordable(view) ==
  \A id \in LineIds : view[id] \in Line => view[id].quantity <= InitialStock[view[id].product]

\* What a request has written fits the lines that are committed: one line for
\* each product, none back that was removed, each for the product it was for
Fits(w) ==
  /\ OneLineEach(Over(w)) /\ Affordable(w)
  /\ \A id \in LineIds : w[id] \in Line =>
       /\ lines[id] # Gone
       /\ lines[id] \in Line => lines[id].product = w[id].product

\* Two requests have written different rows, for different products
Apart(w, x) ==
  /\ \A id \in LineIds : w[id] = None \/ x[id] = None
  /\ \A i, j \in LineIds : w[i] \in Line /\ x[j] \in Line => w[i].product # x[j].product

-----------------------------------------------------------------------------
(***************************************************************************)
(* What is true of a request t that has written w.                         *)
(***************************************************************************)
Busy(t) == t.op \in {"add", "set", "merge"}

\* The items to go are the last of those asked for
Aligned(t) ==
  /\ Len(t.todo) <= Len(t.asked)
  /\ \A i \in DOMAIN t.todo : t.todo[i] = t.asked[Len(t.asked) - Len(t.todo) + i]
  /\ t.op \in {"add", "set"} => Len(t.asked) = 1

\* The stock it has read, and compared with what it was asked to set
Allowed(t) ==
  /\ \A p \in Products : t.stock[p] <= InitialStock[p]
  /\ t.op = "set" => \A i \in DOMAIN t.asked : t.asked[i].quantity <= t.stock[t.asked[i].product]

\* A quantity that is enough for an item, or all there is
Enough(t, quantity, item) ==
  quantity >= item.quantity \/ (t.op = "merge" /\ quantity >= t.stock[item.product])

\* What it is about to write for the next item.  If the line that it has read
\* is there, it is the product's, and nobody but itself can have inserted it
\* since
Planned(t, w) ==
  t.step # "look" =>
    /\ t.todo # << >>
    /\ t.step \in {"insert", "update"} =>
         /\ t.quantity > 0 /\ t.quantity <= t.stock[Head(t.todo).product]
         /\ Enough(t, t.quantity, Head(t.todo))
    /\ t.step \in {"update", "delete"} =>
         /\ t.line \in LineIds /\ Over(w)[t.line] # Unborn
         /\ Over(w)[t.line] \in Line => Over(w)[t.line].product = Head(t.todo).product
    /\ t.step = "update" /\ t.op = "merge" /\ w[t.line] \in Line =>
         t.quantity >= w[t.line].quantity \/ t.quantity >= t.stock[Head(t.todo).product]
    /\ t.step = "delete" => t.op = "merge" /\ t.stock[Head(t.todo).product] = 0

\* An item is in the cart, or sold out
Satisfied(t, w, item) ==
  \/ t.op = "merge" /\ t.stock[item.product] = 0
  \/ \E id \in LineIds : w[id] \in Line /\ w[id].product = item.product /\ Enough(t, w[id].quantity, item)

Fulfilled(t, w) == \A i \in 1..(Len(t.asked) - Len(t.todo)) : Satisfied(t, w, t.asked[i])

Sound(t, w) ==
  /\ t.op \in {"idle", "checkout"} => w = NoWrites
  /\ Busy(t) => Aligned(t) /\ Allowed(t) /\ Planned(t, w) /\ Fulfilled(t, w)

\* The inductive invariant behind every theorem here
Inv ==
  /\ TypeOK
  /\ \A p \in Products : stock[p] <= InitialStock[p]
  /\ OneLineEach(lines) /\ Affordable(lines)
  /\ \A r \in Requests : Fits(writes[r]) /\ Sound(request[r], writes[r])
  /\ \A r, s \in Requests : r # s => Apart(writes[r], writes[s])

-----------------------------------------------------------------------------
(***************************************************************************)
(* The operators the model is built from.                                  *)
(***************************************************************************)
View0 == [LineIds -> Line \union {Unborn, Gone}]

Work == [op : {"add", "set", "merge"}, asked : Seq(Line), todo : Seq(Line),
         stock : [Products -> Nat], step : {"look", "insert", "update", "delete"},
         line : LineIds \union {None}, quantity : Nat]

\* The kind of a request tells its fields
LEMMA Kinds ==
  ASSUME NEW t \in Request
  PROVE  \/ t = Idle /\ t.op = "idle"
         \/ t.op \in {"add", "set", "merge"} /\ t \in Work
         \/ t.op = "checkout"
         \/ t.op = "clear" /\ t \in [op : {"clear"}, targets : SUBSET LineIds]
  <1>1. CASE t = Idle
    BY <1>1 DEF Idle
  <1>2. CASE t \in Work
    BY <1>2 DEF Work
  <1>3. CASE t \in [op : {"checkout"}]
    BY <1>3
  <1>4. CASE t \in [op : {"clear"}, targets : SUBSET LineIds]
    BY <1>4
  <1>. QED
    BY <1>1, <1>2, <1>3, <1>4 DEF Request, Work

LEMMA Markers ==
  /\ None \notin Line /\ Unborn \notin Line /\ Gone \notin Line
  /\ None # Unborn /\ None # Gone /\ Unborn # Gone /\ None \notin LineIds
  BY CartAssumption

LEMMA OverTyped ==
  ASSUME lines \in View0, NEW w \in Written
  PROVE  Over(w) \in View0
  BY Markers DEF Over, View0, Written

LEMMA LinesOfView ==
  ASSUME NEW view \in View0, NEW p \in Products, NEW id \in LineIds
  PROVE  id \in LinesOf(view, p) <=> view[id] \in Line /\ view[id].product = p
  BY Markers DEF View0, LinesOf, Live

LEMMA AtMostOne ==
  ASSUME NEW S, \A i, j \in S : i = j
  PROVE  Cardinality(S) <= 1
  <1>1. CASE S = {}
    BY <1>1, FS_EmptySet
  <1>2. CASE S # {}
    <2>1. PICK i \in S : S = {i}
      BY <1>2
    <2>2. Cardinality({i}) = 1
      BY FS_Singleton
    <2>. QED
      BY <2>1, <2>2
  <1>. QED
    BY <1>1, <1>2

LEMMA ApartSymmetric ==
  ASSUME NEW w, NEW x
  PROVE  Apart(w, x) => Apart(x, w)
  BY DEF Apart

\* Nothing written is apart from everything, and fits
LEMMA NothingWritten ==
  ASSUME OneLineEach(lines), lines \in View0
  PROVE  /\ NoWrites \in Written /\ Fits(NoWrites)
         /\ \A x \in Written : Apart(NoWrites, x)
  <1>1. NoWrites \in Written /\ \A id \in LineIds : NoWrites[id] = None
    BY DEF NoWrites, Written
  <1>2. Over(NoWrites) = lines
    BY <1>1 DEF Over, View0
  <1>3. \A id \in LineIds : NoWrites[id] \notin Line
    BY <1>1, Markers
  <1>. QED
    BY <1>1, <1>2, <1>3 DEF Fits, Affordable, Apart

\* Nobody else has written a row
LEMMA HeldByNobodyElse ==
  ASSUME NEW r \in Requests, NEW id \in LineIds, RowHolders(r, id) = {}
  PROVE  \A s \in Requests \ {r} : writes[s][id] = None
  BY DEF RowHolders

-----------------------------------------------------------------------------
(***************************************************************************)
(* Steps that commit nothing.                                              *)
(***************************************************************************)
LEMMA SameLines ==
  ASSUME lines' = lines, NEW w, NEW t
  PROVE  /\ Over(w)' = Over(w)
         /\ Fits(w) => Fits(w)'
         /\ Sound(t, w) => Sound(t, w)'
  <1>1. Over(w)' = Over(w)
    BY DEF Over
  <1>2. Fits(w) => Fits(w)'
    BY <1>1 DEF Fits, OneLineEach, LinesOf, Affordable
  <1>3. Planned(t, w) => Planned(t, w)'
    BY <1>1 DEF Planned
  <1>4. Sound(t, w) => Sound(t, w)'
    BY <1>3 DEF Sound, NoWrites
  <1>. QED
    BY <1>1, <1>2, <1>4

LEMMA StepInv ==
  ASSUME Inv, NEW r \in Requests, NEW t \in Request, NEW w \in Written,
         request' = [request EXCEPT ![r] = t], writes' = [writes EXCEPT ![r] = w],
         UNCHANGED <<stock, active, lines>>, Fits(w), Sound(t, w),
         \A s \in Requests \ {r} : Apart(w, writes[s])
  PROVE  Inv'
  <1>1. writes \in [Requests -> Written] /\ request \in [Requests -> Request]
    BY DEF Inv, TypeOK, Written
  <1>2. /\ request'[r] = t /\ writes'[r] = w
        /\ \A s \in Requests \ {r} : request'[s] = request[s] /\ writes'[s] = writes[s]
    BY <1>1
  <1>3. ASSUME NEW u \in Requests, NEW v \in Requests, u # v
        PROVE  Apart(writes'[u], writes'[v])
    <2>1. CASE u = r
      BY <1>2, <1>3, <2>1
    <2>2. CASE v = r
      BY <1>2, <1>3, <2>2, ApartSymmetric
    <2>3. CASE u # r /\ v # r
      BY <1>2, <1>3, <2>3 DEF Inv
    <2>. QED
      BY <2>1, <2>2, <2>3
  <1>4. \A u, v \in Requests : u # v => Apart(writes[u], writes[v])'
    BY <1>3 DEF Apart
  <1>5. ASSUME NEW s \in Requests
        PROVE  Fits(writes[s])' /\ Sound(request[s], writes[s])'
    <2>1. Fits(writes'[s]) /\ Sound(request'[s], writes'[s])
      <3>1. CASE s = r
        BY <1>2, <3>1
      <3>2. CASE s # r
        BY <1>2, <3>2 DEF Inv
      <3>. QED
        BY <3>1, <3>2
    <2>2. PICK x, q : x = writes'[s] /\ q = request'[s]
      OBVIOUS
    <2>3. Fits(x)' /\ Sound(q, x)'
      BY <2>1, <2>2, SameLines
    <2>. QED
      BY <2>2, <2>3
  <1>6. TypeOK'
    <2>1. writes' \in [Requests -> Written] /\ request' \in [Requests -> Request]
      BY <1>1
    <2>2. ASSUME NEW s \in Requests, NEW id \in LineIds, writes'[s][id] # None
          PROVE  RowHolders(s, id)' = {}
      BY <1>3, <2>2 DEF RowHolders, Apart
    <2>. QED
      BY <2>1, <2>2 DEF Inv, TypeOK, Written, LinesOf
  <1>7. OneLineEach(lines)' /\ Affordable(lines)' /\ \A p \in Products : stock'[p] <= InitialStock[p]
    BY DEF Inv, OneLineEach, LinesOf, Affordable
  <1>. QED
    BY <1>4, <1>5, <1>6, <1>7 DEF Inv

\* A request goes on, but writes nothing
LEMMA ReadInv ==
  ASSUME Inv, NEW r \in Requests, NEW t \in Request, request' = [request EXCEPT ![r] = t],
         UNCHANGED <<stock, active, lines, writes>>, Sound(t, writes[r])
  PROVE  Inv'
  <1>1. writes[r] \in Written /\ writes' = [writes EXCEPT ![r] = writes[r]]
    BY DEF Inv, TypeOK, Written
  <1>2. Fits(writes[r]) /\ \A s \in Requests \ {r} : Apart(writes[r], writes[s])
    BY DEF Inv
  <1>. QED
    BY <1>1, <1>2, StepInv

LEMMA RollbackInv ==
  ASSUME Inv, NEW r \in Requests, Rollback(r), UNCHANGED <<stock, active, lines>>
  PROVE  Inv'
  <1>1. lines \in View0 /\ OneLineEach(lines) /\ writes \in [Requests -> Written]
    BY DEF Inv, TypeOK, View0, Written
  <1>2. Idle \in Request /\ Sound(Idle, NoWrites)
    BY DEF Request, Idle, Sound, Busy
  <1>. QED
    BY <1>1, <1>2, NothingWritten, StepInv DEF Rollback

-----------------------------------------------------------------------------
(***************************************************************************)
(* Requests begin, and clear.                                              *)
(***************************************************************************)
LEMMA NothingWrittenYet ==
  ASSUME Inv, NEW r \in Requests, request[r].op \in {"idle", "checkout"}
  PROVE  writes[r] = NoWrites
  BY DEF Inv, Sound

LEMMA BeginInv ==
  ASSUME Inv, NEW r \in Requests, NEW op \in {"add", "set", "merge"}, NEW items \in Seq(Line),
         Begin(r, op, items), op \in {"add", "set"} => Len(items) = 1,
         op = "set" => \A i \in DOMAIN items : items[i].quantity <= stock[items[i].product]
  PROVE  Inv'
  <1>. DEFINE t == [op |-> op, asked |-> items, todo |-> items, stock |-> stock,
                    step |-> "look", line |-> None, quantity |-> 0]
  <1>1. /\ request' = [request EXCEPT ![r] = t] /\ UNCHANGED <<stock, active, lines, writes>>
        /\ request[r] = Idle
    BY DEF Begin
  <1>2. stock \in [Products -> Nat] /\ \A p \in Products : stock[p] <= InitialStock[p]
    BY DEF Inv, TypeOK
  <1>3. t \in Request
    BY <1>2 DEF Request
  <1>4. /\ t.op = op /\ t.asked = items /\ t.todo = items /\ t.stock = stock /\ t.step = "look"
    OBVIOUS
  <1>. HIDE DEF t
  <1>5. Len(items) \in Nat /\ DOMAIN items = 1..Len(items)
    OBVIOUS
  <1>6. Aligned(t) /\ Fulfilled(t, writes[r])
    BY <1>4, <1>5 DEF Aligned, Fulfilled
  <1>7. Allowed(t) /\ Planned(t, writes[r])
    BY <1>2, <1>4 DEF Allowed, Planned
  <1>8. Sound(t, writes[r])
    BY <1>4, <1>6, <1>7 DEF Sound
  <1>. QED
    BY <1>1, <1>3, <1>8, ReadInv

LEMMA AddToCartInv ==
  ASSUME Inv, NEW r \in Requests, NEW item \in Items, AddToCart(r, item)
  PROVE  Inv'
  <1>1. item \in Line /\ <<item>> \in Seq(Line) /\ Len(<<item>>) = 1
    BY CartAssumption
  <1>2. Begin(r, "add", <<item>>)
    BY DEF AddToCart
  <1>. QED
    BY <1>1, <1>2, BeginInv

LEMMA SetQuantityInv ==
  ASSUME Inv, NEW r \in Requests, NEW item \in Items, SetQuantity(r, item)
  PROVE  Inv'
  <1>1. item \in Line /\ <<item>> \in Seq(Line) /\ Len(<<item>>) = 1
    BY CartAssumption
  <1>2. Begin(r, "set", <<item>>) /\ item.quantity <= stock[item.product]
    BY DEF SetQuantity
  <1>3. \A i \in DOMAIN <<item>> : <<item>>[i] = item
    OBVIOUS
  <1>. QED
    BY <1>1, <1>2, <1>3, BeginInv

LEMMA MergeItemsInv ==
  ASSUME Inv, NEW r \in Requests, NEW items \in GuestCarts, MergeItems(r, items)
  PROVE  Inv'
  <1>. DEFINE places == {i \in DOMAIN items : items[i].product \in active}
  <1>1. PICK ids \in SetToSeqs(places) : Begin(r, "merge", [i \in DOMAIN ids |-> items[ids[i]]])
    BY DEF MergeItems, ActiveItems
  <1>. DEFINE kept == [i \in DOMAIN ids |-> items[ids[i]]]
  <1>2. items \in Seq(Line) /\ Len(items) \in Nat /\ DOMAIN items = 1..Len(items)
    BY CartAssumption
  <1>3. IsFiniteSet(1..Len(items)) /\ places \subseteq 1..Len(items)
    BY <1>2, FS_Interval
  <1>4. Cardinality(places) \in Nat
    BY <1>3, FS_Subset, FS_CardinalityType
  <1>5. ids \in [1..Cardinality(places) -> places]
    BY DEF SetToSeqs
  <1>6. kept \in Seq(Line)
    BY <1>2, <1>4, <1>5
  <1>. HIDE DEF kept
  <1>7. Begin(r, "merge", kept)
    BY <1>1 DEF kept
  <1>. QED
    BY <1>6, <1>7, BeginInv

LEMMA ClearInv ==
  ASSUME Inv, NEW r \in Requests, NEW ids \in SUBSET LineIds, Clear(r, ids)
  PROVE  Inv'
  <1>. DEFINE t == [op |-> "clear", targets |-> ids]
  <1>1. t \in Request /\ Sound(t, writes[r])
    BY DEF Request, Sound, Busy
  <1>. QED
    BY <1>1, ReadInv DEF Clear

LEMMA CheckoutCartInv ==
  ASSUME Inv, NEW r \in Requests, CheckoutCart(r)
  PROVE  Inv'
  <1>. DEFINE t == [op |-> "checkout"]
  <1>1. writes[r] = NoWrites
    BY NothingWrittenYet DEF CheckoutCart, Idle
  <1>2. t \in Request /\ Sound(t, writes[r])
    BY <1>1 DEF Request, Sound, Busy
  <1>. QED
    BY <1>2, ReadInv DEF CheckoutCart

-----------------------------------------------------------------------------
(***************************************************************************)
(* The items of add_to_cart, set_quantity and merge_items, one by one.     *)
(***************************************************************************)
LEMMA Working ==
  ASSUME Inv, NEW r \in Requests, Writing(r)
  PROVE  /\ request[r] \in Work /\ Busy(request[r])
         /\ Aligned(request[r]) /\ Allowed(request[r])
         /\ Planned(request[r], writes[r]) /\ Fulfilled(request[r], writes[r])
         /\ writes[r] \in Written /\ lines \in View0 /\ Over(writes[r]) \in View0
         /\ Over(writes[r]) = View(r) /\ Fits(writes[r])
  <1>1. request[r] \in Request /\ writes[r] \in Written /\ lines \in View0
    BY DEF Inv, TypeOK, View0, Written
  <1>2. Busy(request[r]) /\ request[r] \in Work
    BY <1>1, Kinds DEF Writing, Busy, Idle
  <1>3. Over(writes[r]) = View(r)
    BY DEF Over, View
  <1>. QED
    BY <1>1, <1>2, <1>3, OverTyped DEF Inv, Sound

\* The next item is among those asked for
LEMMA NextItemAsked ==
  ASSUME NEW t \in Work, Aligned(t), t.todo # << >>
  PROVE  /\ Head(t.todo) \in Line /\ Tail(t.todo) \in Seq(Line)
         /\ Len(t.asked) \in Nat /\ Len(t.todo) \in Nat /\ Len(t.todo) > 0
         /\ Len(t.todo) <= Len(t.asked) /\ Len(Tail(t.todo)) = Len(t.todo) - 1
         /\ Len(t.asked) - Len(t.todo) + 1 \in DOMAIN t.asked
         /\ Head(t.todo) = t.asked[Len(t.asked) - Len(t.todo) + 1]
         /\ \A j \in DOMAIN Tail(t.todo) : Tail(t.todo)[j] = t.todo[j + 1] /\ j + 1 \in DOMAIN t.todo
  <1>. DEFINE todo == t.todo
              asked == t.asked
  <1>1. todo \in Seq(Line) /\ asked \in Seq(Line)
    BY DEF Work
  <1>2. /\ Len(todo) <= Len(asked)
        /\ \A i \in DOMAIN todo : todo[i] = asked[Len(asked) - Len(todo) + i]
    BY DEF Aligned
  <1>. HIDE DEF todo, asked
  <1>3. todo # << >>
    BY DEF todo
  <1>4. /\ Head(todo) \in Line /\ Tail(todo) \in Seq(Line) /\ Head(todo) = todo[1]
        /\ Len(todo) \in Nat \ {0} /\ Len(asked) \in Nat
        /\ DOMAIN todo = 1..Len(todo) /\ DOMAIN asked = 1..Len(asked)
        /\ Len(Tail(todo)) = Len(todo) - 1 /\ DOMAIN Tail(todo) = 1..(Len(todo) - 1)
        /\ \A j \in 1..(Len(todo) - 1) : Tail(todo)[j] = todo[j + 1]
    BY <1>1, <1>3
  <1>5. Len(asked) - Len(todo) + 1 \in 1..Len(asked) /\ 1 \in DOMAIN todo
    BY <1>2, <1>4
  <1>6. \A j \in DOMAIN Tail(todo) : j + 1 \in DOMAIN todo
    BY <1>4
  <1>7. Head(todo) = asked[Len(asked) - Len(todo) + 1]
    BY <1>2, <1>4, <1>5
  <1>8. \A j \in DOMAIN Tail(todo) : Tail(todo)[j] = todo[j + 1]
    BY <1>4
  <1>9. Len(todo) > 0 /\ Len(asked) - Len(todo) + 1 \in DOMAIN asked
    BY <1>4, <1>5
  <1>. QED
    BY <1>2, <1>4, <1>6, <1>7, <1>8, <1>9 DEF todo, asked

\* The quantity to write: positive unless the product is sold out, in stock if
\* that is asserted, and no less than what there was
LEMMA NewQuantities ==
  ASSUME NEW r \in Requests, request[r] \in Work, Aligned(request[r]), Allowed(request[r]),
         request[r].todo # << >>, NEW current \in Nat
  PROVE  LET t == request[r]
             item == Head(t.todo)
             quantity == NewQuantity(r, current)
         IN /\ quantity \in Nat
            /\ quantity = 0 => t.op = "merge" /\ t.stock[item.product] = 0
            /\ AssertStock(r, quantity) => quantity <= t.stock[item.product]
            /\ Enough(t, quantity, item)
            /\ t.op = "merge" => quantity >= current \/ quantity >= t.stock[item.product]
  <1>. DEFINE t == request[r]
              item == Head(t.todo)
              available == t.stock[item.product]
              sum == current + item.quantity
  <1>1. item \in Line /\ item = t.asked[Len(t.asked) - Len(t.todo) + 1]
        /\ Len(t.asked) - Len(t.todo) + 1 \in DOMAIN t.asked
    BY NextItemAsked
  <1>2. item.quantity \in Nat /\ item.quantity > 0 /\ available \in Nat
    BY <1>1 DEF Line, Work
  <1>3. CASE t.op = "add"
    BY <1>2, <1>3 DEF NewQuantity, AssertStock, Enough
  <1>4. CASE t.op = "set"
    <2>1. item.quantity <= available
      BY <1>1, <1>4 DEF Allowed
    <2>. QED
      BY <1>2, <1>4, <2>1 DEF NewQuantity, AssertStock, Enough
  <1>5. CASE t.op = "merge"
    <2>1. NewQuantity(r, current) = IF sum <= available THEN sum ELSE available
      BY <1>5 DEF NewQuantity
    <2>2. sum \in Nat /\ sum >= item.quantity /\ sum > 0 /\ sum >= current
      BY <1>2
    <2>3. CASE sum <= available
      BY <1>2, <1>5, <2>1, <2>2, <2>3 DEF AssertStock, Enough
    <2>4. CASE ~ (sum <= available)
      <3>1. sum > available
        BY <1>2, <2>2, <2>4
      <3>2. NewQuantity(r, current) = available /\ available >= 0
        BY <1>2, <2>1, <2>4
      <3>. QED
        BY <1>2, <1>5, <3>1, <3>2 DEF AssertStock, Enough
    <2>. QED
      BY <2>3, <2>4
  <1>. QED
    BY <1>3, <1>4, <1>5 DEF Work

\* A line is planned for the next item, or the stock is short
LEMMA PlanInv ==
  ASSUME Inv, NEW r \in Requests, Writing(r), request[r].todo # << >>,
         NEW step \in {"insert", "update", "delete"}, NEW line \in LineIds \union {None},
         NEW current \in Nat, Plan(r, step, line, NewQuantity(r, current)),
         UNCHANGED <<stock, active, lines>>,
         step = "delete" <=> (NewQuantity(r, current) = 0 /\ line # None),
         step = "insert" => NewQuantity(r, current) # 0,
         step # "insert" =>
           /\ line \in LineIds /\ View(r)[line] \in Line
           /\ View(r)[line].product = Head(request[r].todo).product
           /\ current = View(r)[line].quantity
  PROVE  Inv'
  <1>. DEFINE quantity == NewQuantity(r, current)
              t == [request[r] EXCEPT !.step = step, !.line = line, !.quantity = quantity]
              item == Head(request[r].todo)
  <1>1. /\ request[r] \in Work /\ Aligned(request[r]) /\ Allowed(request[r])
        /\ Fulfilled(request[r], writes[r]) /\ writes[r] \in Written /\ Over(writes[r]) = View(r)
    BY Working
  <1>2. /\ quantity \in Nat
        /\ quantity = 0 => request[r].op = "merge" /\ request[r].stock[item.product] = 0
        /\ AssertStock(r, quantity) => quantity <= request[r].stock[item.product]
        /\ Enough(request[r], quantity, item)
        /\ request[r].op = "merge" => quantity >= current \/ quantity >= request[r].stock[item.product]
    BY <1>1, NewQuantities
  <1>3. CASE Rollback(r)
    BY <1>3, RollbackInv
  <1>4. CASE ~Rollback(r)
    <2>1. AssertStock(r, quantity) /\ UNCHANGED writes
      BY <1>4 DEF Plan
    <2>2. request' = [request EXCEPT ![r] = t]
      BY <1>4 DEF Plan, Inv, TypeOK
    <2>. HIDE DEF quantity, item
    <2>3. /\ t \in Work /\ t.op = request[r].op /\ t.asked = request[r].asked
          /\ t.todo = request[r].todo /\ t.stock = request[r].stock
          /\ t.step = step /\ t.line = line /\ t.quantity = quantity
      BY <1>1, <1>2 DEF Work
    <2>. HIDE DEF t
    <2>4. Aligned(t) /\ Allowed(t) /\ Fulfilled(t, writes[r])
      BY <1>1, <2>3, SMTT(30) DEF Aligned, Allowed, Fulfilled, Satisfied, Enough
    <2>5. Enough(t, quantity, item)
      BY <1>2, <2>3 DEF Enough
    <2>6. writes[r][line] \in Line /\ step # "insert" => View(r)[line] = writes[r][line]
      BY Markers DEF View
    <2>7. step \in {"insert", "update"} => quantity > 0
      BY <1>2, Markers DEF quantity
    <2>8. step = "delete" => t.op = "merge" /\ t.stock[item.product] = 0
      BY <1>2, <2>3 DEF quantity
    <2>9. step # "insert" => /\ line \in LineIds /\ Over(writes[r])[line] # Unborn
                             /\ Over(writes[r])[line].product = item.product
      BY <1>1, Markers DEF item
    <2>10. step = "update" /\ t.op = "merge" /\ writes[r][line] \in Line =>
             quantity >= writes[r][line].quantity \/ quantity >= t.stock[item.product]
      BY <1>2, <2>3, <2>6
    <2>11. Planned(t, writes[r])
      BY <1>2, <2>1, <2>3, <2>5, <2>7, <2>8, <2>9, <2>10 DEF Planned, item
    <2>12. Sound(t, writes[r]) /\ t \in Request
      BY <2>3, <2>4, <2>11 DEF Sound, Work, Request
    <2>. QED
      BY <2>1, <2>2, <2>12, ReadInv
  <1>. QED
    BY <1>3, <1>4


\* The first item is done, and satisfied
LEMMA NextItemSound ==
  ASSUME Inv, NEW r \in Requests, Writing(r), request[r].todo # << >>, NEW w \in Written,
         \A i \in 1..(Len(request[r].asked) - Len(request[r].todo)) :
           Satisfied(request[r], w, request[r].asked[i]),
         Satisfied(request[r], w, Head(request[r].todo)),
         NextItem(r)
  PROVE  \E t \in Request : request' = [request EXCEPT ![r] = t] /\ Sound(t, w)
  <1>. DEFINE old == request[r]
              t == [old EXCEPT !.todo = Tail(@), !.step = "look", !.line = None, !.quantity = 0]
  <1>1. old \in Work /\ Aligned(old) /\ Allowed(old)
    BY Working
  <1>2. /\ Head(old.todo) \in Line /\ Tail(old.todo) \in Seq(Line)
        /\ Len(old.asked) \in Nat /\ Len(old.todo) \in Nat /\ Len(old.todo) > 0
        /\ Len(old.todo) <= Len(old.asked) /\ Len(Tail(old.todo)) = Len(old.todo) - 1
        /\ Head(old.todo) = old.asked[Len(old.asked) - Len(old.todo) + 1]
        /\ \A j \in DOMAIN Tail(old.todo) : Tail(old.todo)[j] = old.todo[j + 1] /\ j + 1 \in DOMAIN old.todo
    BY <1>1, NextItemAsked
  <1>3. request' = [request EXCEPT ![r] = t]
    BY DEF NextItem, Inv, TypeOK
  <1>4. /\ t \in Work /\ t.op = old.op /\ t.asked = old.asked /\ t.todo = Tail(old.todo)
        /\ t.stock = old.stock /\ t.step = "look"
    BY <1>1, <1>2 DEF Work
  <1>. HIDE DEF t
  <1>10. Len(t.asked) = Len(old.asked) /\ Len(t.todo) = Len(old.todo) - 1
    BY <1>2, <1>4
  <1>11. /\ Len(old.asked) \in Nat /\ Len(old.todo) \in Nat
         /\ Len(t.asked) \in Nat /\ Len(t.todo) \in Nat
    BY <1>2, <1>4
  <1>12. PICK n \in Nat, k \in Nat : /\ n = Len(old.asked) /\ k = Len(old.todo)
                                     /\ n = Len(t.asked) /\ k - 1 = Len(t.todo)
    BY <1>10, <1>11
  <1>5. Aligned(t)
    <2>1. ASSUME NEW i \in DOMAIN t.todo
          PROVE  t.todo[i] = t.asked[Len(t.asked) - Len(t.todo) + i]
      <3>1. t.todo[i] = old.todo[i + 1] /\ i + 1 \in DOMAIN old.todo
        BY <1>2, <1>4
      <3>2. old.todo[i + 1] = old.asked[Len(old.asked) - Len(old.todo) + (i + 1)]
        BY <1>1, <3>1 DEF Aligned
      <3>3. i \in Int
        BY <1>2, <1>4
      <3>4. n - (k - 1) + i = n - k + (i + 1)
        BY <3>3
      <3>. QED
        BY <1>4, <1>12, <3>1, <3>2, <3>4
    <2>. QED
      BY <1>1, <1>2, <1>4, <2>1 DEF Aligned
  <1>6. Fulfilled(t, w)
    <2>1. ASSUME NEW i \in 1..(Len(t.asked) - Len(t.todo))
          PROVE  Satisfied(old, w, old.asked[i])
      <3>1. i \in 1..(n - (k - 1))
        BY <1>12
      <3>2. i \in 1..(n - k) \/ i = n - k + 1
        BY <3>1
      <3>. QED
        BY <1>2, <1>12, <3>2
    <2>2. \A item : Satisfied(old, w, item) => Satisfied(t, w, item)
      BY <1>4 DEF Satisfied, Enough
    <2>. QED
      BY <1>4, <2>1, <2>2 DEF Fulfilled
  <1>7. Allowed(t) /\ Planned(t, w)
    BY <1>1, <1>4 DEF Allowed, Planned
  <1>8. Sound(t, w)
    BY <1>4, <1>5, <1>6, <1>7 DEF Sound, Work
  <1>9. t \in Request
    BY <1>4 DEF Request, Work
  <1>. QED
    BY <1>3, <1>8, <1>9

LEMMA LookInv ==
  ASSUME Inv, NEW r \in Requests, Look(r)
  PROVE  Inv'
  <1>. DEFINE item == Head(request[r].todo)
              found == LinesOf(View(r), item.product)
  <1>1. /\ Writing(r) /\ request[r].todo # << >> /\ UNCHANGED <<stock, active, lines>>
        /\ \/ found = {} /\ IF NewQuantity(r, 0) = 0
                              THEN NextItem(r) /\ UNCHANGED writes
                              ELSE Plan(r, "insert", None, NewQuantity(r, 0))
           \/ \E id \in found :
                Plan(r, IF NewQuantity(r, View(r)[id].quantity) = 0 THEN "delete" ELSE "update",
                     id, NewQuantity(r, View(r)[id].quantity))
    BY DEF Look
  <1>2. /\ request[r] \in Work /\ Aligned(request[r]) /\ Allowed(request[r])
        /\ Fulfilled(request[r], writes[r]) /\ writes[r] \in Written
        /\ View(r) \in View0
    BY <1>1, Working
  <1>3. item \in Line
    BY <1>1, <1>2, NextItemAsked
  <1>4. CASE NewQuantity(r, 0) = 0 /\ NextItem(r) /\ UNCHANGED writes
    <2>1. request[r].op = "merge" /\ request[r].stock[item.product] = 0
      BY <1>1, <1>2, <1>4, NewQuantities
    <2>2. Satisfied(request[r], writes[r], item)
      BY <2>1 DEF Satisfied
    <2>3. \E t \in Request : request' = [request EXCEPT ![r] = t] /\ Sound(t, writes[r])
      BY <1>1, <1>2, <1>4, <2>2, NextItemSound DEF Fulfilled
    <2>. QED
      BY <1>1, <1>4, <2>3, ReadInv
  <1>5. CASE NewQuantity(r, 0) # 0 /\ Plan(r, "insert", None, NewQuantity(r, 0))
    BY <1>1, <1>5, PlanInv
  <1>6. ASSUME NEW id \in found,
               Plan(r, IF NewQuantity(r, View(r)[id].quantity) = 0 THEN "delete" ELSE "update",
                    id, NewQuantity(r, View(r)[id].quantity))
        PROVE  Inv'
    <2>1. id \in LineIds /\ View(r)[id] \in Line /\ View(r)[id].product = item.product
      <3>1. id \in LineIds
        BY DEF LinesOf
      <3>. QED
        BY <1>2, <1>3, <3>1, LinesOfView DEF Line
    <2>. DEFINE current == View(r)[id].quantity
                step == IF NewQuantity(r, current) = 0 THEN "delete" ELSE "update"
    <2>2. current \in Nat /\ id # None
      BY <2>1, Markers DEF Line
    <2>3. step \in {"insert", "update", "delete"} /\ step # "insert"
          /\ (step = "delete" <=> NewQuantity(r, current) = 0)
      OBVIOUS
    <2>4. Plan(r, step, id, NewQuantity(r, current))
      BY <1>6
    <2>. HIDE DEF step
    <2>. QED
      BY <1>1, <2>1, <2>2, <2>3, <2>4, PlanInv
  <1>. QED
    BY <1>1, <1>4, <1>5, <1>6

-----------------------------------------------------------------------------
(***************************************************************************)
(* A row is written.                                                       *)
(***************************************************************************)
LEMMA WriteRow ==
  ASSUME Inv, NEW r \in Requests, NEW id \in LineIds, NEW row \in Line \union {Gone},
         \A s \in Requests \ {r} : writes[s][id] = None,
         row \in Line =>
           /\ LinesOf(View(r), row.product) \subseteq {id}
           /\ lines[id] # Gone /\ (lines[id] \in Line => lines[id].product = row.product)
           /\ row.quantity <= InitialStock[row.product]
           /\ \A s \in Requests \ {r} : \A j \in LineIds :
                writes[s][j] \in Line => writes[s][j].product # row.product
  PROVE  LET w == [writes[r] EXCEPT ![id] = row] IN
         w \in Written /\ Fits(w) /\ \A s \in Requests \ {r} : Apart(w, writes[s])
  <1>. DEFINE w == [writes[r] EXCEPT ![id] = row]
  <1>1. writes[r] \in Written /\ lines \in View0 /\ Fits(writes[r]) /\ Over(writes[r]) = View(r)
    BY DEF Inv, TypeOK, Written, View0, Over, View
  <1>2. w \in Written /\ w[id] = row /\ \A x \in LineIds \ {id} : w[x] = writes[r][x]
    BY <1>1 DEF Written
  <1>. HIDE DEF w
  <1>3. Over(w)[id] = row /\ \A x \in LineIds \ {id} : Over(w)[x] = Over(writes[r])[x]
    BY <1>2, Markers DEF Over
  <1>4. Over(w) \in View0 /\ Over(writes[r]) \in View0
    BY <1>1, <1>2, OverTyped
  <1>5. ASSUME NEW p \in Products, NEW i \in LinesOf(Over(w), p), NEW j \in LinesOf(Over(w), p)
        PROVE  i = j
    <2>1. /\ i \in LineIds /\ Over(w)[i] \in Line /\ Over(w)[i].product = p
          /\ j \in LineIds /\ Over(w)[j] \in Line /\ Over(w)[j].product = p
      <3>1. i \in LineIds /\ j \in LineIds
        BY DEF LinesOf
      <3>. QED
        BY <1>4, <3>1, LinesOfView
    <2>2. \A x \in {i, j} \ {id} : x \in LinesOf(View(r), p)
      BY <1>1, <1>3, <1>4, <2>1, LinesOfView
    <2>3. CASE i # id /\ j # id
      BY <1>1, <2>2, <2>3 DEF Fits, OneLineEach
    <2>4. CASE i = id /\ j # id
      BY <1>3, <2>1, <2>2, <2>4
    <2>5. CASE i # id /\ j = id
      BY <1>3, <2>1, <2>2, <2>5
    <2>. QED
      BY <2>3, <2>4, <2>5
  <1>6. Affordable(w)
    BY <1>1, <1>2 DEF Fits, Affordable
  <1>7. Fits(w)
    <2>1. \A x \in LineIds : w[x] \in Line =>
            lines[x] # Gone /\ (lines[x] \in Line => lines[x].product = w[x].product)
      BY <1>1, <1>2 DEF Fits
    <2>. QED
      BY <1>5, <1>6, <2>1 DEF Fits, OneLineEach
  <1>8. ASSUME NEW s \in Requests \ {r}
        PROVE  Apart(w, writes[s])
    <2>1. Apart(writes[r], writes[s])
      BY DEF Inv
    <2>. QED
      BY <1>2, <2>1 DEF Apart
  <1>. QED
    BY <1>2, <1>7, <1>8 DEF w

\* While r has a product's line in hand, nobody else writes the product
LEMMA OnlyWriter ==
  ASSUME Inv, NEW r \in Requests, NEW id \in LineIds, RowHolders(r, id) = {},
         View(r)[id] \in Line, NEW s \in Requests \ {r}, NEW j \in LineIds, writes[s][j] \in Line
  PROVE  writes[s][j].product # View(r)[id].product
  <1>. SUFFICES ASSUME writes[s][j].product = View(r)[id].product PROVE FALSE
    OBVIOUS
  <1>. DEFINE p == View(r)[id].product
  <1>1. p \in Products
    BY DEF Line
  <1>2. writes[s] \in Written /\ lines \in View0 /\ Fits(writes[s]) /\ Apart(writes[r], writes[s])
    BY DEF Inv, TypeOK, Written, View0
  <1>3. writes[s][id] = None
    BY HeldByNobodyElse
  <1>4. CASE writes[r][id] # None
    <2>1. writes[r][id] = View(r)[id]
      BY <1>4 DEF View
    <2>. QED
      BY <1>2, <2>1 DEF Apart
  <1>5. CASE writes[r][id] = None
    <2>1. lines[id] = View(r)[id]
      BY <1>5 DEF View
    <2>2. Over(writes[s])[id] = View(r)[id] /\ Over(writes[s])[j] = writes[s][j]
      BY <1>3, <2>1, Markers DEF Over
    <2>3. id \in LinesOf(Over(writes[s]), p) /\ j \in LinesOf(Over(writes[s]), p)
      BY <1>1, <1>2, <2>2, OverTyped, LinesOfView
    <2>4. id = j
      BY <1>1, <1>2, <2>3 DEF Fits, OneLineEach
    <2>. QED
      BY <1>3, <2>4, Markers
  <1>. QED
    BY <1>4, <1>5

LEMMA InsertInv ==
  ASSUME Inv, NEW r \in Requests, Insert(r)
  PROVE  Inv'
  <1>. DEFINE t == request[r]
              item == Head(t.todo)
              p == item.product
  <1>1. /\ Writing(r) /\ t.step = "insert" /\ UNCHANGED <<stock, active, lines>>
        /\ ProductHolders(r, p) = {}
    BY DEF Insert
  <1>2. /\ t \in Work /\ Aligned(t) /\ Allowed(t) /\ Planned(t, writes[r]) /\ Fulfilled(t, writes[r])
        /\ writes[r] \in Written /\ lines \in View0 /\ View(r) \in View0
    BY <1>1, Working
  <1>3. /\ t.todo # << >> /\ t.quantity > 0 /\ t.quantity <= t.stock[p] /\ t.quantity \in Nat
        /\ Enough(t, t.quantity, item)
    BY <1>1, <1>2 DEF Planned, Work
  <1>4. item \in Line /\ p \in Products
    BY <1>2, <1>3, NextItemAsked DEF Line
  <1>5. CASE Rollback(r)
    BY <1>1, <1>5, RollbackInv
  <1>6. ASSUME NEW id \in LinesOf(View(r), p), t.op # "merge",
               Plan(r, "update", id, NewQuantity(r, View(r)[id].quantity))
        PROVE  Inv'
    <2>1. id \in LineIds /\ View(r)[id] \in Line /\ View(r)[id].product = p
      <3>1. id \in LineIds
        BY DEF LinesOf
      <3>. QED
        BY <1>2, <1>4, <3>1, LinesOfView
    <2>2. View(r)[id].quantity \in Nat
      BY <2>1 DEF Line
    <2>3. NewQuantity(r, View(r)[id].quantity) # 0
      BY <1>2, <1>3, <1>6, <2>2, NewQuantities
    <2>. QED
      BY <1>1, <1>3, <1>6, <2>1, <2>2, <2>3, PlanInv
  <1>7. ASSUME LinesOf(View(r), p) = {}, NEW id \in NextKey, NextItem(r),
               writes' = [writes EXCEPT ![r][id] = [product |-> p, quantity |-> t.quantity]]
        PROVE  Inv'
    <2>. DEFINE row == [product |-> p, quantity |-> t.quantity]
                w == [writes[r] EXCEPT ![id] = row]
    <2>1. id \in LineIds /\ lines[id] = Unborn /\ \A s \in Requests : writes[s][id] = None
      BY DEF NextKey
    <2>2. row \in Line /\ row.product = p /\ row.quantity = t.quantity
      BY <1>3, <1>4 DEF Line
    <2>3. ASSUME NEW s \in Requests \ {r}, NEW j \in LineIds, writes[s][j] \in Line
          PROVE  writes[s][j].product # p
      <3>1. View(s)[j] = writes[s][j] /\ writes[s][j] # None
        BY <2>3, Markers DEF View
      <3>2. View(s) \in View0
        BY OverTyped DEF Inv, TypeOK, View0, Written, View, Over
      <3>3. writes[s][j].product = p => j \in LinesOf(View(s), p)
        BY <1>4, <2>3, <3>1, <3>2, LinesOfView
      <3>. QED
        BY <1>1, <3>1, <3>3 DEF ProductHolders
    <2>4. t.quantity <= InitialStock[p]
      <3>1. t.stock[p] \in Nat /\ InitialStock[p] \in Nat /\ t.stock[p] <= InitialStock[p]
        BY <1>2, <1>4, CartAssumption DEF Allowed, Work
      <3>. QED
        BY <1>3, <3>1
    <2>5. writes' = [writes EXCEPT ![r] = w]
      BY <1>7 DEF Inv, TypeOK
    <2>. HIDE DEF row
    <2>6. w \in Written /\ Fits(w) /\ \A s \in Requests \ {r} : Apart(w, writes[s])
      BY <1>7, <2>1, <2>2, <2>3, <2>4, Markers, WriteRow
    <2>7. w[id] = row /\ \A x \in LineIds : writes[r][x] \in Line => w[x] = writes[r][x]
      BY <1>2, <2>1, Markers DEF Written
    <2>. HIDE DEF w
    <2>8. Satisfied(t, w, item)
      BY <1>3, <2>1, <2>2, <2>7 DEF Satisfied
    <2>9. \A x : Satisfied(t, writes[r], x) => Satisfied(t, w, x)
      BY <2>7 DEF Satisfied
    <2>10. \E q \in Request : request' = [request EXCEPT ![r] = q] /\ Sound(q, w)
      BY <1>1, <1>2, <1>3, <1>7, <2>6, <2>8, <2>9, NextItemSound DEF Fulfilled
    <2>. QED
      BY <1>1, <2>5, <2>6, <2>10, StepInv
  <1>. QED
    BY <1>5, <1>6, <1>7 DEF Insert

\* Of a request for one item, none is done as long as some are to go
LEMMA MoreThanOne ==
  ASSUME NEW n \in Nat, NEW k \in Nat, k > 0, NEW i \in 1..(n - k)
  PROVE  n # 1
  OBVIOUS

LEMMA UpdateInv ==
  ASSUME Inv, NEW r \in Requests, Update(r)
  PROVE  Inv'
  <1>. DEFINE t == request[r]
              item == Head(t.todo)
              p == item.product
              id == t.line
              row == [product |-> p, quantity |-> t.quantity]
              w == [writes[r] EXCEPT ![id] = row]
  <1>1. /\ Writing(r) /\ t.step = "update" /\ UNCHANGED <<stock, active, lines>>
        /\ RowHolders(r, id) = {}
    BY DEF Update
  <1>2. /\ t \in Work /\ Aligned(t) /\ Allowed(t) /\ Planned(t, writes[r]) /\ Fulfilled(t, writes[r])
        /\ writes[r] \in Written /\ lines \in View0 /\ View(r) \in View0
        /\ Over(writes[r]) = View(r) /\ Fits(writes[r])
    BY <1>1, Working
  <1>3. /\ t.todo # << >> /\ t.quantity > 0 /\ t.quantity <= t.stock[p] /\ t.quantity \in Nat
        /\ Enough(t, t.quantity, item) /\ id \in LineIds
        /\ View(r)[id] \in Line => View(r)[id].product = p
        /\ t.op = "merge" /\ writes[r][id] \in Line =>
             t.quantity >= writes[r][id].quantity \/ t.quantity >= t.stock[p]
    BY <1>1, <1>2 DEF Planned, Work
  <1>4. item \in Line /\ p \in Products
    BY <1>2, <1>3, NextItemAsked DEF Line
  <1>5. CASE Rollback(r)
    BY <1>1, <1>5, RollbackInv
  <1>6. CASE ~Rollback(r)
    <2>1. Live(View(r)[id]) /\ NextItem(r) /\ writes' = [writes EXCEPT ![r] = w]
      BY <1>6 DEF Update, Inv, TypeOK
    <2>2. View(r)[id] \in Line /\ View(r)[id].product = p
      BY <1>2, <1>3, <2>1 DEF Live, View0
    <2>3. row \in Line /\ row.product = p /\ row.quantity = t.quantity
      BY <1>3, <1>4 DEF Line
    <2>4. LinesOf(View(r), p) \subseteq {id}
      <3>1. id \in LinesOf(View(r), p)
        BY <1>2, <1>3, <1>4, <2>2, LinesOfView
      <3>. QED
        BY <1>2, <1>4, <3>1 DEF Fits, OneLineEach
    <2>5. lines[id] # Gone /\ (lines[id] \in Line => lines[id].product = p)
      <3>1. CASE writes[r][id] = None
        BY <1>3, <2>2, <3>1, Markers DEF View
      <3>2. CASE writes[r][id] # None
        BY <1>2, <1>3, <2>2, <3>2 DEF View, Fits
      <3>. QED
        BY <3>1, <3>2
    <2>6. t.quantity <= InitialStock[p]
      <3>1. t.stock[p] \in Nat /\ InitialStock[p] \in Nat /\ t.stock[p] <= InitialStock[p]
        BY <1>2, <1>4, CartAssumption DEF Allowed, Work
      <3>. QED
        BY <1>3, <3>1
    <2>7. \A s \in Requests \ {r} : \A j \in LineIds : writes[s][j] \in Line => writes[s][j].product # p
      BY <1>1, <1>3, <2>2, OnlyWriter
    <2>8. \A s \in Requests \ {r} : writes[s][id] = None
      BY <1>1, <1>3, HeldByNobodyElse
    <2>. HIDE DEF row, id, p
    <2>9. w \in Written /\ Fits(w) /\ \A s \in Requests \ {r} : Apart(w, writes[s])
      BY <1>3, <2>3, <2>4, <2>5, <2>6, <2>7, <2>8, WriteRow
    <2>10. w[id] = row /\ \A x \in LineIds \ {id} : w[x] = writes[r][x]
      BY <1>2, <1>3 DEF Written
    <2>. HIDE DEF w
    <2>11. Satisfied(t, w, item)
      BY <1>3, <2>3, <2>10 DEF Satisfied, p
    <2>12. ASSUME NEW i \in 1..(Len(t.asked) - Len(t.todo))
           PROVE  Satisfied(t, w, t.asked[i])
      <3>1. t.op = "merge"
        <4>1. t.op \in {"add", "set"} => Len(t.asked) = 1
          BY <1>2 DEF Aligned
        <4>2. PICK n \in Nat, k \in Nat : n = Len(t.asked) /\ k = Len(t.todo) /\ k > 0
          BY <1>2, <1>3, NextItemAsked
        <4>3. i \in 1..(n - k)
          BY <4>2
        <4>4. n # 1
          BY <4>2, <4>3, MoreThanOne
        <4>. QED
          BY <1>2, <4>1, <4>2, <4>4 DEF Work
      <3>2. t.asked[i] \in Line
        <4>1. t.asked \in Seq(Line) /\ Len(t.asked) \in Nat /\ DOMAIN t.asked = 1..Len(t.asked)
          BY <1>2 DEF Work
        <4>2. Len(t.todo) \in Nat
          BY <1>2, <1>3, NextItemAsked
        <4>3. i \in 1..Len(t.asked)
          BY <4>1, <4>2
        <4>. QED
          BY <4>1, <4>3
      <3>3. Satisfied(t, writes[r], t.asked[i])
        BY <1>2 DEF Fulfilled
      <3>4. CASE t.stock[t.asked[i].product] = 0
        BY <3>1, <3>4 DEF Satisfied
      <3>5. ASSUME NEW x \in LineIds, writes[r][x] \in Line,
                   writes[r][x].product = t.asked[i].product,
                   Enough(t, writes[r][x].quantity, t.asked[i])
            PROVE  Satisfied(t, w, t.asked[i])
        <4>1. CASE x # id
          BY <2>10, <3>5, <4>1 DEF Satisfied
        <4>2. CASE x = id
          <5>1. View(r)[id] = writes[r][id]
            BY <1>3, <3>5, <4>2, Markers DEF View
          <5>2. t.asked[i].product = p
            BY <2>2, <3>5, <4>2, <5>1
          <5>3. t.quantity >= writes[r][id].quantity \/ t.quantity >= t.stock[p]
            BY <1>3, <3>1, <3>5, <4>2
          <5>4. /\ writes[r][id].quantity \in Nat /\ t.asked[i].quantity \in Nat
                /\ t.stock[p] \in Nat
            BY <1>2, <1>4, <3>2, <3>5, <4>2 DEF Line, Work
          <5>5. Enough(t, t.quantity, t.asked[i])
            <6>1. writes[r][id].quantity >= t.asked[i].quantity
                  \/ (t.op = "merge" /\ writes[r][id].quantity >= t.stock[p])
              BY <3>5, <4>2, <5>2 DEF Enough
            <6>2. t.quantity \in Nat
              BY <1>2 DEF Work
            <6>3. t.quantity >= t.asked[i].quantity \/ (t.op = "merge" /\ t.quantity >= t.stock[p])
              BY <3>1, <5>3, <5>4, <6>1, <6>2
            <6>. QED
              BY <5>2, <6>3 DEF Enough
          <5>. QED
            BY <1>3, <2>3, <2>10, <5>2, <5>5 DEF Satisfied
        <4>. QED
          BY <4>1, <4>2
      <3>. QED
        BY <3>3, <3>4, <3>5 DEF Satisfied
    <2>13. \E q \in Request : request' = [request EXCEPT ![r] = q] /\ Sound(q, w)
      BY <1>1, <1>3, <2>1, <2>9, <2>11, <2>12, NextItemSound
    <2>. QED
      BY <1>1, <2>1, <2>9, <2>13, StepInv
  <1>. QED
    BY <1>5, <1>6

LEMMA DeleteInv ==
  ASSUME Inv, NEW r \in Requests, Delete(r)
  PROVE  Inv'
  <1>. DEFINE t == request[r]
              item == Head(t.todo)
              p == item.product
              id == t.line
              row == IF Live(View(r)[id]) THEN Gone ELSE writes[r][id]
              w == [writes[r] EXCEPT ![id] = row]
  <1>1. /\ Writing(r) /\ t.step = "delete" /\ UNCHANGED <<stock, active, lines>>
        /\ RowHolders(r, id) = {} /\ NextItem(r) /\ writes' = [writes EXCEPT ![r] = w]
    BY DEF Delete, Inv, TypeOK
  <1>2. /\ t \in Work /\ Aligned(t) /\ Planned(t, writes[r]) /\ Fulfilled(t, writes[r])
        /\ writes[r] \in Written /\ View(r) \in View0 /\ Over(writes[r]) = View(r) /\ Fits(writes[r])
    BY <1>1, Working
  <1>3. /\ t.todo # << >> /\ id \in LineIds
        /\ View(r)[id] \in Line => View(r)[id].product = p
        /\ t.op = "merge" /\ t.stock[p] = 0
    BY <1>1, <1>2 DEF Planned
  <1>. HIDE DEF row, id, p
  <1>4. w \in Written /\ Fits(w) /\ \A s \in Requests \ {r} : Apart(w, writes[s])
    <2>1. CASE Live(View(r)[id])
      <3>1. row = Gone /\ \A s \in Requests \ {r} : writes[s][id] = None
        BY <1>1, <1>3, <2>1, HeldByNobodyElse DEF row
      <3>. QED
        BY <1>3, <3>1, Markers, WriteRow
    <2>2. CASE ~Live(View(r)[id])
      <3>1. w = writes[r]
        BY <1>2, <2>2 DEF row, Written
      <3>. QED
        BY <1>2, <3>1 DEF Inv
    <2>. QED
      BY <2>1, <2>2
  <1>5. \A x \in LineIds \ {id} : w[x] = writes[r][x]
    BY <1>2 DEF Written
  <1>. HIDE DEF w
  <1>6. Satisfied(t, w, item)
    BY <1>3 DEF Satisfied, p
  <1>7. ASSUME NEW i \in 1..(Len(t.asked) - Len(t.todo))
        PROVE  Satisfied(t, w, t.asked[i])
    <2>1. Satisfied(t, writes[r], t.asked[i])
      BY <1>2 DEF Fulfilled
    <2>2. ASSUME NEW x \in LineIds, writes[r][x] \in Line,
                 writes[r][x].product = t.asked[i].product,
                 Enough(t, writes[r][x].quantity, t.asked[i])
          PROVE  Satisfied(t, w, t.asked[i])
      <3>1. CASE x # id
        BY <1>5, <2>2, <3>1 DEF Satisfied
      <3>2. CASE x = id
        <4>1. View(r)[id] = writes[r][id]
          BY <1>3, <2>2, <3>2, Markers DEF View
        <4>. QED
          BY <1>3, <2>2, <3>2, <4>1 DEF Satisfied
      <3>. QED
        BY <3>1, <3>2
    <2>. QED
      BY <2>1, <2>2 DEF Satisfied
  <1>8. \E q \in Request : request' = [request EXCEPT ![r] = q] /\ Sound(q, w)
    BY <1>1, <1>3, <1>4, <1>6, <1>7, NextItemSound
  <1>. QED
    BY <1>1, <1>4, <1>8, StepInv

LEMMA DeleteRowInv ==
  ASSUME Inv, NEW r \in Requests, DeleteRow(r)
  PROVE  Inv'
  <1>1. PICK id \in request[r].targets :
          /\ RowHolders(r, id) = {}
          /\ writes' = [writes EXCEPT ![r][id] = IF Live(lines[id]) THEN Gone ELSE @]
          /\ request' = [request EXCEPT ![r].targets = @ \ {id}]
    BY DEF DeleteRow
  <1>2. request[r].op = "clear" /\ UNCHANGED <<stock, active, lines>>
    BY DEF DeleteRow
  <1>. DEFINE t == [request[r] EXCEPT !.targets = @ \ {id}]
              row == IF Live(lines[id]) THEN Gone ELSE writes[r][id]
              w == [writes[r] EXCEPT ![id] = row]
  <1>3. /\ request[r] \in [op : {"clear"}, targets : SUBSET LineIds] /\ writes[r] \in Written
        /\ Fits(writes[r])
    <2>1. request[r] \in Request /\ writes[r] \in Written /\ Fits(writes[r])
      BY DEF Inv, TypeOK, Written
    <2>. QED
      BY <1>2, <2>1, Kinds
  <1>4. id \in LineIds
    BY <1>3
  <1>5. request' = [request EXCEPT ![r] = t] /\ writes' = [writes EXCEPT ![r] = w]
    BY <1>1 DEF Inv, TypeOK
  <1>6. t \in Request /\ Sound(t, w)
    <2>1. t \in [op : {"clear"}, targets : SUBSET LineIds] /\ t.op = "clear"
      BY <1>3
    <2>. HIDE DEF t
    <2>. QED
      BY <2>1 DEF Request, Sound, Busy
  <1>7. w \in Written /\ Fits(w) /\ \A s \in Requests \ {r} : Apart(w, writes[s])
    <2>. HIDE DEF row
    <2>1. CASE Live(lines[id])
      <3>1. row = Gone /\ \A s \in Requests \ {r} : writes[s][id] = None
        BY <1>1, <1>4, <2>1, HeldByNobodyElse DEF row
      <3>. QED
        BY <1>4, <3>1, Markers, WriteRow
    <2>2. CASE ~Live(lines[id])
      <3>1. w = writes[r]
        BY <1>3, <2>2 DEF row, Written
      <3>. QED
        BY <1>3, <3>1 DEF Inv
    <2>. QED
      BY <2>1, <2>2
  <1>. QED
    BY <1>2, <1>5, <1>6, <1>7, StepInv


-----------------------------------------------------------------------------
(***************************************************************************)
(* Commits, and the steps that are no request's.                           *)
(***************************************************************************)
\* What one request has written fits still when another has committed
LEMMA FitsStill ==
  ASSUME lines \in View0, NEW w \in Written, NEW x \in Written, Fits(w), Fits(x), Apart(w, x),
         lines' = Over(w)
  PROVE  Fits(x)'
  <1>1. Over(w) \in View0 /\ Over(x) \in View0
    BY OverTyped
  <1>2. \A id \in LineIds : /\ w[id] # None => lines'[id] = w[id]
                            /\ w[id] = None => lines'[id] = lines[id]
    BY DEF Over
  <1>3. ASSUME NEW p \in Products, NEW i \in LinesOf(Over(x), p)', NEW j \in LinesOf(Over(x), p)'
        PROVE  i = j
    <2>1. /\ i \in LineIds /\ Live(Over(x)'[i]) /\ Over(x)'[i].product = p
          /\ j \in LineIds /\ Live(Over(x)'[j]) /\ Over(x)'[j].product = p
      BY DEF LinesOf, Live
    <2>2. \A id \in LineIds : Over(x)'[id] = IF x[id] # None THEN x[id] ELSE lines'[id]
      BY DEF Over
    <2>3. \A id \in LineIds : x[id] # None /\ Live(x[id]) => x[id] \in Line
      BY DEF Written, Live
    <2>4. ASSUME NEW id \in LineIds, x[id] # None, Live(x[id]), x[id].product = p
          PROVE  id \in LinesOf(Over(x), p)
      BY <2>4 DEF LinesOf, Over
    <2>5. ASSUME NEW id \in LineIds, x[id] = None, Live(lines'[id]), lines'[id].product = p
          PROVE  id \in LinesOf(Over(w), p)
      BY <2>5 DEF LinesOf
    <2>6. ASSUME NEW id \in LineIds, NEW other \in LineIds,
                 x[other] # None, Live(x[other]), x[other].product = p,
                 x[id] = None, Live(lines'[id]), lines'[id].product = p
          PROVE  id \in LinesOf(Over(x), p)
      <3>1. x[other] \in Line
        BY <2>3, <2>6
      <3>2. w[id] = None
        <4>1. w[id] \in Line => w[id].product # x[other].product
          BY <3>1 DEF Apart
        <4>2. w[id] # None => w[id] \in Line /\ w[id].product = p
          BY <1>2, <2>6 DEF Live, Written
        <4>. QED
          BY <2>6, <4>1, <4>2
      <3>3. Over(x)[id] = lines'[id]
        BY <1>2, <2>6, <3>2 DEF Over
      <3>. QED
        BY <2>6, <3>3 DEF LinesOf
    <2>7. CASE x[i] # None /\ x[j] # None
      BY <2>1, <2>2, <2>4, <2>7 DEF Fits, OneLineEach
    <2>8. CASE x[i] = None /\ x[j] = None
      BY <2>1, <2>2, <2>5, <2>8 DEF Fits, OneLineEach
    <2>9. CASE x[i] # None /\ x[j] = None
      BY <2>1, <2>2, <2>4, <2>6, <2>9 DEF Fits, OneLineEach
    <2>10. CASE x[i] = None /\ x[j] # None
      BY <2>1, <2>2, <2>4, <2>6, <2>10 DEF Fits, OneLineEach
    <2>. QED
      BY <2>7, <2>8, <2>9, <2>10
  <1>4. OneLineEach(Over(x))'
    BY <1>3 DEF OneLineEach
  <1>5. Affordable(x)'
    BY DEF Fits, Affordable
  <1>6. \A id \in LineIds : x[id] \in Line =>
          lines'[id] # Gone /\ (lines'[id] \in Line => lines'[id].product = x[id].product)
    BY <1>2, Markers DEF Fits, Apart
  <1>. QED
    BY <1>4, <1>5, <1>6 DEF Fits

\* Nor does a commit disturb what another request is about to do
LEMMA SoundStill ==
  ASSUME lines \in View0, NEW w \in Written, NEW x \in Written, Fits(w), Apart(w, x),
         lines' = Over(w), NEW t \in Request, Sound(t, x)
  PROVE  Sound(t, x)'
  <1>1. \A id \in LineIds : /\ x[id] # None => Over(x)'[id] = Over(x)[id]
                            /\ x[id] = None /\ w[id] = None => Over(x)'[id] = Over(x)[id]
                            /\ x[id] = None => Over(x)[id] = lines[id]
                            /\ x[id] = None /\ w[id] # None => Over(x)'[id] = w[id]
    BY DEF Over
  <1>2. ASSUME NEW id \in LineIds, Over(x)[id] # Unborn
        PROVE  /\ Over(x)'[id] # Unborn
               /\ Over(x)'[id] \in Line =>
                    Over(x)[id] \in Line /\ Over(x)'[id].product = Over(x)[id].product
    <2>1. CASE x[id] = None /\ w[id] # None
      <3>1. w[id] \in Line \union {Gone} /\ lines[id] \in Line \union {Unborn, Gone}
        BY <2>1 DEF View0, Written
      <3>2. w[id] \in Line => lines[id] # Gone /\ (lines[id] \in Line => lines[id].product = w[id].product)
        BY DEF Fits
      <3>3. Over(x)'[id] = w[id] /\ Over(x)[id] = lines[id]
        BY <1>1, <2>1
      <3>. QED
        BY <1>2, <3>1, <3>2, <3>3, Markers
    <2>2. CASE ~(x[id] = None /\ w[id] # None)
      BY <1>1, <1>2, <2>2
    <2>. QED
      BY <2>1, <2>2
  <1>3. Planned(t, x) => Planned(t, x)'
    BY <1>2 DEF Planned
  <1>. QED
    BY <1>3 DEF Sound, NoWrites

LEMMA CommitInv ==
  ASSUME Inv, NEW r \in Requests, Commit(r)
  PROVE  Inv'
  <1>. DEFINE w == writes[r]
  <1>1. /\ lines' = Over(w) /\ UNCHANGED <<stock, active>>
        /\ request' = [request EXCEPT ![r] = Idle] /\ writes' = [writes EXCEPT ![r] = NoWrites]
    BY DEF Commit, Rollback, View, Over
  <1>2. /\ lines \in View0 /\ writes \in [Requests -> Written] /\ request \in [Requests -> Request]
        /\ w \in Written /\ Fits(w)
    BY DEF Inv, TypeOK, View0, Written
  <1>3. lines' \in View0
    BY <1>1, <1>2, OverTyped
  <1>4. OneLineEach(lines)' /\ Affordable(lines)'
    <2>1. OneLineEach(lines)'
      BY <1>1, <1>2 DEF Fits, OneLineEach, LinesOf
    <2>2. ASSUME NEW id \in LineIds, lines'[id] \in Line
          PROVE  lines'[id].quantity <= InitialStock[lines'[id].product]
      <3>1. lines'[id] = w[id] \/ lines'[id] = lines[id]
        BY <1>1 DEF Over
      <3>2. Affordable(w) /\ Affordable(lines)
        BY <1>2 DEF Inv, Fits
      <3>. QED
        BY <2>2, <3>1, <3>2 DEF Affordable
    <2>. QED
      BY <2>1, <2>2 DEF Affordable
  <1>5. NoWrites \in Written /\ \A id \in LineIds : NoWrites[id] = None
    BY DEF NoWrites, Written
  <1>6. Idle \in Request /\ Idle.op = "idle"
    BY DEF Request, Idle
  <1>7. /\ request'[r] = Idle /\ writes'[r] = NoWrites
        /\ \A s \in Requests \ {r} : request'[s] = request[s] /\ writes'[s] = writes[s]
    BY <1>1, <1>2
  <1>8. ASSUME NEW s \in Requests
        PROVE  Fits(writes[s])' /\ Sound(request[s], writes[s])'
    <2>1. PICK x, q : x = writes'[s] /\ q = request'[s]
      OBVIOUS
    <2>2. CASE s = r
      <3>1. x = NoWrites /\ q = Idle
        BY <1>7, <2>1, <2>2
      <3>2. Over(x)' = lines'
        BY <1>3, <1>5, <3>1 DEF Over, View0
      <3>3. \A id \in LineIds : x[id] \notin Line
        BY <1>5, <3>1, Markers
      <3>4. Fits(x)'
        BY <1>4, <3>2, <3>3 DEF Fits, Affordable, OneLineEach, LinesOf
      <3>5. Sound(q, x)'
        BY <1>6, <3>1 DEF Sound, Busy, NoWrites
      <3>. QED
        BY <2>1, <3>4, <3>5
    <2>3. CASE s # r
      <3>1. /\ x \in Written /\ q \in Request /\ Fits(x) /\ Sound(q, x)
            /\ x = writes[s] /\ q = request[s]
        BY <1>2, <1>7, <2>1, <2>3 DEF Inv
      <3>2. Apart(w, x)
        BY <2>3, <3>1 DEF Inv
      <3>3. PICK v \in Written : v = w
        BY <1>2
      <3>4. Fits(x)' /\ Sound(q, x)'
        BY <1>1, <1>2, <3>1, <3>2, <3>3, FitsStill, SoundStill
      <3>. QED
        BY <2>1, <3>4
    <2>. QED
      BY <2>2, <2>3
  <1>9. ASSUME NEW u \in Requests, NEW v \in Requests, u # v
        PROVE  Apart(writes'[u], writes'[v])
    <2>1. CASE u = r \/ v = r
      BY <1>5, <1>7, <2>1, Markers DEF Apart
    <2>2. CASE u # r /\ v # r
      BY <1>7, <1>9, <2>2 DEF Inv
    <2>. QED
      BY <2>1, <2>2
  <1>10. TypeOK'
    <2>1. writes' \in [Requests -> Written] /\ request' \in [Requests -> Request]
      BY <1>1, <1>2, <1>5, <1>6
    <2>2. \A p \in Products : Cardinality(LinesOf(lines', p)) <= 1
      BY <1>4, AtMostOne DEF OneLineEach, LinesOf
    <2>3. ASSUME NEW s \in Requests, NEW id \in LineIds, writes'[s][id] # None
          PROVE  RowHolders(s, id)' = {}
      BY <1>9, <2>3 DEF RowHolders, Apart
    <2>. QED
      BY <1>1, <1>3, <2>1, <2>2, <2>3 DEF Inv, TypeOK, View0, Written, LinesOf
  <1>11. \A u, v \in Requests : u # v => Apart(writes[u], writes[v])'
    BY <1>9 DEF Apart
  <1>12. \A p \in Products : stock'[p] <= InitialStock[p]
    BY <1>1 DEF Inv
  <1>. QED
    BY <1>4, <1>8, <1>10, <1>11, <1>12 DEF Inv


\* Nothing a request has read or written depends on the product rows
LEMMA ProductsInv ==
  ASSUME Inv, UNCHANGED <<lines, writes, request>>,
         stock' \in [Products -> Nat], \A p \in Products : stock'[p] <= InitialStock[p],
         active' \subseteq Products
  PROVE  Inv'
  <1>1. ASSUME NEW s \in Requests
        PROVE  Fits(writes[s])' /\ Sound(request[s], writes[s])'
    <2>1. PICK x, q : x = writes[s] /\ q = request[s]
      OBVIOUS
    <2>2. Fits(x)' /\ Sound(q, x)'
      BY <2>1, SameLines DEF Inv
    <2>. QED
      BY <2>1, <2>2
  <1>2. \A u, v \in Requests : u # v => Apart(writes[u], writes[v])'
    BY DEF Inv, Apart
  <1>3. TypeOK'
    BY DEF Inv, TypeOK, LinesOf, RowHolders
  <1>4. OneLineEach(lines)' /\ Affordable(lines)'
    BY DEF Inv, OneLineEach, LinesOf, Affordable
  <1>. QED
    BY <1>1, <1>2, <1>3, <1>4 DEF Inv

LEMMA SaleInv ==
  ASSUME Inv, NEW p \in Changing, Sale(p)
  PROVE  Inv'
  <1>1. /\ stock \in [Products -> Nat] /\ active \subseteq Products
        /\ \A q \in Products : stock[q] <= InitialStock[q]
    BY DEF Inv, TypeOK
  <1>2. p \in Products /\ stock[p] \in Nat /\ stock[p] > 0 /\ InitialStock[p] \in Nat
    BY <1>1, CartAssumption DEF Sale
  <1>3. stock' = [stock EXCEPT ![p] = stock[p] - 1]
    BY DEF Sale
  <1>4. stock[p] - 1 \in Nat /\ stock[p] - 1 <= InitialStock[p]
    BY <1>1, <1>2
  <1>5. stock' \in [Products -> Nat] /\ \A q \in Products : stock'[q] <= InitialStock[q]
    BY <1>1, <1>2, <1>3, <1>4
  <1>. QED
    BY <1>1, <1>5, ProductsInv DEF Sale

LEMMA SwitchInv ==
  ASSUME Inv, NEW p \in Changing, Switch(p)
  PROVE  Inv'
  <1>1. active \subseteq Products /\ p \in Products
    BY CartAssumption DEF Inv, TypeOK
  <1>2. active' \subseteq Products
    BY <1>1 DEF Switch
  <1>3. stock' \in [Products -> Nat] /\ \A q \in Products : stock'[q] <= InitialStock[q]
    BY DEF Switch, Inv, TypeOK
  <1>. QED
    BY <1>2, <1>3, ProductsInv DEF Switch

-----------------------------------------------------------------------------
LEMMA InitInv ==
  Init => Inv
  <1>. SUFFICES ASSUME Init PROVE Inv
    OBVIOUS
  <1>1. lines \in View0 /\ \A p \in Products : LinesOf(lines, p) = {}
    BY DEF Init, View0, LinesOf, Live
  <1>2. OneLineEach(lines) /\ Affordable(lines)
    BY <1>1, Markers DEF Init, OneLineEach, Affordable
  <1>3. NoWrites \in Written /\ Fits(NoWrites) /\ Apart(NoWrites, NoWrites)
    BY <1>1, <1>2, NothingWritten
  <1>4. Idle \in Request /\ Sound(Idle, NoWrites)
    BY DEF Request, Idle, Sound, Busy
  <1>5. \A p \in Products : stock[p] \in Nat /\ stock[p] <= InitialStock[p]
    BY CartAssumption DEF Init
  <1>6. TypeOK
    <2>1. \A p \in Products : Cardinality(LinesOf(lines, p)) <= 1
      BY <1>1, FS_EmptySet
    <2>2. \A r \in Requests, id \in LineIds : writes[r][id] # None => RowHolders(r, id) = {}
      BY DEF Init, NoWrites
    <2>. QED
      BY <1>1, <1>3, <1>4, <2>1, <2>2, CartAssumption DEF Init, TypeOK, View0, Written
  <1>. QED
    BY <1>2, <1>3, <1>4, <1>5, <1>6 DEF Init, Inv

LEMMA StartInv ==
  ASSUME Inv, NEW r \in Requests, Start(r)
  PROVE  Inv'
  <1>1. ASSUME NEW p \in Products, RemoveItem(r, p)
        PROVE  Inv'
    BY <1>1, ClearInv DEF RemoveItem, LinesOf
  <1>2. CASE ClearCart(r)
    BY <1>2, ClearInv DEF ClearCart
  <1>. QED
    BY <1>1, <1>2, AddToCartInv, SetQuantityInv, MergeItemsInv, CheckoutCartInv DEF Start

LEMMA ContinueInv ==
  ASSUME Inv, NEW r \in Requests, Continue(r)
  PROVE  Inv'
  <1>1. CASE CheckoutClears(r)
    BY <1>1, ClearInv DEF CheckoutClears
  <1>. QED
    BY <1>1, LookInv, InsertInv, UpdateInv, DeleteInv, DeleteRowInv, CommitInv DEF Continue

LEMMA NextInv ==
  Inv /\ [Next]_vars => Inv'
  <1>. SUFFICES ASSUME Inv, [Next]_vars PROVE Inv'
    OBVIOUS
  <1>1. ASSUME NEW r \in Requests, DeadlockVictim(r) \/ Fail(r)
        PROVE  Inv'
    BY <1>1, RollbackInv DEF DeadlockVictim, Fail
  <1>2. CASE UNCHANGED vars
    <2>1. /\ stock' \in [Products -> Nat] /\ active' \subseteq Products
          /\ \A p \in Products : stock'[p] <= InitialStock[p]
      BY <1>2 DEF Inv, TypeOK, vars
    <2>. QED
      BY <1>2, <2>1, ProductsInv DEF vars
  <1>. QED
    BY <1>1, <1>2, StartInv, ContinueInv, SaleInv, SwitchInv DEF Next

LEMMA Invariant ==
  Spec => []Inv
  BY InitInv, NextInv, PTL DEF Spec


-----------------------------------------------------------------------------
(***************************************************************************)
(* What a commit does, and what no other step does.                        *)
(***************************************************************************)
LEMMA OnlyCommitsChangeLines ==
  ASSUME [Next]_vars
  PROVE  lines' = lines \/ \E r \in Requests : Commit(r)
  <1>1. ASSUME NEW r \in Requests, Start(r)
        PROVE  lines' = lines
    BY <1>1 DEF Start, AddToCart, SetQuantity, MergeItems, Begin, RemoveItem, ClearCart, Clear, CheckoutCart
  <1>2. ASSUME NEW r \in Requests, Continue(r)
        PROVE  lines' = lines \/ Commit(r)
    BY <1>2 DEF Continue, Look, Insert, Update, Delete, CheckoutClears, Clear, DeleteRow
  <1>3. ASSUME NEW r \in Requests, DeadlockVictim(r) \/ Fail(r)
        PROVE  lines' = lines
    BY <1>3 DEF DeadlockVictim, Fail
  <1>4. ASSUME NEW p \in Changing, Sale(p) \/ Switch(p)
        PROVE  lines' = lines
    BY <1>4 DEF Sale, Switch
  <1>. QED
    BY <1>1, <1>2, <1>3, <1>4 DEF Next, vars

LEMMA GoneForGood ==
  ASSUME Inv, [Next]_vars, NEW id \in LineIds, lines[id] = Gone
  PROVE  lines'[id] = Gone
  <1>1. CASE lines' = lines
    BY <1>1
  <1>2. ASSUME NEW r \in Requests, Commit(r)
        PROVE  lines'[id] = Gone
    <2>1. writes[r][id] \in Line \union {Gone, None} /\ writes[r][id] \notin Line
      BY DEF Inv, TypeOK, Fits
    <2>2. lines'[id] = IF writes[r][id] # None THEN writes[r][id] ELSE lines[id]
      BY <1>2 DEF Commit, View
    <2>. QED
      BY <2>1, <2>2
  <1>. QED
    BY <1>1, <1>2, OnlyCommitsChangeLines

\* What has been fulfilled is in the committed lines
LEMMA CommitHonours ==
  ASSUME Inv, NEW r \in Requests, Commit(r), Writing(r), NEW i \in DOMAIN request[r].asked
  PROVE  LET item == request[r].asked[i]
             available == request[r].stock[item.product]
         IN \/ request[r].op = "merge" /\ available = 0
            \/ \E id \in LinesOf(lines', item.product) :
                 \/ lines'[id].quantity >= item.quantity
                 \/ request[r].op = "merge" /\ lines'[id].quantity >= available
  <1>. DEFINE t == request[r]
              item == t.asked[i]
  <1>1. t \in Work /\ Fulfilled(t, writes[r]) /\ writes[r] \in Written
    BY Working
  <1>2. t.todo = << >> /\ lines' = View(r)
    BY <1>1 DEF Commit, Writing, Work
  <1>3. i \in 1..(Len(t.asked) - Len(t.todo))
    <2>1. t.asked \in Seq(Line) /\ Len(t.todo) = 0
      BY <1>1, <1>2 DEF Work
    <2>2. DOMAIN t.asked = 1..Len(t.asked) /\ Len(t.asked) \in Nat
      BY <2>1
    <2>. QED
      BY <2>1, <2>2
  <1>4. Satisfied(t, writes[r], item)
    BY <1>1, <1>3 DEF Fulfilled
  <1>5. ASSUME NEW id \in LineIds, writes[r][id] \in Line, writes[r][id].product = item.product,
               Enough(t, writes[r][id].quantity, item)
        PROVE  id \in LinesOf(lines', item.product) /\ Enough(t, lines'[id].quantity, item)
    <2>1. lines'[id] = writes[r][id]
      BY <1>2, <1>5, Markers DEF View
    <2>. QED
      BY <1>5, <2>1, Markers DEF LinesOf, Live
  <1>. QED
    BY <1>4, <1>5 DEF Satisfied, Enough

-----------------------------------------------------------------------------
\* The cart of a customer keeps its shape whatever requests meet on it: at
\* most one line for a product and no line written by two requests, for any
\* number of them (get_or_create and the unique constraint of CartItem)
THEOREM CartTyped ==
  Spec => []TypeOK
  BY Invariant, PTL DEF Inv

\* No line ever asks for more units than the shop has had, though stock is
\* only compared with what was read at the start of a request (_assert_stock)
THEOREM NeverBeyondStock ==
  Spec => []WithinStock
  <1>1. Inv => WithinStock
    BY DEF Inv, TypeOK, Affordable, WithinStock, Live
  <1>. QED
    BY <1>1, Invariant, PTL

\* save(update_fields=...) never brings back a line that was removed meanwhile
THEOREM NeverBroughtBack ==
  Spec => RemovedStaysRemoved
  <1>1. Inv /\ [Next]_vars => [\A id \in LineIds : lines[id] = Gone => lines'[id] = Gone]_vars
    BY GoneForGood
  <1>. QED
    BY <1>1, Invariant, PTL DEF Spec, RemovedStaysRemoved

\* Whatever else happens to its lines, a request of the cart that answers has
\* put into it what it was asked for (add_to_cart, set_quantity, merge_items)
THEOREM AnswersHonoured ==
  Spec => Honoured
  <1>. DEFINE Honours == \A r \in Requests : Commit(r) /\ Writing(r) =>
       \A i \in DOMAIN request[r].asked :
         LET item == request[r].asked[i]
             available == request[r].stock[item.product]
         IN \/ request[r].op = "merge" /\ available = 0
            \/ \E id \in LinesOf(lines', item.product) :
                 \/ lines'[id].quantity >= item.quantity
                 \/ request[r].op = "merge" /\ lines'[id].quantity >= available
  <1>1. Inv => Honours
    BY CommitHonours
  <1>. HIDE DEF Honours
  <1>2. Spec => [][Honours]_vars
    BY <1>1, Invariant, PTL DEF Spec
  <1>3. Honoured <=> [][Honours]_vars
    BY DEF Honoured, Honours
  <1>. QED
    BY <1>2, <1>3
=============================================================================
