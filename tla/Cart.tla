-------------------------------- MODULE Cart --------------------------------
(***************************************************************************)
(* One customer's cart (apps/cart) under concurrent requests, statement by *)
(* statement: lines are read without a lock, by product, and written by    *)
(* primary key, and a written row is locked until its transaction ends.    *)
(* The cart row itself is there from the start.  PostgreSQL runs at READ   *)
(* COMMITTED, and ends a deadlock by rolling one transaction back.         *)
(*                                                                         *)
(* A definition marked "Bug variant" is no part of the specification: it   *)
(* is the definition below it with a mistake, kept to show that a property *)
(* notices the mistake.                                                    *)
(***************************************************************************)
EXTENDS Integers, SequencesExt

CONSTANTS
  Products,
  LineIds,            \* a bound on the cart lines ever inserted
  Requests,           \* web workers: one request at a time each
  InitialStock,
  Items,              \* what clients add and set: products with a quantity
  GuestCarts,         \* what they merge: sequences of products with a quantity
  Changing,           \* products that are sold or switched meanwhile
  None,               \* no row
  Unborn,             \* no such row yet
  Gone                \* no such row any more

Line == [product : Products, quantity : Nat \ {0}]

ASSUME CartAssumption ==
  /\ LineIds \subseteq Nat
  /\ Items \subseteq Line /\ GuestCarts \subseteq Seq(Line)
  /\ Changing \subseteq Products
  /\ InitialStock \in [Products -> Nat]
  /\ None \notin LineIds \union {Unborn, Gone}
  /\ Unborn # Gone /\ {None, Unborn, Gone} \intersect Line = {}

VARIABLES
  stock, active,      \* the product rows: units left, and which are active
  lines,              \* the committed cart lines
  writes,             \* what each request has written and not committed
  request             \* what each request is in the middle of

vars == <<stock, active, lines, writes, request>>

-----------------------------------------------------------------------------
Live(row) == row \notin {Unborn, Gone}

\* The lines as r sees them: what is committed and what it has written
View(r) == [id \in LineIds |-> IF writes[r][id] # None THEN writes[r][id] ELSE lines[id]]

\* The lines of a product: the cart has at most one
LinesOf(view, p) == {id \in LineIds : Live(view[id]) /\ view[id].product = p}

NoWrites == [id \in LineIds |-> None]

\* Another request has written the row, or a row of the product
RowHolders(r, id) == {s \in Requests \ {r} : writes[s][id] # None}

ProductHolders(r, p) ==
  {s \in Requests \ {r} : \E id \in LineIds :
     writes[s][id] # None /\ id \in LinesOf(lines, p) \union LinesOf(View(s), p)}

Idle == [op |-> "idle"]

\* add_to_cart, set_quantity and merge_items: the items to go, and the line
\* that was read for the first of them with the quantity to write
Request ==
  {Idle}
  \union [op : {"add", "set", "merge"}, asked : Seq(Line), todo : Seq(Line),
          stock : [Products -> Nat], step : {"look", "insert", "update", "delete"},
          line : LineIds \union {None}, quantity : Nat]
  \union [op : {"checkout"}]
  \union [op : {"clear"}, targets : SUBSET LineIds]

Writing(r) == request[r].op \in {"add", "set", "merge"}

Init ==
  /\ stock = InitialStock
  /\ active = Products
  /\ lines = [id \in LineIds |-> Unborn]
  /\ writes = [r \in Requests |-> NoWrites]
  /\ request = [r \in Requests |-> Idle]

-----------------------------------------------------------------------------
Begin(r, op, items) ==
  /\ request[r] = Idle
  /\ request' = [request EXCEPT ![r] =
                   [op |-> op, asked |-> items, todo |-> items, stock |-> stock,
                    step |-> "look", line |-> None, quantity |-> 0]]
  /\ UNCHANGED <<stock, active, lines, writes>>

\* POST /cart/items: add_to_cart reads the product
AddToCart(r, item) ==
  /\ item.product \in active
  /\ Begin(r, "add", <<item>>)

\* PATCH /cart/items/{product_id} with a quantity
SetQuantity(r, item) ==
  /\ item.product \in active
  /\ item.quantity <= stock[item.product]
  /\ Begin(r, "set", <<item>>)

\* The items of a guest cart whose product is active, in their order
ActiveItems(items) ==
  LET places == {i \in DOMAIN items : items[i].product \in active}
      inOrder == {ids \in SetToSeqs(places) : \A i, j \in DOMAIN ids : i < j => ids[i] < ids[j]}
  IN {[i \in DOMAIN ids |-> items[ids[i]]] : ids \in inOrder}

\* POST /cart/merge: the active products of the guest cart are read
MergeItems(r, items) == \E kept \in ActiveItems(items) : Begin(r, "merge", kept)

Rollback(r) ==
  /\ writes' = [writes EXCEPT ![r] = NoWrites]
  /\ request' = [request EXCEPT ![r] = Idle]

\* The first item is done
NextItem(r) ==
  request' = [request EXCEPT ![r].todo = Tail(@), ![r].step = "look",
                             ![r].line = None, ![r].quantity = 0]

\* The quantity a line is to have: merge_items clamps it
NewQuantity(r, current) ==
  LET item == Head(request[r].todo)
      available == request[r].stock[item.product]
      sum == current + item.quantity
  IN CASE request[r].op = "add" -> sum
       [] request[r].op = "set" -> item.quantity
       [] OTHER -> IF sum <= available THEN sum ELSE available

\* Bug variant: only what is added is compared with the stock
AssertStockOfItem(r, quantity) ==
  request[r].op = "add" =>
    Head(request[r].todo).quantity <= request[r].stock[Head(request[r].todo).product]

\* _assert_stock, against the stock read at the start
AssertStock(r, quantity) ==
  request[r].op = "add" => quantity <= request[r].stock[Head(request[r].todo).product]

\* The line is found: what it held decides what will be written
Plan(r, step, line, quantity) ==
  IF AssertStock(r, quantity)
    THEN /\ request' = [request EXCEPT ![r].step = step, ![r].line = line, ![r].quantity = quantity]
         /\ UNCHANGED writes
    ELSE Rollback(r)

\* Bug variant: a merged line is written though nothing is left of it
LookUnskipped(r) ==
  /\ Writing(r) /\ request[r].todo # << >> /\ request[r].step = "look"
  /\ LET found == LinesOf(View(r), Head(request[r].todo).product) IN
     \/ found = {} /\ Plan(r, "insert", None, NewQuantity(r, 0))
     \/ \E id \in found : Plan(r, "update", id, NewQuantity(r, View(r)[id].quantity))
  /\ UNCHANGED <<stock, active, lines>>

\* The line of the next item is read, without a lock
Look(r) ==
  /\ Writing(r) /\ request[r].todo # << >> /\ request[r].step = "look"
  /\ LET found == LinesOf(View(r), Head(request[r].todo).product) IN
     \/ /\ found = {}
        /\ IF NewQuantity(r, 0) = 0
             THEN NextItem(r) /\ UNCHANGED writes
             ELSE Plan(r, "insert", None, NewQuantity(r, 0))
     \/ \E id \in found :
          LET quantity == NewQuantity(r, View(r)[id].quantity) IN
          Plan(r, IF quantity = 0 THEN "delete" ELSE "update", id, quantity)
  /\ UNCHANGED <<stock, active, lines>>

\* The next primary key
NextKey ==
  LET unused == {id \in LineIds : lines[id] = Unborn /\ \A s \in Requests : writes[s][id] = None}
  IN {id \in unused : \A other \in unused : id <= other}

\* A new line, once nobody else has the product's line in hand.  If somebody
\* has inserted one meanwhile, the unique constraint refuses: get_or_create
\* then gets that line, and merge_items fails.  Where the bound on the keys is
\* reached the request fails too
Insert(r) ==
  /\ Writing(r) /\ request[r].step = "insert"
  /\ LET p == Head(request[r].todo).product IN
     /\ ProductHolders(r, p) = {}
     /\ \/ \E id \in LinesOf(View(r), p) :
             IF request[r].op = "merge" THEN Rollback(r)
             ELSE Plan(r, "update", id, NewQuantity(r, View(r)[id].quantity))
        \/ /\ LinesOf(View(r), p) = {}
           /\ IF NextKey = {} THEN Rollback(r)
              ELSE /\ \E id \in NextKey :
                        writes' = [writes EXCEPT ![r][id] =
                                     [product |-> p, quantity |-> request[r].quantity]]
                   /\ NextItem(r)
  /\ UNCHANGED <<stock, active, lines>>

\* Bug variant: an update that meets no row is taken for done
UpdateLost(r) ==
  /\ Writing(r) /\ request[r].step = "update"
  /\ LET id == request[r].line IN
     /\ RowHolders(r, id) = {}
     /\ writes' = IF Live(View(r)[id])
                    THEN [writes EXCEPT ![r][id] =
                            [product |-> Head(request[r].todo).product,
                             quantity |-> request[r].quantity]]
                    ELSE writes
     /\ NextItem(r)
  /\ UNCHANGED <<stock, active, lines>>

\* Bug variant: save() without update_fields inserts the row that is gone
UpdateReinserts(r) ==
  /\ Writing(r) /\ request[r].step = "update"
  /\ RowHolders(r, request[r].line) = {}
  /\ writes' = [writes EXCEPT ![r][request[r].line] =
                  [product |-> Head(request[r].todo).product,
                   quantity |-> request[r].quantity]]
  /\ NextItem(r)
  /\ UNCHANGED <<stock, active, lines>>

\* save(update_fields=...) of the line that was read, by its primary key; if
\* no row is updated Django raises
Update(r) ==
  /\ Writing(r) /\ request[r].step = "update"
  /\ LET id == request[r].line IN
     /\ RowHolders(r, id) = {}
     /\ IF Live(View(r)[id])
          THEN /\ writes' = [writes EXCEPT ![r][id] =
                               [product |-> Head(request[r].todo).product,
                                quantity |-> request[r].quantity]]
               /\ NextItem(r)
          ELSE Rollback(r)
  /\ UNCHANGED <<stock, active, lines>>

\* merge_items deletes a line whose product is sold out
Delete(r) ==
  /\ Writing(r) /\ request[r].step = "delete"
  /\ RowHolders(r, request[r].line) = {}
  /\ writes' = [writes EXCEPT ![r][request[r].line] =
                  IF Live(View(r)[request[r].line]) THEN Gone ELSE @]
  /\ NextItem(r)
  /\ UNCHANGED <<stock, active, lines>>

-----------------------------------------------------------------------------
\* The rows that a DELETE statement finds
Clear(r, ids) ==
  /\ request' = [request EXCEPT ![r] = [op |-> "clear", targets |-> ids]]
  /\ UNCHANGED <<stock, active, lines, writes>>

\* remove_item, and set_quantity with 0
RemoveItem(r, p) ==
  /\ request[r] = Idle
  /\ Clear(r, LinesOf(lines, p))

\* clear_cart: DELETE /cart, and after a payment has succeeded
ClearCart(r) ==
  /\ request[r] = Idle
  /\ Clear(r, {id \in LineIds : Live(lines[id])})

\* POST /cart/checkout: the lines are read and ordered
CheckoutCart(r) ==
  /\ request[r] = Idle
  /\ \E id \in LineIds : Live(lines[id])
  /\ \A id \in LineIds : Live(lines[id]) =>
       lines[id].product \in active /\ lines[id].quantity <= stock[lines[id].product]
  /\ request' = [request EXCEPT ![r] = [op |-> "checkout"]]
  /\ UNCHANGED <<stock, active, lines, writes>>

\* and then the cart is cleared of what it holds by now
CheckoutClears(r) ==
  /\ request[r].op = "checkout"
  /\ Clear(r, {id \in LineIds : Live(lines[id])})

\* The rows are deleted one by one, each once nobody else holds it
DeleteRow(r) ==
  /\ request[r].op = "clear"
  /\ \E id \in request[r].targets :
       /\ RowHolders(r, id) = {}
       /\ writes' = [writes EXCEPT ![r][id] = IF Live(lines[id]) THEN Gone ELSE @]
       /\ request' = [request EXCEPT ![r].targets = @ \ {id}]
  /\ UNCHANGED <<stock, active, lines>>

-----------------------------------------------------------------------------
Commit(r) ==
  /\ \/ Writing(r) /\ request[r].todo = << >>
     \/ request[r].op = "clear" /\ request[r].targets = {}
  /\ lines' = View(r)
  /\ Rollback(r)
  /\ UNCHANGED <<stock, active>>

\* Whom r waits for
WaitsFor(r) ==
  IF Writing(r) /\ request[r].step \in {"update", "delete"} THEN RowHolders(r, request[r].line)
  ELSE IF Writing(r) /\ request[r].step = "insert" THEN ProductHolders(r, Head(request[r].todo).product)
  ELSE IF request[r].op = "clear" /\ \A id \in request[r].targets : RowHolders(r, id) # {}
    THEN UNION {RowHolders(r, id) : id \in request[r].targets}
  ELSE {}

\* Bug variant: nobody detects a deadlock
DeadlockVictimNever(r) == FALSE /\ UNCHANGED vars

\* PostgreSQL finds r waiting for itself, whichever of the cycle it takes
DeadlockVictim(r) ==
  /\ \A S \in SUBSET Requests :
       WaitsFor(r) \subseteq S /\ (\A s \in S : WaitsFor(s) \subseteq S) => r \in S
  /\ Rollback(r)
  /\ UNCHANGED <<stock, active, lines>>

\* The worker dies, or the database refuses
Fail(r) ==
  /\ request[r] # Idle
  /\ Rollback(r)
  /\ UNCHANGED <<stock, active, lines>>

\* Meanwhile units are sold, and staff switch products on and off
Sale(p) ==
  /\ stock[p] > 0
  /\ stock' = [stock EXCEPT ![p] = @ - 1]
  /\ UNCHANGED <<active, lines, writes, request>>

Switch(p) ==
  /\ active' = IF p \in active THEN active \ {p} ELSE active \union {p}
  /\ UNCHANGED <<stock, lines, writes, request>>

-----------------------------------------------------------------------------
Start(r) ==
  \/ \E item \in Items : AddToCart(r, item) \/ SetQuantity(r, item)
  \/ \E items \in GuestCarts : MergeItems(r, items)
  \/ \E p \in Products : RemoveItem(r, p)
  \/ ClearCart(r) \/ CheckoutCart(r)

Continue(r) ==
  \/ Look(r) \/ Insert(r) \/ Update(r) \/ Delete(r)
  \/ CheckoutClears(r) \/ DeleteRow(r) \/ Commit(r)

Next ==
  \/ \E r \in Requests : Start(r) \/ Continue(r) \/ DeadlockVictim(r) \/ Fail(r)
  \/ \E p \in Changing : Sale(p) \/ Switch(p)

Spec == Init /\ [][Next]_vars

(***************************************************************************)
(* Fairness: a worker goes on, PostgreSQL grants a lock to its waiters in  *)
(* turn, and it detects deadlocks.                                         *)
(***************************************************************************)
Fairness == \A r \in Requests : SF_vars(Continue(r)) /\ WF_vars(DeadlockVictim(r))

FairSpec == Spec /\ Fairness

-----------------------------------------------------------------------------
\* Every variable has its shape, the constraints of the table hold (at most
\* one line for a product, no empty line) and no row is written by two
TypeOK ==
  /\ stock \in [Products -> Nat] /\ active \subseteq Products
  /\ lines \in [LineIds -> Line \union {Unborn, Gone}]
  /\ writes \in [Requests -> [LineIds -> Line \union {Gone, None}]]
  /\ request \in [Requests -> Request]
  /\ \A p \in Products : Cardinality(LinesOf(lines, p)) <= 1
  /\ \A r \in Requests, id \in LineIds : writes[r][id] # None => RowHolders(r, id) = {}

(***************************************************************************)
(* What a request answers is in the cart: when add_to_cart, set_quantity   *)
(* or merge_items commits, each item it was asked for has a line of at     *)
(* least that quantity (for a merge, as far as there was stock), whatever  *)
(* others removed since it looked.                                         *)
(***************************************************************************)
Honoured ==
  [][\A r \in Requests : Commit(r) /\ Writing(r) =>
       \A i \in DOMAIN request[r].asked :
         LET item == request[r].asked[i]
             available == request[r].stock[item.product]
         IN \/ request[r].op = "merge" /\ available = 0
            \/ \E id \in LinesOf(lines', item.product) :
                 \/ lines'[id].quantity >= item.quantity
                 \/ request[r].op = "merge" /\ lines'[id].quantity >= available]_vars

\* A line that was removed is not brought back by a request that read it before
RemovedStaysRemoved ==
  [][\A id \in LineIds : lines[id] = Gone => lines'[id] = Gone]_vars

\* No line asks for more than there ever was, whichever increments met
WithinStock ==
  \A id \in LineIds : Live(lines[id]) => lines[id].quantity <= InitialStock[lines[id].product]

\* Every request is answered, though two may wait for each other's lines
RequestsEnd == \A r \in Requests : request[r] # Idle ~> request[r] = Idle
=============================================================================
