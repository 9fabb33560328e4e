------------------------------ MODULE Catalog ------------------------------
(***************************************************************************)
(* The category tree (apps/products): staff writes with the signal that    *)
(* drops the cached tree, readers that rebuild it, and recommendations,    *)
(* which climb to the root of a product's category one query at a time and *)
(* then traverse all that lies below.                                      *)
(*                                                                         *)
(* PostgreSQL in autocommit: a save is its own transaction, and the signal *)
(* is sent after it; a delete runs in a transaction of its own (Django's   *)
(* Collector), and its signals are sent before that commits.               *)
(*                                                                         *)
(* A definition marked "Bug variant" is no part of the specification: it   *)
(* is the definition below it with a mistake, kept to show that a property *)
(* notices the mistake.                                                    *)
(***************************************************************************)
EXTENDS Integers, FiniteSets, SequencesExt

CONSTANTS
  Categories,         \* category primary keys, in the order of their names
  InitialRows,        \* the parent column of the category table at the start
  Staff, Readers,     \* the web workers that take requests of staff and of
                      \* readers, one at a time each
  MayCrash,           \* a worker may die between a commit and its signal
  Null,               \* SQL NULL: the parent of a root
  Unborn,             \* no such row yet
  Gone,               \* no such row any more: primary keys are not reused
  Empty               \* nothing cached

\* Category.parent of every row
Rows == [Categories -> Categories \union {Null, Unborn, Gone}]

Exists(rows, c) == rows[c] \notin {Unborn, Gone}

ASSUME CatalogAssumption ==
  /\ Categories \subseteq Nat /\ IsFiniteSet(Categories)
  /\ InitialRows \in Rows
  /\ \A c \in Categories : InitialRows[c] \in Categories => Exists(InitialRows, InitialRows[c])
  /\ {Null, Unborn, Gone} \intersect Categories = {}
  /\ Null \notin {Unborn, Gone} /\ Empty \notin Rows
  /\ MayCrash \in BOOLEAN

VARIABLES
  rows,               \* the category table
  cache,              \* the cached tree, or Empty
  request,            \* what each web worker is in the middle of
  late                \* history, which no action reads: the cached tree came
                      \* too late for a write's signal, or its signal was lost

vars == <<rows, cache, request, late>>

-----------------------------------------------------------------------------
Children(table, c) == {d \in Categories : table[d] = c}

\* c and everything below it: the least set that holds c and the children of
\* its members
Subtree(table, c) ==
  {d \in Categories : \A S \in SUBSET Categories :
     c \in S /\ (\A e \in S : Children(table, e) \subseteq S) => d \in S}

Requests == Staff \union Readers

\* A set of ids by name, and from last to first
ByName(ids) == CHOOSE s \in SetToSeqs(ids) : \A i, j \in DOMAIN s : i < j => s[i] < s[j]
LastFirst(ids) == CHOOSE s \in SetToSeqs(ids) : \A i, j \in DOMAIN s : i < j => s[i] > s[j]

\* The loop of descendant_category_ids: its stack, and the ids in order, which
\* are also those seen
Loop == [stack : Seq(Categories), ordered : Seq(Categories)]

\* Bug variant: the children pushed in their own order
TurnReversed(edges, at) ==
  LET current == Last(at.stack)
      unseen == Children(edges, current) \ (Range(at.ordered) \union {current})
  IN IF current \in Range(at.ordered) THEN [at EXCEPT !.stack = Front(@)]
     ELSE [stack |-> Front(at.stack) \o ByName(unseen), ordered |-> Append(at.ordered, current)]

\* Bug variant: a post-order
TurnPostOrder(edges, at) ==
  LET current == Last(at.stack)
      unseen == Children(edges, current) \ (Range(at.ordered) \union {current})
  IN IF current \in Range(at.ordered) THEN [at EXCEPT !.stack = Front(@)]
     ELSE [stack |-> Front(at.stack) \o ByName(unseen), ordered |-> <<current>> \o at.ordered]

\* Bug variant: only the children that are pushed are looked up in what was seen
TurnTwice(edges, at) ==
  LET current == Last(at.stack)
      unseen == Children(edges, current) \ Range(at.ordered)
  IN [stack |-> Front(at.stack) \o LastFirst(unseen), ordered |-> Append(at.ordered, current)]

\* One turn: a category is popped and, unless it was seen, appended, and those
\* of its children that were not seen are pushed, the first by name on top
Turn(edges, at) ==
  LET current == Last(at.stack)
      unseen == Children(edges, current) \ (Range(at.ordered) \union {current})
  IN IF current \in Range(at.ordered) THEN [at EXCEPT !.stack = Front(@)]
     ELSE [stack |-> Front(at.stack) \o LastFirst(unseen), ordered |-> Append(at.ordered, current)]

\* descendant_category_ids
DescendantIds(edges, root) ==
  LET traverse[at \in Loop] ==
        IF at.stack = << >> THEN at.ordered ELSE traverse[Turn(edges, at)]
  IN traverse[[stack |-> <<root>>, ordered |-> << >>]]

\* _build_tree_from_db: what hangs from the roots, as the parent column of the
\* categories in it
Tree(table) ==
  LET placed == UNION {Subtree(table, c) : c \in Children(table, Null)} IN
  [c \in Categories |-> IF c \in placed THEN table[c] ELSE Gone]

Acyclic(table) ==
  \A c \in Categories : Exists(table, c) => Tree(table)[c] = table[c]

Idle == [op |-> "idle"]

Request ==
  {Idle}
  \union [op : {"edit"}, category : Categories, parent : Categories \union {Null}]
  \union [op : {"saved"}]
  \union [op : {"delete", "deleting"}, categories : SUBSET Categories]
  \union [op : {"rebuild"}, tree : Rows]
  \union [op : {"climb"}, at : Categories, parent : Categories \union {Null}]

\* Rows deleted by a transaction that has not committed
Locked(c) == \E r \in Requests : request[r].op = "deleting" /\ c \in request[r].categories

Init ==
  /\ rows = InitialRows
  /\ cache = Empty
  /\ request = [r \in Requests |-> Idle]
  /\ late = FALSE

-----------------------------------------------------------------------------
\* POST /categories
Create(r, c, parent) ==
  /\ request[r] = Idle
  /\ rows[c] = Unborn
  /\ parent # Null => Exists(rows, parent) /\ ~Locked(parent)
  /\ rows' = [rows EXCEPT ![c] = parent]
  /\ request' = [request EXCEPT ![r] = [op |-> "saved"]]
  /\ UNCHANGED <<cache, late>>

\* PUT or PATCH /categories/{id}: the row is read and the request validated;
\* any category will do as the parent.  A PATCH of something else keeps the
\* parent it has read
Edit(r, c, parent) ==
  /\ request[r] = Idle
  /\ Exists(rows, c)
  /\ parent # Null => Exists(rows, parent)
  /\ request' = [request EXCEPT ![r] = [op |-> "edit", category |-> c, parent |-> parent]]
  /\ UNCHANGED <<rows, cache, late>>

\* The whole row is written once nobody is deleting it or its parent; a row
\* that is gone is inserted again
Save(r) ==
  /\ request[r].op = "edit"
  /\ LET c == request[r].category
         parent == request[r].parent
     IN /\ ~Locked(c)
        /\ parent \notin {Null, c, rows[c]} => Exists(rows, parent) /\ ~Locked(parent)
        /\ rows' = [rows EXCEPT ![c] = parent]
  /\ request' = [request EXCEPT ![r] = [op |-> "saved"]]
  /\ UNCHANGED <<cache, late>>

\* Bug variant: post_save is not connected
InvalidateNot(r) ==
  /\ request[r].op = "saved"
  /\ request' = [request EXCEPT ![r] = Idle]
  /\ UNCHANGED <<rows, cache, late>>

\* The post_save signal
Invalidate(r) ==
  /\ request[r].op = "saved"
  /\ cache' = Empty /\ late' = FALSE
  /\ request' = [request EXCEPT ![r] = Idle]
  /\ UNCHANGED rows

\* DELETE /categories/{id}: the cascade is collected
Delete(r, c) ==
  /\ request[r] = Idle
  /\ Exists(rows, c)
  /\ request' = [request EXCEPT ![r] = [op |-> "delete", categories |-> Subtree(rows, c)]]
  /\ UNCHANGED <<rows, cache, late>>

\* Bug variant: post_delete is not connected
DeleteRowsSilent(r) ==
  /\ request[r].op = "delete"
  /\ \A c \in request[r].categories : ~Locked(c)
  /\ request' = [request EXCEPT ![r] =
                   [op |-> "deleting",
                    categories |-> {c \in request[r].categories : Exists(rows, c)}]]
  /\ UNCHANGED <<rows, cache, late>>

\* What was collected is deleted in a transaction, with the post_delete signals
DeleteRows(r) ==
  /\ request[r].op = "delete"
  /\ \A c \in request[r].categories : ~Locked(c)
  /\ request' = [request EXCEPT ![r] =
                   [op |-> "deleting",
                    categories |-> {c \in request[r].categories : Exists(rows, c)}]]
  /\ cache' = Empty /\ late' = FALSE
  /\ UNCHANGED rows

\* The commit checks that nothing refers to what is deleted
DeleteCommit(r) ==
  /\ request[r].op = "deleting"
  /\ \A c \in Categories \ request[r].categories : rows[c] \notin request[r].categories
  /\ rows' = [c \in Categories |-> IF c \in request[r].categories THEN Gone ELSE rows[c]]
  /\ request' = [request EXCEPT ![r] = Idle]
  /\ UNCHANGED <<cache, late>>

\* A request fails: a constraint, the cache server or the database refuses
Abort(r) ==
  /\ request[r] # Idle
  /\ request[r].op = "saved" => MayCrash
  /\ request' = [request EXCEPT ![r] = Idle]
  /\ late' = (late \/ (request[r].op = "saved" /\ cache # Empty))
  /\ UNCHANGED <<rows, cache>>

-----------------------------------------------------------------------------
\* GET /categories/tree finds nothing cached and reads the table
Rebuild(r) ==
  /\ request[r] = Idle
  /\ cache = Empty
  /\ request' = [request EXCEPT ![r] = [op |-> "rebuild", tree |-> Tree(rows)]]
  /\ UNCHANGED <<rows, cache, late>>

\* It is cached, whatever was written meanwhile, and while the signals of a
\* deletion may have been sent and its commit is still to come
CacheSet(r) ==
  /\ request[r].op = "rebuild"
  /\ cache' = request[r].tree
  /\ late' = (request[r].tree # Tree(rows) \/ \E d \in Requests : request[d].op = "deleting")
  /\ request' = [request EXCEPT ![r] = Idle]
  /\ UNCHANGED rows

\* The entry's time to live is over
CacheExpires ==
  /\ cache # Empty
  /\ cache' = Empty /\ late' = FALSE
  /\ UNCHANGED <<rows, request>>

-----------------------------------------------------------------------------
\* GET /products/{id}/recommendations: the product's category is fetched
Recommend(r, c) ==
  /\ request[r] = Idle
  /\ Exists(rows, c)
  /\ request' = [request EXCEPT ![r] = [op |-> "climb", at |-> c, parent |-> rows[c]]]
  /\ UNCHANGED <<rows, cache, late>>

\* Bug variant: a category whose parent is gone taken for a fetched one
ClimbUnchecked(r) ==
  /\ request[r].op = "climb"
  /\ request[r].parent # Null
  /\ request' = [request EXCEPT ![r] =
                   [op |-> "climb", at |-> request[r].parent, parent |-> rows[request[r].parent]]]
  /\ UNCHANGED <<rows, cache, late>>

\* Bug variant: the loop fetches the parent of the category it started from
ClimbStuck(r) ==
  /\ request[r].op = "climb"
  /\ request[r].parent # Null
  /\ request' = [request EXCEPT ![r] =
                   IF Exists(rows, request[r].parent)
                     THEN [op |-> "climb", at |-> request[r].at,
                           parent |-> request[r].parent]
                     ELSE Idle]
  /\ UNCHANGED <<rows, cache, late>>

\* One turn of the loop to the root, a query each; the parent may be gone
Climb(r) ==
  /\ request[r].op = "climb"
  /\ request[r].parent # Null
  /\ request' = [request EXCEPT ![r] =
                   IF Exists(rows, request[r].parent)
                     THEN [op |-> "climb", at |-> request[r].parent,
                           parent |-> rows[request[r].parent]]
                     ELSE Idle]
  /\ UNCHANGED <<rows, cache, late>>

\* At the root: descendant_category_ids is called, and the products of the
\* categories it returns are sorted in their order and returned
Respond(r) ==
  /\ request[r].op = "climb"
  /\ request[r].parent = Null
  /\ request' = [request EXCEPT ![r] = Idle]
  /\ UNCHANGED <<rows, cache, late>>

-----------------------------------------------------------------------------
StaffStep(r) ==
  \/ \E c \in Categories, parent \in Categories \union {Null} :
       Create(r, c, parent) \/ Edit(r, c, parent)
  \/ Save(r) \/ Invalidate(r)
  \/ \E c \in Categories : Delete(r, c)
  \/ DeleteRows(r) \/ DeleteCommit(r)

ReaderStep(r) ==
  \/ Rebuild(r) \/ CacheSet(r)
  \/ \E c \in Categories : Recommend(r, c)
  \/ Climb(r) \/ Respond(r)

Next ==
  \/ \E r \in Staff : StaffStep(r)
  \/ \E r \in Readers : ReaderStep(r)
  \/ \E r \in Requests : Abort(r)
  \/ CacheExpires

Spec == Init /\ [][Next]_vars

-----------------------------------------------------------------------------
\* Every variable has its shape, a request works on rows that were there, and
\* the foreign key holds: every parent is there
TypeOK ==
  /\ rows \in Rows /\ \A c \in Categories : rows[c] \in Categories => Exists(rows, rows[c])
  /\ cache \in Rows \union {Empty}
  /\ request \in [Requests -> Request]
  /\ late \in BOOLEAN

(***************************************************************************)
(* The traversal is exact: from whichever category it starts, it finds     *)
(* each category at or below it once and no other, whatever graph the      *)
(* parent column forms, cycles included.                                   *)
(***************************************************************************)
TraversalExact ==
  \A root \in Categories :
    LET ids == DescendantIds(rows, root) IN
    /\ Range(ids) = Subtree(rows, root)
    /\ IsInjective(ids)

(***************************************************************************)
(* The traversal is a pre-order, children by name, on which the ranking    *)
(* relies: a category comes before all that is below it, and of two        *)
(* children of one category the first and all below it come before the     *)
(* second.  (In a cycle the root is a child too: its own edge does not     *)
(* count.)                                                                 *)
(***************************************************************************)
PreOrder ==
  \A root \in Categories :
    LET ids   == DescendantIds(rows, root)
        edges == [rows EXCEPT ![root] = Null]
    IN \A i, j \in DOMAIN ids :
         /\ ids[j] \in Subtree(edges, ids[i]) => i <= j
         /\ \A c, d \in Categories :
              ( /\ edges[c] = edges[d] /\ edges[c] \in Range(ids) /\ c < d
                /\ ids[i] \in Subtree(edges, c) /\ ids[j] \in Subtree(edges, d) ) => i < j

(***************************************************************************)
(* Any category write invalidates the cached tree (signals.py:10), except  *)
(* in the ways that late records: what is cached is the table's tree, or a *)
(* save's signal is on its way, or the tree was read before a write and    *)
(* cached after its signal, or cached between a deletion's signals and its *)
(* commit, or the signal was lost with the worker.                         *)
(***************************************************************************)
StaleOnlyIfLate ==
  cache \notin {Empty, Tree(rows)} => late \/ \E r \in Requests : request[r].op = "saved"

\* Liveness: the climb and the traversal of a reader go on
Fairness == \A r \in Readers : WF_vars(Climb(r) \/ Respond(r))

FairSpec == Spec /\ Fairness

(***************************************************************************)
(* A recommendation is answered once staff leave the categories alone,     *)
(* unless they left a cycle: the climb to the root has no other way to     *)
(* stop.                                                                   *)
(***************************************************************************)
RecommendationEnds ==
  <>[][UNCHANGED rows]_vars /\ <>[]Acyclic(rows) =>
    \A r \in Readers : request[r].op = "climb" ~> request[r].op # "climb"
=============================================================================
