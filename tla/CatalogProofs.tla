---------------------------- MODULE CatalogProofs ----------------------------
(***************************************************************************)
(* Proofs about Catalog, for any categories, staff and readers, and        *)
(* whatever tables they start from.                                        *)
(***************************************************************************)
EXTENDS Catalog, TLAPS

\* A row of the category table
Row == Categories \union {Null, Unborn, Gone}

\* A parent that a request writes or has read
Parent == Categories \union {Null}

LEMMA Markers ==
  /\ Null \notin Categories /\ Unborn \notin Categories /\ Gone \notin Categories
  /\ Null # Unborn /\ Null # Gone
  BY CatalogAssumption

\* A row that is there holds a parent
LEMMA ParentOfRow ==
  ASSUME NEW table \in Rows, NEW c \in Categories
  PROVE  Exists(table, c) <=> table[c] \in Parent
  BY Markers DEF Rows, Exists, Parent

LEMMA TreeTyped ==
  ASSUME NEW table \in Rows
  PROVE  Tree(table) \in Rows
  BY DEF Tree, Rows

\* What is below a category holds the category, and the children of what it
\* holds
LEMMA SubtreeClosed ==
  ASSUME NEW table, NEW c \in Categories
  PROVE  /\ Subtree(table, c) \subseteq Categories
         /\ c \in Subtree(table, c)
         /\ \A d \in Subtree(table, c) : Children(table, d) \subseteq Subtree(table, c)
  <1>1. ASSUME NEW d \in Subtree(table, c), NEW e \in Children(table, d)
        PROVE  e \in Subtree(table, c)
    <2>1. e \in Categories
      BY DEF Children
    <2>2. ASSUME NEW S \in SUBSET Categories, c \in S,
                 \A x \in S : Children(table, x) \subseteq S
          PROVE  e \in S
      <3>1. d \in S
        BY <2>2 DEF Subtree
      <3>. QED
        BY <2>2, <3>1
    <2>. QED
      BY <2>1, <2>2 DEF Subtree
  <1>2. Subtree(table, c) \subseteq Categories /\ c \in Subtree(table, c)
    BY DEF Subtree
  <1>. QED
    BY <1>1, <1>2

-----------------------------------------------------------------------------
(***************************************************************************)
(* The kind of a request tells its fields.                                 *)
(***************************************************************************)
LEMMA Kinds ==
  ASSUME NEW t \in Request
  PROVE  /\ t.op = "edit" => t.category \in Categories /\ t.parent \in Parent
         /\ t.op \in {"delete", "deleting"} => t.categories \in SUBSET Categories
         /\ t.op = "rebuild" => t.tree \in Rows
         /\ t.op = "climb" => t.at \in Categories /\ t.parent \in Parent
  <1>1. CASE t = Idle
    BY <1>1 DEF Idle
  <1>2. CASE t \in [op : {"edit"}, category : Categories, parent : Categories \union {Null}]
    BY <1>2 DEF Parent
  <1>3. CASE t \in [op : {"saved"}]
    BY <1>3
  <1>4. CASE t \in [op : {"delete", "deleting"}, categories : SUBSET Categories]
    BY <1>4
  <1>5. CASE t \in [op : {"rebuild"}, tree : Rows]
    BY <1>5
  <1>6. CASE t \in [op : {"climb"}, at : Categories, parent : Categories \union {Null}]
    BY <1>6 DEF Parent
  <1>. QED
    BY <1>1, <1>2, <1>3, <1>4, <1>5, <1>6 DEF Request

\* and its fields make a request
LEMMA Requested ==
  /\ Idle \in Request /\ [op |-> "saved"] \in Request
  /\ \A c \in Categories, parent \in Parent :
       /\ [op |-> "edit", category |-> c, parent |-> parent] \in Request
       /\ [op |-> "climb", at |-> c, parent |-> parent] \in Request
  /\ \A S \in SUBSET Categories :
       /\ [op |-> "delete", categories |-> S] \in Request
       /\ [op |-> "deleting", categories |-> S] \in Request
  /\ \A tree \in Rows : [op |-> "rebuild", tree |-> tree] \in Request
  BY DEF Request, Parent

\* The foreign key
Referenced(table) == \A c \in Categories : table[c] \in Categories => Exists(table, table[c])

\* A row is written whose parent is there, or is itself
LEMMA WriteRow ==
  ASSUME NEW table \in Rows, Referenced(table), NEW c \in Categories, NEW parent \in Parent,
         parent \in {Null, c, table[c]} \/ Exists(table, parent)
  PROVE  /\ [table EXCEPT ![c] = parent] \in Rows
         /\ Referenced([table EXCEPT ![c] = parent])
  <1>. DEFINE new == [table EXCEPT ![c] = parent]
  <1>1. new \in Rows
    BY DEF Rows, Parent
  <1>2. new[c] = parent /\ \A d \in Categories : d # c => new[d] = table[d]
    BY DEF Rows
  <1>3. Exists(new, c)
    BY <1>2, Markers DEF Exists, Parent
  <1>4. \A d \in Categories : Exists(table, d) => Exists(new, d)
    BY <1>2, <1>3 DEF Exists
  <1>. HIDE DEF new
  <1>5. ASSUME NEW d \in Categories, new[d] \in Categories
        PROVE  Exists(new, new[d])
    <2>1. CASE d # c
      BY <1>2, <1>4, <1>5, <2>1 DEF Referenced
    <2>2. CASE d = c
      BY <1>2, <1>3, <1>4, <1>5, <2>2, Markers DEF Referenced
    <2>. QED
      BY <2>1, <2>2
  <1>. QED
    BY <1>1, <1>5 DEF Referenced, new

\* Rows are deleted that no other refers to
LEMMA DeleteSet ==
  ASSUME NEW table \in Rows, Referenced(table), NEW S \in SUBSET Categories,
         \A c \in Categories \ S : table[c] \notin S
  PROVE  LET new == [c \in Categories |-> IF c \in S THEN Gone ELSE table[c]]
         IN new \in Rows /\ Referenced(new)
  <1>. DEFINE new == [c \in Categories |-> IF c \in S THEN Gone ELSE table[c]]
  <1>1. new \in Rows
    BY DEF Rows
  <1>2. \A c \in Categories : new[c] \in Categories =>
          new[c] = table[c] /\ c \notin S /\ table[c] \in Categories \ S
    BY Markers
  <1>3. \A d \in Categories \ S : Exists(table, d) => Exists(new, d)
    BY DEF Exists
  <1>. HIDE DEF new
  <1>4. Referenced(new)
    BY <1>2, <1>3 DEF Referenced
  <1>. QED
    BY <1>1, <1>4 DEF new

-----------------------------------------------------------------------------
LEMMA InitTyped == Init => TypeOK
  BY CatalogAssumption, Requested DEF Init, TypeOK

\* A request goes from one thing to the next, and the table stays
LEMMA StepTyped ==
  ASSUME TypeOK, NEW r \in Requests, NEW t \in Request, request' = [request EXCEPT ![r] = t],
         UNCHANGED rows, cache' \in Rows \union {Empty}, late' \in BOOLEAN
  PROVE  TypeOK'
  BY DEF TypeOK, Exists

LEMMA CreateTyped ==
  ASSUME TypeOK, NEW r \in Requests, NEW c \in Categories, NEW parent \in Parent,
         Create(r, c, parent)
  PROVE  TypeOK'
  <1>1. rows \in Rows /\ Referenced(rows)
    BY DEF TypeOK, Referenced
  <1>2. /\ rows' = [rows EXCEPT ![c] = parent]
        /\ parent \in {Null, c, rows[c]} \/ Exists(rows, parent)
    BY DEF Create
  <1>3. rows' \in Rows /\ Referenced(rows')
    BY <1>1, <1>2, WriteRow
  <1>4. cache' \in Rows \union {Empty} /\ request' \in [Requests -> Request] /\ late' \in BOOLEAN
    BY Requested DEF Create, TypeOK
  <1>. QED
    BY <1>3, <1>4 DEF TypeOK, Referenced, Exists

LEMMA SaveTyped ==
  ASSUME TypeOK, NEW r \in Requests, Save(r)
  PROVE  TypeOK'
  <1>1. rows \in Rows /\ Referenced(rows) /\ request[r] \in Request
    BY DEF TypeOK, Referenced
  <1>2. PICK c \in Categories, parent \in Parent : c = request[r].category /\ parent = request[r].parent
    BY <1>1, Kinds DEF Save
  <1>3. /\ rows' = [rows EXCEPT ![c] = parent]
        /\ parent \in {Null, c, rows[c]} \/ Exists(rows, parent)
    BY <1>2 DEF Save
  <1>4. rows' \in Rows /\ Referenced(rows')
    BY <1>1, <1>2, <1>3, WriteRow
  <1>5. cache' \in Rows \union {Empty} /\ request' \in [Requests -> Request] /\ late' \in BOOLEAN
    BY Requested DEF Save, TypeOK
  <1>. QED
    BY <1>4, <1>5 DEF TypeOK, Referenced, Exists

LEMMA DeleteCommitTyped ==
  ASSUME TypeOK, NEW r \in Requests, DeleteCommit(r)
  PROVE  TypeOK'
  <1>1. rows \in Rows /\ Referenced(rows) /\ request[r] \in Request
    BY DEF TypeOK, Referenced
  <1>2. PICK S \in SUBSET Categories : S = request[r].categories
    BY <1>1, Kinds DEF DeleteCommit
  <1>3. rows' \in Rows /\ Referenced(rows')
    BY <1>1, <1>2, DeleteSet DEF DeleteCommit
  <1>4. cache' \in Rows \union {Empty} /\ request' \in [Requests -> Request] /\ late' \in BOOLEAN
    BY Requested DEF DeleteCommit, TypeOK
  <1>. QED
    BY <1>3, <1>4 DEF TypeOK, Referenced, Exists

LEMMA StaffTyped ==
  ASSUME TypeOK, NEW r \in Requests, StaffStep(r)
  PROVE  TypeOK'
  <1>1. rows \in Rows /\ cache \in Rows \union {Empty} /\ request[r] \in Request /\ late \in BOOLEAN
    BY DEF TypeOK
  <1>2. ASSUME NEW c \in Categories, NEW parent \in Parent, Edit(r, c, parent)
        PROVE  TypeOK'
    BY <1>1, <1>2, StepTyped, Requested DEF Edit
  <1>3. CASE Invalidate(r)
    BY <1>1, <1>3, StepTyped, Requested DEF Invalidate
  <1>4. ASSUME NEW c \in Categories, Delete(r, c)
        PROVE  TypeOK'
    BY <1>1, <1>4, StepTyped, Requested, SubtreeClosed DEF Delete
  <1>5. CASE DeleteRows(r)
    <2>1. {c \in request[r].categories : Exists(rows, c)} \in SUBSET Categories
      BY <1>1, <1>5, Kinds DEF DeleteRows
    <2>. QED
      BY <1>1, <1>5, <2>1, StepTyped, Requested DEF DeleteRows
  <1>. QED
    BY <1>2, <1>3, <1>4, <1>5, CreateTyped, SaveTyped, DeleteCommitTyped DEF StaffStep, Parent

LEMMA ReaderTyped ==
  ASSUME TypeOK, NEW r \in Requests, ReaderStep(r)
  PROVE  TypeOK'
  <1>1. rows \in Rows /\ cache \in Rows \union {Empty} /\ request[r] \in Request /\ late \in BOOLEAN
    BY DEF TypeOK
  <1>2. CASE Rebuild(r)
    BY <1>1, <1>2, StepTyped, Requested, TreeTyped DEF Rebuild
  <1>3. CASE CacheSet(r)
    BY <1>1, <1>3, StepTyped, Requested, Kinds DEF CacheSet
  <1>4. ASSUME NEW c \in Categories, Recommend(r, c)
        PROVE  TypeOK'
    BY <1>1, <1>4, StepTyped, Requested, ParentOfRow DEF Recommend
  <1>5. CASE Climb(r)
    <2>1. PICK c \in Categories : c = request[r].parent
      BY <1>1, <1>5, Kinds DEF Climb, Parent
    <2>2. \E t \in Request : request' = [request EXCEPT ![r] = t]
      BY <1>1, <1>5, <2>1, Requested, ParentOfRow DEF Climb
    <2>. QED
      BY <1>1, <1>5, <2>2, StepTyped DEF Climb
  <1>6. CASE Respond(r)
    BY <1>1, <1>6, StepTyped, Requested DEF Respond
  <1>. QED
    BY <1>2, <1>3, <1>4, <1>5, <1>6 DEF ReaderStep

LEMMA NextTyped == TypeOK /\ [Next]_vars => TypeOK'
  <1>. SUFFICES ASSUME TypeOK, [Next]_vars PROVE TypeOK'
    OBVIOUS
  <1>1. rows \in Rows /\ cache \in Rows \union {Empty} /\ late \in BOOLEAN
    BY DEF TypeOK
  <1>2. ASSUME NEW r \in Requests, Abort(r)
        PROVE  TypeOK'
    BY <1>1, <1>2, StepTyped, Requested DEF Abort
  <1>3. CASE CacheExpires
    BY <1>3 DEF CacheExpires, TypeOK, Exists
  <1>4. CASE UNCHANGED vars
    BY <1>4 DEF vars, TypeOK, Exists
  <1>. QED
    BY <1>2, <1>3, <1>4, StaffTyped, ReaderTyped DEF Next, Requests

(***************************************************************************)
(* Whatever staff write and delete at once, no category is left with a     *)
(* parent that is gone, although a save and a deletion of its parent may   *)
(* both be on their way (Category.parent, its CASCADE), and a climb goes   *)
(* on only from a row that it has found (recommended_products).            *)
(***************************************************************************)
THEOREM CatalogTyped == Spec => []TypeOK
  BY InitTyped, NextTyped, PTL DEF Spec

-----------------------------------------------------------------------------
\* A tree that is cached and not late was not cached during a deletion
NotDuringDeletion ==
  cache # Empty /\ ~late => \A r \in Requests : request[r].op # "deleting"

StaleInv == TypeOK /\ StaleOnlyIfLate /\ NotDuringDeletion

\* Who has a signal to send still has it, and nobody begins to delete
Keep(r) ==
  /\ \A q \in Requests \ {r} : request'[q] = request[q]
  /\ request[r].op # "saved" /\ request'[r].op # "deleting"

LEMMA NothingCachedInv ==
  ASSUME cache' = Empty
  PROVE  StaleOnlyIfLate' /\ NotDuringDeletion'
  BY DEF StaleOnlyIfLate, NotDuringDeletion

LEMMA NothingWrittenInv ==
  ASSUME StaleInv, NEW r \in Requests, Keep(r), UNCHANGED <<rows, cache, late>>
  PROVE  StaleOnlyIfLate' /\ NotDuringDeletion'
  <1>1. \A q \in Requests : /\ request[q].op = "saved" => request'[q].op = "saved"
                            /\ request'[q].op = "deleting" => request[q].op = "deleting"
    BY DEF Keep
  <1>2. StaleOnlyIfLate'
    BY <1>1 DEF StaleInv, StaleOnlyIfLate
  <1>3. NotDuringDeletion'
    BY <1>1 DEF StaleInv, NotDuringDeletion
  <1>. QED
    BY <1>2, <1>3

\* A row is written and its signal is still to come
LEMMA SignalToComeInv ==
  ASSUME StaleInv, NEW r \in Requests, request' = [request EXCEPT ![r] = [op |-> "saved"]],
         UNCHANGED <<cache, late>>
  PROVE  StaleOnlyIfLate' /\ NotDuringDeletion'
  <1>1. request'[r].op = "saved" /\ \A q \in Requests \ {r} : request'[q] = request[q]
    BY DEF StaleInv, TypeOK
  <1>2. StaleOnlyIfLate'
    BY <1>1 DEF StaleOnlyIfLate
  <1>3. NotDuringDeletion'
    BY <1>1 DEF StaleInv, NotDuringDeletion
  <1>. QED
    BY <1>2, <1>3

LEMMA StaleStep ==
  ASSUME StaleInv, [Next]_vars
  PROVE  StaleOnlyIfLate' /\ NotDuringDeletion'
  <1>1. request \in [Requests -> Request]
    BY DEF StaleInv, TypeOK
  <1>2. ASSUME NEW r \in Requests, StaffStep(r)
        PROVE  StaleOnlyIfLate' /\ NotDuringDeletion'
    <2>1. ASSUME NEW c \in Categories, NEW parent \in Categories \union {Null},
                 Create(r, c, parent)
          PROVE  StaleOnlyIfLate' /\ NotDuringDeletion'
      BY <2>1, SignalToComeInv DEF Create
    <2>2. CASE Save(r)
      BY <2>2, SignalToComeInv DEF Save
    <2>3. ASSUME NEW c \in Categories, NEW parent \in Categories \union {Null},
                 Edit(r, c, parent)
          PROVE  StaleOnlyIfLate' /\ NotDuringDeletion'
      <3>1. Keep(r)
        BY <1>1, <2>3 DEF Edit, Keep, Idle
      <3>. QED
        BY <2>3, <3>1, NothingWrittenInv DEF Edit
    <2>4. ASSUME NEW c \in Categories, Delete(r, c)
          PROVE  StaleOnlyIfLate' /\ NotDuringDeletion'
      <3>1. Keep(r)
        BY <1>1, <2>4 DEF Delete, Keep, Idle
      <3>. QED
        BY <2>4, <3>1, NothingWrittenInv DEF Delete
    <2>5. CASE Invalidate(r) \/ DeleteRows(r)
      BY <2>5, NothingCachedInv DEF Invalidate, DeleteRows
    <2>6. CASE DeleteCommit(r)
      <3>1. cache = Empty \/ late
        BY <2>6 DEF DeleteCommit, StaleInv, NotDuringDeletion
      <3>2. UNCHANGED <<cache, late>>
        BY <2>6 DEF DeleteCommit
      <3>. QED
        BY <3>1, <3>2 DEF StaleOnlyIfLate, NotDuringDeletion
    <2>. QED
      BY <1>2, <2>1, <2>2, <2>3, <2>4, <2>5, <2>6 DEF StaffStep
  <1>3. ASSUME NEW r \in Requests, ReaderStep(r)
        PROVE  StaleOnlyIfLate' /\ NotDuringDeletion'
    <2>1. CASE CacheSet(r)
      <3>1. /\ cache' = request[r].tree /\ rows' = rows
            /\ late' = (request[r].tree # Tree(rows) \/ \E d \in Requests : request[d].op = "deleting")
        BY <2>1 DEF CacheSet
      <3>2. \A q \in Requests : request'[q].op = "deleting" => request[q].op = "deleting"
        BY <1>1, <2>1 DEF CacheSet, Idle
      <3>3. StaleOnlyIfLate'
        BY <3>1 DEF StaleOnlyIfLate
      <3>4. NotDuringDeletion'
        BY <3>1, <3>2 DEF NotDuringDeletion
      <3>. QED
        BY <3>3, <3>4
    <2>2. CASE ~CacheSet(r)
      <3>1. Keep(r) /\ UNCHANGED <<rows, cache, late>>
        BY <1>1, <1>3, <2>2 DEF ReaderStep, Rebuild, Recommend, Climb, Respond, Keep, Idle
      <3>. QED
        BY <3>1, NothingWrittenInv
    <2>. QED
      BY <2>1, <2>2
  <1>4. ASSUME NEW r \in Requests, Abort(r)
        PROVE  StaleOnlyIfLate' /\ NotDuringDeletion'
    <2>1. CASE request[r].op # "saved"
      <3>1. Keep(r) /\ UNCHANGED <<rows, cache>>
        BY <1>1, <1>4, <2>1 DEF Abort, Keep, Idle
      <3>2. UNCHANGED late
        BY <1>4, <2>1 DEF Abort, StaleInv, TypeOK
      <3>. QED
        BY <3>1, <3>2, NothingWrittenInv
    <2>2. CASE request[r].op = "saved"
      <3>1. cache' = cache /\ (cache # Empty => late')
        BY <1>4, <2>2 DEF Abort
      <3>. QED
        BY <3>1 DEF StaleOnlyIfLate, NotDuringDeletion
    <2>. QED
      BY <2>1, <2>2
  <1>5. CASE CacheExpires
    BY <1>5, NothingCachedInv DEF CacheExpires
  <1>6. CASE UNCHANGED vars
    BY <1>6 DEF vars, StaleInv, StaleOnlyIfLate, NotDuringDeletion
  <1>. QED
    BY <1>2, <1>3, <1>4, <1>5, <1>6 DEF Next, Requests

(***************************************************************************)
(* The cached tree is the table's, or a save's signal is on its way, but   *)
(* for the ways that late records (signals.py, get_category_tree), with    *)
(* any number of staff and readers at once.                                *)
(***************************************************************************)
THEOREM StaleTreesExplained == Spec => []StaleOnlyIfLate
  <1>1. Init => StaleInv
    BY InitTyped DEF Init, StaleInv, StaleOnlyIfLate, NotDuringDeletion
  <1>2. StaleInv /\ [Next]_vars => StaleInv'
    BY NextTyped, StaleStep DEF StaleInv
  <1>3. StaleInv => StaleOnlyIfLate
    BY DEF StaleInv
  <1>. QED
    BY <1>1, <1>2, <1>3, PTL DEF Spec
=============================================================================
