------------------------------ MODULE Startup ------------------------------
(***************************************************************************)
(* What a web container does before it serves (entrypoint.sh): seed_admin  *)
(* and then seed_products, at every boot, each row by a get_or_create that *)
(* looks, inserts and, if a constraint refuses, looks again.  Several      *)
(* containers boot at once, die and may be started again; customers        *)
(* register; staff write categories and products.  A boot begins here with *)
(* the tables migrated: the makemigrations and migrate before it change no *)
(* row of these tables, but two first boots can make each other fail in    *)
(* migrate, which is left out.                                             *)
(*                                                                         *)
(* A definition marked "Bug variant" is no part of the specification: it   *)
(* is the definition below it with a mistake, kept to show that a property *)
(* notices the mistake.                                                    *)
(***************************************************************************)
EXTENDS Accounts, Sequences, FiniteSets

CONSTANTS
  AdminAddress,             \* ADMIN_EMAIL
  Tree,                     \* CATEGORY_TREE: nodes, each with its parent's place
  Skus,                     \* the products of the staff and of PRODUCTS
  Samples,                  \* PRODUCTS: each with its category's place in Tree
  Names,                    \* names of categories
  CategoryIds,              \* bounds the rows ever inserted
  Replicas,                 \* web containers
  MaxCrashes, MaxEdits,     \* bounds
  Null, NoRow, Gone         \* SQL NULL; no such row yet, any more

\* A slug is made from a name and a parent's id, or chosen by the staff
Slug == [name : Names, parent : CategoryIds \union {Null}] \union [staff : CategoryIds]

Category == [name : Names, parent : CategoryIds \union {Null}, slug : Slug,
             writer : {"boot", "staff"}]

ASSUME StartupAssumption ==
  /\ AdminAddress \in Addresses
  /\ CategoryIds \subseteq Nat /\ Null \notin CategoryIds
  /\ Tree \in Seq([name : Names, parent : Nat])
  /\ \A i \in DOMAIN Tree : Tree[i].parent < i
  /\ Samples \in Seq([sku : Skus, category : DOMAIN Tree])
  /\ MaxCrashes \in Nat /\ MaxEdits \in Nat
  /\ NoRow # Gone /\ {NoRow, Gone} \intersect Category = {}

VARIABLES
  categories,               \* the category table
  products,                 \* the skus of the product table
  boot,                     \* how far each container has got
  crashes, edits            \* counted, for the bounds

vars == <<users, registration, categories, products, boot, crashes, edits>>

AdminEmail == [address |-> AdminAddress, spelling |-> "lower"]

There(c) == categories[c] \notin {NoRow, Gone}
NextId == {c \in CategoryIds : categories[c] = NoRow /\ \A d \in CategoryIds : d < c => categories[d] # NoRow}

-----------------------------------------------------------------------------
(***************************************************************************)
(* A boot seeds row after row: the admin, the categories with parents      *)
(* first, the products.                                                    *)
(***************************************************************************)
Rows == 1 + Len(Tree) + Len(Samples)

IsAdmin(n) == n = 1
IsCategory(n) == n - 1 \in DOMAIN Tree

Fresh(state) == [state |-> state, row |-> 1, step |-> "get", ids |-> << >>]

\* The name, parent and slug that create_tree asks for
Node(r) ==
  LET node == Tree[boot[r].row - 1]
      parent == IF node.parent = 0 THEN Null ELSE boot[r].ids[node.parent]
  IN [name |-> node.name, parent |-> parent,
      slug |-> [name |-> node.name, parent |-> parent], writer |-> "boot"]

Sample(r) == Samples[boot[r].row - 1 - Len(Tree)]

\* Bug variant: create in place of get_or_create
MatchesNever(r) == {}

\* The rows that get finds
Matches(r) ==
  IF IsAdmin(boot[r].row) THEN {AdminEmail} \intersect {e \in Email : users[e] # NoAccount}
  ELSE IF IsCategory(boot[r].row)
    THEN {c \in CategoryIds : /\ There(c)
                              /\ categories[c].name = Node(r).name
                              /\ categories[c].parent = Node(r).parent}
  ELSE products \intersect {Sample(r).sku}

Init ==
  /\ InitAccounts
  /\ categories = [c \in CategoryIds |-> NoRow]
  /\ products = {}
  /\ boot = [r \in Replicas |-> Fresh("down")]
  /\ crashes = 0 /\ edits = 0

At(r, step) == boot[r].state = "seeding" /\ boot[r].step = step

\* On to the next row, or to exec; a category's id is kept
Onward(r, ids) ==
  LET last == boot[r].row = Rows IN
  boot' = [boot EXCEPT ![r] =
            [state |-> IF last THEN "up" ELSE "seeding",
             row |-> IF last THEN Rows ELSE boot[r].row + 1, step |-> "get", ids |-> ids]]

Found(r) ==
  Onward(r, IF IsCategory(boot[r].row) THEN Append(boot[r].ids, CHOOSE c \in Matches(r) : TRUE)
            ELSE boot[r].ids)

\* An exception ends the command and, by set -e, the container
Fail(r) == boot' = [boot EXCEPT ![r] = Fresh("failed")]

Tables == <<users, registration, categories, products, crashes, edits>>

\* Somebody starts the container: docker-compose.yml has no restart policy.
\* Its migrations are done and seeding begins
Start(r) ==
  /\ boot[r].state \in {"down", "failed"}
  /\ boot' = [boot EXCEPT ![r] = Fresh("seeding")]
  /\ UNCHANGED Tables

\* Bug variant: nothing more is seeded if there are categories
GetUnlessSeeded(r) ==
  /\ At(r, "get")
  /\ IF boot[r].row = 2 /\ \E c \in CategoryIds : There(c)
       THEN boot' = [boot EXCEPT ![r].state = "up"]
     ELSE \/ Cardinality(Matches(r)) = 1 /\ Found(r)
          \/ Cardinality(Matches(r)) > 1 /\ Fail(r)
          \/ Matches(r) = {} /\ boot' = [boot EXCEPT ![r].step = "create"]
  /\ UNCHANGED Tables

\* The first look: the row is there, is there twice, or has to be inserted
Get(r) ==
  /\ At(r, "get")
  /\ \/ Cardinality(Matches(r)) = 1 /\ Found(r)
     \/ Cardinality(Matches(r)) > 1 /\ Fail(r)
     \/ Matches(r) = {} /\ boot' = [boot EXCEPT ![r].step = "create"]
  /\ UNCHANGED Tables

\* A constraint refuses the row
Refused(r) == boot' = [boot EXCEPT ![r].step = "again"] /\ UNCHANGED Tables

\* Bug variant: update_or_create
CreateAdminOrTakeOver(r) ==
  /\ At(r, "create") /\ IsAdmin(boot[r].row)
  /\ users' = [users EXCEPT ![AdminEmail] = [origin |-> "seed", password |-> FALSE]]
  /\ boot' = [boot EXCEPT ![r].step = "password"]
  /\ UNCHANGED <<registration, categories, products, crashes, edits>>

\* The admin, without a password as yet
CreateAdmin(r) ==
  /\ At(r, "create") /\ IsAdmin(boot[r].row)
  /\ \/ /\ users[AdminEmail] = NoAccount
        /\ users' = [users EXCEPT ![AdminEmail] = [origin |-> "seed", password |-> FALSE]]
        /\ boot' = [boot EXCEPT ![r].step = "password"]
        /\ UNCHANGED <<registration, categories, products, crashes, edits>>
     \/ users[AdminEmail] # NoAccount /\ Refused(r)

\* set_password and save
SetPassword(r) ==
  /\ At(r, "password")
  /\ users' = [users EXCEPT ![AdminEmail].password = TRUE]
  /\ Onward(r, boot[r].ids)
  /\ UNCHANGED <<registration, categories, products, crashes, edits>>

\* Bug variant: the slug without unique=True
AllowedDespiteSlug(c, row) ==
  /\ row.parent # Null => There(row.parent)
  /\ \A d \in CategoryIds \ {c} : There(d) /\ categories[d].parent = row.parent =>
       row.parent = Null \/ categories[d].name # row.name

\* The constraints of the category table for row c, or for a new row: the
\* parent is there, slugs differ, and so do the names below one parent; NULL
\* is equal to no parent
Allowed(c, row) ==
  /\ row.parent # Null => There(row.parent)
  /\ \A d \in CategoryIds \ {c} : There(d) =>
       /\ categories[d].slug # row.slug
       /\ categories[d].parent = row.parent => row.parent = Null \/ categories[d].name # row.name

CreateCategory(r) ==
  /\ At(r, "create") /\ IsCategory(boot[r].row)
  /\ \/ /\ Allowed(Null, Node(r))
        /\ \E c \in NextId :
             /\ categories' = [categories EXCEPT ![c] = Node(r)]
             /\ Onward(r, Append(boot[r].ids, c))
        /\ UNCHANGED <<users, registration, products, crashes, edits>>
     \/ ~Allowed(Null, Node(r)) /\ Refused(r)

CreateProduct(r) ==
  /\ At(r, "create") /\ ~IsAdmin(boot[r].row) /\ ~IsCategory(boot[r].row)
  /\ LET allowed == Sample(r).sku \notin products /\ There(boot[r].ids[Sample(r).category])
     IN \/ /\ allowed
           /\ products' = products \union {Sample(r).sku}
           /\ Onward(r, boot[r].ids)
           /\ UNCHANGED <<users, registration, categories, crashes, edits>>
        \/ ~allowed /\ Refused(r)

\* Bug variant: the refusal ends the boot
AgainNever(r) == At(r, "again") /\ Fail(r) /\ UNCHANGED Tables

\* The second look: somebody else has inserted the row, or the boot fails
Again(r) ==
  /\ At(r, "again")
  /\ \/ Cardinality(Matches(r)) = 1 /\ Found(r)
     \/ Cardinality(Matches(r)) # 1 /\ Fail(r)
  /\ UNCHANGED Tables

\* The container dies, whatever it is doing
Crash(r) ==
  /\ boot[r].state \in {"seeding", "up"}
  /\ crashes < MaxCrashes
  /\ crashes' = crashes + 1
  /\ boot' = [boot EXCEPT ![r] = Fresh("down")]
  /\ UNCHANGED <<users, registration, categories, products, edits>>

-----------------------------------------------------------------------------
(***************************************************************************)
(* Staff, through a container that is up (products/views.py).              *)
(***************************************************************************)
Edit ==
  /\ \E r \in Replicas : boot[r].state = "up"
  /\ edits < MaxEdits
  /\ edits' = edits + 1
  /\ UNCHANGED <<users, registration, boot, crashes>>

\* A category is created, renamed or moved; a slug is kept or is a new one
WriteCategory(c, row) ==
  /\ Edit
  /\ c \in NextId \/ There(c)
  /\ row.writer = "staff"
  /\ row.slug \in {[staff |-> c]} \union {categories[d].slug : d \in {d \in {c} : There(d)}}
  /\ Allowed(c, row)
  /\ categories' = [categories EXCEPT ![c] = row]
  /\ UNCHANGED products

\* Bug variant: Category.parent without on_delete=CASCADE
DeleteCategoryAlone(c) ==
  /\ Edit
  /\ There(c)
  /\ categories' = [categories EXCEPT ![c] = Gone]
  /\ UNCHANGED products

\* The category and what is below it; its products stay, without a category
DeleteCategory(c) ==
  /\ Edit
  /\ There(c)
  /\ LET below == {d \in CategoryIds : There(d) /\ \A S \in SUBSET CategoryIds :
                     /\ c \in S
                     /\ \A x \in CategoryIds : There(x) /\ categories[x].parent \in S => x \in S
                     => d \in S}
     IN categories' = [d \in CategoryIds |-> IF d \in below THEN Gone ELSE categories[d]]
  /\ UNCHANGED products

\* A product is created or deleted
WriteProducts(q) ==
  /\ Edit
  /\ products' \in {products \union {q}, products \ {q}}
  /\ UNCHANGED categories

-----------------------------------------------------------------------------
Seed(r) ==
  \/ Get(r) \/ CreateAdmin(r) \/ SetPassword(r)
  \/ CreateCategory(r) \/ CreateProduct(r) \/ Again(r)

Customers ==
  /\ \E c \in Clients : Register(c)
  /\ UNCHANGED <<categories, products, boot, crashes, edits>>

Staff ==
  \/ \E c \in CategoryIds : DeleteCategory(c) \/ \E row \in Category : WriteCategory(c, row)
  \/ \E q \in Skus : WriteProducts(q)

Next ==
  \/ \E r \in Replicas : Start(r) \/ Seed(r) \/ Crash(r)
  \/ Customers
  \/ Staff

Spec == Init /\ [][Next]_vars

(***************************************************************************)
(* Fairness: a container that boots goes on.  Nothing makes anybody start  *)
(* one that is down or has failed.                                         *)
(***************************************************************************)
FairSpec == Spec /\ \A r \in Replicas : WF_vars(Seed(r))

-----------------------------------------------------------------------------
Boot == [state : {"down", "seeding", "up", "failed"}, row : 1..Rows,
         step : {"get", "create", "again", "password"}, ids : Seq(CategoryIds)]

\* Every variable holds rows of its table's shape, and the constraints of the
\* category table hold
TypeOK ==
  /\ users \in [Email -> Account \union {NoAccount}]
  /\ registration \in [Clients -> Email \union {NoEmail}]
  /\ categories \in [CategoryIds -> Category \union {NoRow, Gone}]
  /\ \A c \in CategoryIds : There(c) => Allowed(c, categories[c])
  /\ products \subseteq Skus
  /\ boot \in [Replicas -> Boot]
  /\ \A r \in Replicas : Len(boot[r].ids) <= Len(Tree)
  /\ crashes \in 0..MaxCrashes /\ edits \in 0..MaxEdits

(***************************************************************************)
(* Seeding never changes an account that a customer has registered, not    *)
(* even the admin's address registered while a container boots.            *)
(***************************************************************************)
RegistrationsKept ==
  [][\A e \in Email : users[e] # NoAccount /\ users[e].origin = "registration" =>
       users'[e] = users[e]]_vars

(***************************************************************************)
(* However many containers boot at once, no category is seeded twice.      *)
(* There is no constraint on the names of roots: that slugs are unique     *)
(* does it.                                                                *)
(***************************************************************************)
SeededOnce ==
  \A c, d \in CategoryIds :
    /\ There(c) /\ There(d)
    /\ categories[c].writer = "boot" /\ categories[d].writer = "boot"
    /\ categories[c].name = categories[d].name /\ categories[c].parent = categories[d].parent
    => c = d

(***************************************************************************)
(* Boots do not make one another fail by seeding at the same time: a       *)
(* seeding that fails has met an edit of the staff.  (Two first boots can  *)
(* fail before, in migrate.)                                               *)
(***************************************************************************)
FailsByEditsOnly == \A r \in Replicas : boot[r].state = "failed" => edits > 0

(***************************************************************************)
(* A container that is up has its admin and all of the sample data, also   *)
(* after one that died in the middle of seeding them.                      *)
(***************************************************************************)
Seeded ==
  /\ users[AdminEmail] # NoAccount
  /\ \E ids \in [DOMAIN Tree -> CategoryIds] : \A i \in DOMAIN Tree :
       /\ There(ids[i])
       /\ categories[ids[i]].name = Tree[i].name
       /\ categories[ids[i]].parent = IF Tree[i].parent = 0 THEN Null ELSE ids[Tree[i].parent]
  /\ \A i \in DOMAIN Samples : Samples[i].sku \in products

UpIsSeeded == edits = 0 => \A r \in Replicas : boot[r].state = "up" => Seeded

(***************************************************************************)
(* A boot that has come to seeding brings its container up, unless the     *)
(* container dies or staff have edited the catalogue: what an earlier boot *)
(* has left, whole or in part, what another one does at the same time and  *)
(* what customers register never stop it and never keep it looking.        *)
(***************************************************************************)
ComesUp ==
  \A r \in Replicas :
    boot[r].state = "seeding" ~> boot[r].state \in {"up", "down"} \/ edits > 0
=============================================================================
