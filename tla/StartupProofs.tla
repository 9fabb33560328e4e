--------------------------- MODULE StartupProofs ---------------------------
(***************************************************************************)
(* Proofs about Startup, for any number of containers, workers, addresses, *)
(* categories and samples, and any bounds on crashes and edits.            *)
(***************************************************************************)
EXTENDS Startup, FiniteSetTheorems, TLAPS

(***************************************************************************)
(* Only lower-case emails are ever inserted, so that the constraint on     *)
(* exact emails is one on addresses.                                       *)
(***************************************************************************)
LowerOnly ==
  /\ \A e \in Email : users[e] # NoAccount => e.spelling = "lower"
  /\ \A c \in Clients : registration[c] # NoEmail => registration[c].spelling = "lower"

\* A boot sets the password of an account that a boot has created
OwnAdmin ==
  \A r \in Replicas : At(r, "password") =>
    boot[r].row = 1 /\ users[AdminEmail] # NoAccount /\ users[AdminEmail].origin = "seed"

\* A boot knows the ids of the categories before the one that it is at
Lengths ==
  \A r \in Replicas : boot[r].state = "seeding" =>
    Len(boot[r].ids) = IF boot[r].row = 1 THEN 0
                       ELSE IF boot[r].row - 2 <= Len(Tree) THEN boot[r].row - 2 ELSE Len(Tree)

\* What a boot has written, and nobody since, has the slug of its name and parent
OwnSlugs ==
  \A c \in CategoryIds : There(c) /\ categories[c].writer = "boot" =>
    categories[c].slug = [name |-> categories[c].name, parent |-> categories[c].parent]

\* The inductive invariant behind every theorem here
Inv == TypeOK /\ LowerOnly /\ OwnAdmin /\ Lengths /\ OwnSlugs

LEMMA Admin == AdminEmail \in Email /\ AdminEmail.spelling = "lower"
  BY StartupAssumption DEF AdminEmail, Email

LEMMA SequenceOf ==
  ASSUME NEW S, NEW s \in Seq(S)
  PROVE  Len(s) \in Nat /\ DOMAIN s = 1..Len(s) /\ \A i \in 1..Len(s) : s[i] \in S
  OBVIOUS

LEMMA Data ==
  /\ Len(Tree) \in Nat /\ DOMAIN Tree = 1..Len(Tree)
  /\ Len(Samples) \in Nat /\ DOMAIN Samples = 1..Len(Samples)
  /\ Rows \in Nat /\ Rows = 1 + Len(Tree) + Len(Samples)
  /\ \A i \in 1..Len(Tree) : Tree[i].name \in Names /\ Tree[i].parent \in Nat /\ Tree[i].parent < i
  /\ \A i \in 1..Len(Samples) : Samples[i].sku \in Skus
  <1>1. Tree \in Seq([name : Names, parent : Nat]) /\ Samples \in Seq([sku : Skus, category : DOMAIN Tree])
    BY StartupAssumption
  <1>2. /\ Len(Tree) \in Nat /\ DOMAIN Tree = 1..Len(Tree)
        /\ \A i \in 1..Len(Tree) : Tree[i] \in [name : Names, parent : Nat]
    BY <1>1, SequenceOf
  <1>3. /\ Len(Samples) \in Nat /\ DOMAIN Samples = 1..Len(Samples)
        /\ \A i \in 1..Len(Samples) : Samples[i] \in [sku : Skus, category : DOMAIN Tree]
    BY <1>1, SequenceOf
  <1>4. \A i \in 1..Len(Tree) : Tree[i].parent < i
    BY <1>2, StartupAssumption
  <1>5. Rows = 1 + Len(Tree) + Len(Samples)
    BY DEF Rows
  <1>. QED
    BY <1>2, <1>3, <1>4, <1>5

LEMMA InitInv == Init => Inv
  <1>. SUFFICES ASSUME Init PROVE Inv
    OBVIOUS
  <1>2. TypeOK
    BY Data, StartupAssumption DEF Init, InitAccounts, TypeOK, Fresh, Boot, There
  <1>. QED
    BY <1>2 DEF Init, InitAccounts, Inv, LowerOnly, OwnAdmin, Lengths, OwnSlugs, Fresh, At, There

\* The category that a boot is at
LEMMA NodeTyped ==
  ASSUME Inv, NEW r \in Replicas, boot[r].state = "seeding", IsCategory(boot[r].row)
  PROVE  /\ Node(r) \in Category
         /\ Node(r).writer = "boot"
         /\ Node(r).slug = [name |-> Node(r).name, parent |-> Node(r).parent]
  <1>1. /\ boot[r].row \in 1..Rows /\ boot[r].ids \in Seq(CategoryIds)
        /\ boot[r].row - 1 \in 1..Len(Tree)
    BY Data DEF Inv, TypeOK, Boot, IsCategory
  <1>2. Len(boot[r].ids) = boot[r].row - 2
    BY <1>1, Data DEF Inv, Lengths
  <1>. DEFINE n == boot[r].row - 1
              k == Tree[n].parent
              ids == boot[r].ids
  <1>3. Tree[n].name \in Names /\ k \in Nat /\ k < n
    BY <1>1, Data
  <1>4. n \in Nat /\ Len(ids) = n - 1
    BY <1>1, <1>2, Data, SMTT(30)
  <1>. HIDE DEF k, ids, n
  <1>5. k # 0 => k \in 1..Len(ids)
    BY <1>3, <1>4
  <1>6. ids \in Seq(CategoryIds)
    BY <1>1 DEF ids
  <1>7. k # 0 => ids[k] \in CategoryIds
    BY <1>5, <1>6, SequenceOf
  <1>. QED
    BY <1>3, <1>7 DEF Node, Category, Slug, k, ids, n

(***************************************************************************)
(* On to the next row, with the id of a category that was looked for.      *)
(***************************************************************************)
LEMMA OnwardBoots ==
  ASSUME Inv, NEW r \in Replicas, boot[r].state = "seeding", NEW ids \in Seq(CategoryIds),
         Len(ids) = IF IsCategory(boot[r].row) THEN Len(boot[r].ids) + 1 ELSE Len(boot[r].ids),
         Onward(r, ids)
  PROVE  /\ boot' \in [Replicas -> Boot]
         /\ \A x \in Replicas : Len(boot'[x].ids) <= Len(Tree)
         /\ Lengths'
         /\ \A x \in Replicas : At(x, "password")' => At(x, "password") /\ boot'[x] = boot[x]
  <1>2. boot[r] \in Boot /\ boot \in [Replicas -> Boot]
    BY DEF Inv, TypeOK
  <1>3. Len(boot[r].ids) = IF boot[r].row = 1 THEN 0
          ELSE IF boot[r].row - 2 <= Len(Tree) THEN boot[r].row - 2 ELSE Len(Tree)
    BY DEF Inv, Lengths
  <1>4. Len(ids) <= Len(Tree)
    BY Data, <1>2, <1>3 DEF Boot, IsCategory
  <1>5. boot[r].row # Rows => boot[r].row + 1 \in 1..Rows
    <2>1. boot[r].row \in 1..Rows
      BY <1>2 DEF Boot
    <2>2. Rows \in Nat
      BY Data
    <2>. QED
      BY <2>1, <2>2
  <1>6. boot[r].row # Rows =>
          Len(ids) = IF boot[r].row - 1 <= Len(Tree) THEN boot[r].row - 1 ELSE Len(Tree)
    BY Data, <1>2, <1>3 DEF Boot, IsCategory
  <1>. DEFINE b == [state |-> IF boot[r].row = Rows THEN "up" ELSE "seeding",
                    row |-> IF boot[r].row = Rows THEN Rows ELSE boot[r].row + 1,
                    step |-> "get", ids |-> ids]
  <1>7. b \in Boot
    BY <1>2, <1>5, Data DEF Boot
  <1>8. boot' = [boot EXCEPT ![r] = b]
    BY DEF Onward
  <1>9. b.state = "seeding" =>
          Len(b.ids) = IF b.row = 1 THEN 0 ELSE IF b.row - 2 <= Len(Tree) THEN b.row - 2 ELSE Len(Tree)
    BY <1>2, <1>6 DEF Boot
  <1>10. Len(b.ids) <= Len(Tree) /\ b.step = "get"
    BY <1>4
  <1>. HIDE DEF b
  <1>. QED
    BY <1>2, <1>7, <1>8, <1>9, <1>10 DEF Inv, TypeOK, Lengths, At

\* A step that changes one boot, to one that is not at the password
LEMMA BootOnly ==
  ASSUME Inv, NEW r \in Replicas, UNCHANGED Tables, NEW b \in Boot,
         boot' = [boot EXCEPT ![r] = b],
         Len(b.ids) <= Len(Tree),
         b.state = "seeding" =>
           /\ b.step # "password"
           /\ Len(b.ids) = IF b.row = 1 THEN 0
                           ELSE IF b.row - 2 <= Len(Tree) THEN b.row - 2 ELSE Len(Tree)
  PROVE  Inv'
  BY DEF Inv, TypeOK, LowerOnly, OwnAdmin, Lengths, OwnSlugs, Tables, There, Allowed, At

LEMMA FoundInv ==
  ASSUME Inv, NEW r \in Replicas, boot[r].state = "seeding", Cardinality(Matches(r)) = 1,
         Found(r), UNCHANGED Tables
  PROVE  Inv'
  <1>. DEFINE ids == IF IsCategory(boot[r].row)
                       THEN Append(boot[r].ids, CHOOSE c \in Matches(r) : TRUE)
                       ELSE boot[r].ids
  <1>1. boot[r] \in Boot
    BY DEF Inv, TypeOK
  <1>2. IsCategory(boot[r].row) => (CHOOSE c \in Matches(r) : TRUE) \in CategoryIds
    <2>. SUFFICES ASSUME IsCategory(boot[r].row) PROVE (CHOOSE c \in Matches(r) : TRUE) \in CategoryIds
      OBVIOUS
    <2>1. boot[r].row # 1
      BY <1>1, Data DEF IsCategory, Boot
    <2>2. Matches(r) \subseteq CategoryIds
      BY <2>1 DEF Matches, IsAdmin
    <2>3. Matches(r) # {}
      BY FS_EmptySet
    <2>. QED
      BY <2>2, <2>3
  <1>3. /\ ids \in Seq(CategoryIds)
        /\ Len(ids) = IF IsCategory(boot[r].row) THEN Len(boot[r].ids) + 1 ELSE Len(boot[r].ids)
    BY <1>1, <1>2 DEF Boot
  <1>4. Onward(r, ids)
    BY DEF Found
  <1>5. /\ boot' \in [Replicas -> Boot]
        /\ \A x \in Replicas : Len(boot'[x].ids) <= Len(Tree)
        /\ Lengths'
        /\ \A x \in Replicas : At(x, "password")' => At(x, "password") /\ boot'[x] = boot[x]
    BY <1>3, <1>4, OnwardBoots
  <1>. QED
    BY <1>5 DEF Inv, TypeOK, LowerOnly, OwnAdmin, OwnSlugs, Tables, There, Allowed

-----------------------------------------------------------------------------
LEMMA FreshBoot ==
  ASSUME NEW state \in {"down", "seeding", "failed"}
  PROVE  /\ Fresh(state) \in Boot /\ Len(Fresh(state).ids) = 0 /\ Fresh(state).row = 1
         /\ Fresh(state).state = state /\ Fresh(state).step = "get"
  BY Data DEF Fresh, Boot

LEMMA StartInv ==
  ASSUME Inv, NEW r \in Replicas, Start(r)
  PROVE  Inv'
  <1>. DEFINE b == Fresh("seeding")
  <1>1. boot' = [boot EXCEPT ![r] = b] /\ UNCHANGED Tables
    BY DEF Start
  <1>2. b \in Boot /\ Len(b.ids) = 0 /\ b.row = 1 /\ b.state = "seeding" /\ b.step = "get"
    BY FreshBoot
  <1>3. Len(b.ids) <= Len(Tree)
    BY <1>2, Data
  <1>. HIDE DEF b
  <1>. QED
    BY <1>1, <1>2, <1>3, BootOnly

LEMMA FailInv ==
  ASSUME Inv, NEW r \in Replicas, Fail(r), UNCHANGED Tables
  PROVE  Inv'
  <1>. DEFINE b == Fresh("failed")
  <1>1. boot' = [boot EXCEPT ![r] = b] /\ UNCHANGED Tables
    BY DEF Fail
  <1>2. b \in Boot /\ Len(b.ids) = 0 /\ b.row = 1 /\ b.state = "failed" /\ b.step = "get"
    BY FreshBoot
  <1>3. Len(b.ids) <= Len(Tree)
    BY <1>2, Data
  <1>. HIDE DEF b
  <1>. QED
    BY <1>1, <1>2, <1>3, BootOnly

\* A boot goes to another step of the same row, but not to the password
LEMMA StepInv ==
  ASSUME Inv, NEW r \in Replicas, boot[r].state = "seeding", NEW step \in {"create", "again"},
         boot' = [boot EXCEPT ![r].step = step], UNCHANGED Tables
  PROVE  Inv'
  <1>. DEFINE b == [boot[r] EXCEPT !.step = step]
  <1>1. boot[r] \in Boot /\ Len(boot[r].ids) <= Len(Tree)
    BY DEF Inv, TypeOK
  <1>2. b \in Boot /\ b.ids = boot[r].ids /\ b.row = boot[r].row /\ b.step = step
        /\ step # "password"
    BY <1>1 DEF Boot
  <1>3. boot' = [boot EXCEPT ![r] = b]
    OBVIOUS
  <1>4. Len(boot[r].ids) = IF boot[r].row = 1 THEN 0
          ELSE IF boot[r].row - 2 <= Len(Tree) THEN boot[r].row - 2 ELSE Len(Tree)
    BY DEF Inv, Lengths
  <1>. HIDE DEF b
  <1>5. /\ Len(b.ids) <= Len(Tree)
        /\ b.state = "seeding" =>
             /\ b.step # "password"
             /\ Len(b.ids) = IF b.row = 1 THEN 0
                             ELSE IF b.row - 2 <= Len(Tree) THEN b.row - 2 ELSE Len(Tree)
    BY <1>1, <1>2, <1>4
  <1>. QED
    BY <1>2, <1>3, <1>5, BootOnly

LEMMA LookInv ==
  ASSUME Inv, NEW r \in Replicas, Get(r) \/ Again(r)
  PROVE  Inv'
  BY FoundInv, FailInv, StepInv DEF Get, Again, At

LEMMA CrashInv ==
  ASSUME Inv, NEW r \in Replicas, Crash(r)
  PROVE  Inv'
  <1>2. crashes' \in 0..MaxCrashes
    BY StartupAssumption DEF Crash, Inv, TypeOK
  <1>. QED
    BY <1>2, FreshBoot, Data
      DEF Crash, Inv, TypeOK, LowerOnly, OwnAdmin, Lengths, OwnSlugs, There, Allowed, At

LEMMA CreateAdminInv ==
  ASSUME Inv, NEW r \in Replicas, CreateAdmin(r)
  PROVE  Inv'
  <1>1. CASE Refused(r)
    BY <1>1, StepInv DEF Refused, CreateAdmin, At
  <1>2. CASE ~Refused(r)
    <2>. DEFINE row == [origin |-> "seed", password |-> FALSE]
                b == [boot[r] EXCEPT !.step = "password"]
    <2>1. /\ users' = [users EXCEPT ![AdminEmail] = row]
          /\ boot' = [boot EXCEPT ![r].step = "password"]
          /\ UNCHANGED <<registration, categories, products, crashes, edits>>
      BY <1>2 DEF CreateAdmin
    <2>2. row \in Account /\ row.origin = "seed" /\ row # NoAccount
      <3>1. row \in Account
        BY Zenon DEF Account
      <3>. QED
        BY <3>1, AccountsAssumption
    <2>3. boot[r] \in Boot /\ b \in Boot /\ b.ids = boot[r].ids /\ b.row = boot[r].row
          /\ b.state = boot[r].state
      BY DEF Inv, TypeOK, Boot
    <2>4. boot' = [boot EXCEPT ![r] = b]
      BY <2>1
    <2>5. users'[AdminEmail] = row /\ \A e \in Email : e # AdminEmail => users'[e] = users[e]
      BY <2>1, Admin DEF Inv, TypeOK
    <2>6. LowerOnly' /\ OwnAdmin'
      <3>1. \A x \in Replicas : x # r => boot'[x] = boot[x]
        BY <2>3, <2>4 DEF Inv, TypeOK
      <3>2. boot'[r].row = 1
        BY <2>3, <2>4 DEF Inv, TypeOK, CreateAdmin, IsAdmin
      <3>. QED
        BY <2>1, <2>2, <2>5, <3>1, <3>2, Admin DEF Inv, LowerOnly, OwnAdmin, At
    <2>. HIDE DEF b, row
    <2>7. TypeOK'
      <3>1. users' \in [Email -> Account \union {NoAccount}]
        BY <2>1, <2>2, Admin DEF Inv, TypeOK
      <3>2. boot' \in [Replicas -> Boot] /\ \A x \in Replicas : Len(boot'[x].ids) <= Len(Tree)
        BY <2>3, <2>4 DEF Inv, TypeOK
      <3>. QED
        BY <2>1, <3>1, <3>2 DEF Inv, TypeOK, There, Allowed
    <2>8. Lengths' /\ OwnSlugs'
      BY <2>1, <2>3, <2>4 DEF Inv, TypeOK, Lengths, OwnSlugs, There
    <2>. QED
      BY <2>6, <2>7, <2>8 DEF Inv
  <1>. QED
    BY <1>1, <1>2

LEMMA SetPasswordInv ==
  ASSUME Inv, NEW r \in Replicas, SetPassword(r)
  PROVE  Inv'
  <1>1. users[AdminEmail] \in Account /\ users[AdminEmail].origin = "seed"
    BY Admin DEF SetPassword, Inv, TypeOK, OwnAdmin
  <1>. DEFINE row == [users[AdminEmail] EXCEPT !.password = TRUE]
  <1>2. row \in Account /\ row.origin = "seed" /\ row # NoAccount
    BY <1>1, AccountsAssumption DEF Account
  <1>3. users' = [users EXCEPT ![AdminEmail] = row]
    BY DEF SetPassword
  <1>4. users'[AdminEmail] = row /\ \A e \in Email : e # AdminEmail => users'[e] = users[e]
    BY <1>3, Admin DEF Inv, TypeOK
  <1>5. /\ boot' \in [Replicas -> Boot]
        /\ \A x \in Replicas : Len(boot'[x].ids) <= Len(Tree)
        /\ Lengths'
        /\ \A x \in Replicas : At(x, "password")' => At(x, "password") /\ boot'[x] = boot[x]
    <2>1. boot[r].ids \in Seq(CategoryIds) /\ ~IsCategory(boot[r].row)
      BY Data DEF Inv, TypeOK, Boot, IsCategory, OwnAdmin, SetPassword
    <2>. QED
      BY <2>1, OnwardBoots DEF SetPassword, At
  <1>. HIDE DEF row
  <1>6. LowerOnly' /\ OwnAdmin'
    BY <1>2, <1>4, <1>5, Admin DEF Inv, LowerOnly, OwnAdmin, SetPassword
  <1>7. TypeOK'
    <2>1. users' \in [Email -> Account \union {NoAccount}]
      BY <1>2, <1>3, Admin DEF Inv, TypeOK
    <2>. QED
      BY <2>1, <1>5 DEF SetPassword, Inv, TypeOK, There, Allowed
  <1>. QED
    BY <1>5, <1>6, <1>7 DEF SetPassword, Inv, OwnSlugs, There

-----------------------------------------------------------------------------
(***************************************************************************)
(* A row that the constraints allow is written, inserted or not.           *)
(***************************************************************************)
LEMMA WriteRow ==
  ASSUME Inv, NEW c \in CategoryIds, NEW row \in Category, Allowed(c, row),
         row.writer = "boot" => row.slug = [name |-> row.name, parent |-> row.parent],
         categories' = [categories EXCEPT ![c] = row]
  PROVE  /\ categories' \in [CategoryIds -> Category \union {NoRow, Gone}]
         /\ \A d \in CategoryIds : There(d)' => Allowed(d, categories[d])'
         /\ OwnSlugs'
  <1>1. categories \in [CategoryIds -> Category \union {NoRow, Gone}]
    BY DEF Inv, TypeOK
  <1>2. /\ categories'[c] = row /\ There(c)'
        /\ \A d \in CategoryIds : d # c => categories'[d] = categories[d] /\ (There(d)' <=> There(d))
    BY <1>1, StartupAssumption DEF There
  <1>3. \A d \in CategoryIds : There(d) => Allowed(d, categories[d])
    BY DEF Inv, TypeOK
  <1>4. ASSUME NEW x \in CategoryIds, There(x)
        PROVE  There(x)'
    BY <1>2, <1>4
  <1>5. \A d \in CategoryIds : There(d) => categories[d].parent \in CategoryIds \union {Null}
    BY <1>1 DEF There, Category
  <1>6. ASSUME NEW d \in CategoryIds, There(d)'
        PROVE  Allowed(d, categories[d])'
    <2>1. CASE d = c
      <3>1. row.parent # Null => There(row.parent)'
        BY <1>4 DEF Allowed, Category
      <3>. QED
        BY <1>2, <2>1, <3>1 DEF Allowed
    <2>2. CASE d # c
      <3>1. There(d) /\ categories'[d] = categories[d] /\ Allowed(d, categories[d])
        BY <1>2, <1>3, <1>6, <2>2
      <3>2. categories[d].parent # Null => There(categories[d].parent)'
        BY <1>4, <1>5, <3>1 DEF Allowed
      <3>3. /\ row.slug # categories[d].slug
            /\ row.parent = categories[d].parent =>
                 row.parent = Null \/ row.name # categories[d].name
        BY <2>2, <3>1 DEF Allowed
      <3>4. ASSUME NEW e \in CategoryIds \ {d}, There(e)'
            PROVE  /\ categories'[e].slug # categories[d].slug
                   /\ categories'[e].parent = categories[d].parent =>
                        categories[d].parent = Null \/ categories'[e].name # categories[d].name
        BY <1>2, <3>1, <3>3, <3>4 DEF Allowed
      <3>. QED
        BY <3>1, <3>2, <3>4 DEF Allowed
    <2>. QED
      BY <2>1, <2>2
  <1>7. OwnSlugs'
    BY <1>2 DEF Inv, OwnSlugs
  <1>. QED
    BY <1>1, <1>6, <1>7

LEMMA CreateCategoryInv ==
  ASSUME Inv, NEW r \in Replicas, CreateCategory(r)
  PROVE  Inv'
  <1>1. CASE Refused(r)
    BY <1>1, StepInv DEF Refused, CreateCategory, At
  <1>2. CASE ~Refused(r)
    <2>1. PICK c \in NextId :
            /\ Allowed(Null, Node(r))
            /\ categories' = [categories EXCEPT ![c] = Node(r)]
            /\ Onward(r, Append(boot[r].ids, c))
            /\ UNCHANGED <<users, registration, products, crashes, edits>>
      BY <1>2 DEF CreateCategory
    <2>2. c \in CategoryIds /\ boot[r].state = "seeding" /\ IsCategory(boot[r].row)
      BY DEF NextId, CreateCategory, At
    <2>3. Allowed(c, Node(r))
      BY <2>1, StartupAssumption DEF Allowed
    <2>4. /\ categories' \in [CategoryIds -> Category \union {NoRow, Gone}]
          /\ \A d \in CategoryIds : There(d)' => Allowed(d, categories[d])'
          /\ OwnSlugs'
      BY <2>1, <2>2, <2>3, NodeTyped, WriteRow
    <2>5. boot[r].ids \in Seq(CategoryIds)
      BY DEF Inv, TypeOK, Boot
    <2>6. Append(boot[r].ids, c) \in Seq(CategoryIds) /\ Len(Append(boot[r].ids, c)) = Len(boot[r].ids) + 1
      BY <2>2, <2>5
    <2>7. /\ boot' \in [Replicas -> Boot]
          /\ \A x \in Replicas : Len(boot'[x].ids) <= Len(Tree)
          /\ Lengths'
          /\ \A x \in Replicas : At(x, "password")' => At(x, "password") /\ boot'[x] = boot[x]
      BY <2>1, <2>2, <2>6, OnwardBoots
    <2>. QED
      BY <2>1, <2>4, <2>7 DEF Inv, TypeOK, LowerOnly, OwnAdmin
  <1>. QED
    BY <1>1, <1>2

LEMMA CreateProductInv ==
  ASSUME Inv, NEW r \in Replicas, CreateProduct(r)
  PROVE  Inv'
  <1>1. CASE Refused(r)
    BY <1>1, StepInv DEF Refused, CreateProduct, At
  <1>2. CASE ~Refused(r)
    <2>1. /\ products' = products \union {Sample(r).sku}
          /\ Onward(r, boot[r].ids)
          /\ UNCHANGED <<users, registration, categories, crashes, edits>>
      BY <1>2 DEF CreateProduct
    <2>2. boot[r] \in Boot /\ ~IsCategory(boot[r].row) /\ boot[r].row # 1 /\ boot[r].state = "seeding"
      BY DEF Inv, TypeOK, CreateProduct, At, IsAdmin
    <2>3. boot[r].row - 1 - Len(Tree) \in 1..Len(Samples)
      BY <2>2, Data DEF Boot, IsCategory
    <2>4. Sample(r).sku \in Skus
      BY <2>3, Data DEF Sample
    <2>5. /\ boot' \in [Replicas -> Boot]
          /\ \A x \in Replicas : Len(boot'[x].ids) <= Len(Tree)
          /\ Lengths'
          /\ \A x \in Replicas : At(x, "password")' => At(x, "password") /\ boot'[x] = boot[x]
      <3>1. boot[r].ids \in Seq(CategoryIds)
        BY <2>2 DEF Boot
      <3>. QED
        BY <2>1, <2>2, <3>1, OnwardBoots
    <2>. QED
      BY <2>1, <2>4, <2>5 DEF Inv, TypeOK, LowerOnly, OwnAdmin, OwnSlugs, There, Allowed
  <1>. QED
    BY <1>1, <1>2

\* What an edit leaves as it is
LEMMA EditEffects ==
  ASSUME Inv, Edit
  PROVE  /\ UNCHANGED <<users, registration, boot, crashes>>
         /\ edits' \in 0..MaxEdits
  BY StartupAssumption DEF Edit, Inv, TypeOK

LEMMA WriteCategoryInv ==
  ASSUME Inv, NEW c \in CategoryIds, NEW row \in Category, WriteCategory(c, row)
  PROVE  Inv'
  <1>1. /\ categories' \in [CategoryIds -> Category \union {NoRow, Gone}]
        /\ \A d \in CategoryIds : There(d)' => Allowed(d, categories[d])'
        /\ OwnSlugs'
    BY WriteRow DEF WriteCategory
  <1>2. UNCHANGED <<users, registration, boot, crashes, products>> /\ edits' \in 0..MaxEdits
    BY EditEffects DEF WriteCategory
  <1>. QED
    BY <1>1, <1>2 DEF Inv, TypeOK, LowerOnly, OwnAdmin, Lengths, At

LEMMA DeleteCategoryInv ==
  ASSUME Inv, NEW c \in CategoryIds, DeleteCategory(c)
  PROVE  Inv'
  <1>. DEFINE Closed(S) == /\ c \in S
                           /\ \A x \in CategoryIds : There(x) /\ categories[x].parent \in S => x \in S
              below == {d \in CategoryIds : There(d) /\ \A S \in SUBSET CategoryIds :
                          Closed(S) => d \in S}
  <1>1. categories' = [d \in CategoryIds |-> IF d \in below THEN Gone ELSE categories[d]]
    BY DEF DeleteCategory
  <1>2. categories \in [CategoryIds -> Category \union {NoRow, Gone}]
    BY DEF Inv, TypeOK
  <1>3. ASSUME NEW d \in CategoryIds, There(d), categories[d].parent \in below
        PROVE  d \in below
    BY <1>3
  <1>. HIDE DEF below
  <1>4. \A d \in CategoryIds : There(d)' => There(d) /\ d \notin below /\ categories'[d] = categories[d]
    BY <1>1 DEF There
  <1>5. categories' \in [CategoryIds -> Category \union {NoRow, Gone}]
    BY <1>1, <1>2
  <1>6. ASSUME NEW d \in CategoryIds, There(d)'
        PROVE  Allowed(d, categories[d])'
    <2>1. There(d) /\ d \notin below /\ categories'[d] = categories[d] /\ Allowed(d, categories[d])
      BY <1>4, <1>6 DEF Inv, TypeOK
    <2>2. categories[d] \in Category
      BY <1>2, <2>1 DEF There
    <2>3. categories[d].parent # Null =>
            categories[d].parent \in CategoryIds /\ There(categories[d].parent) /\ categories[d].parent \notin below
      BY <1>3, <2>1, <2>2 DEF Allowed, Category
    <2>4. categories[d].parent # Null => There(categories[d].parent)'
      BY <1>1, <2>1, <2>3 DEF There
    <2>. QED
      BY <1>4, <2>1, <2>4 DEF Allowed
  <1>7. OwnSlugs'
    BY <1>4 DEF Inv, OwnSlugs
  <1>8. UNCHANGED <<users, registration, boot, crashes, products>> /\ edits' \in 0..MaxEdits
    BY EditEffects DEF DeleteCategory
  <1>. QED
    BY <1>5, <1>6, <1>7, <1>8 DEF Inv, TypeOK, LowerOnly, OwnAdmin, Lengths, At

LEMMA WriteProductsInv ==
  ASSUME Inv, NEW q \in Skus, WriteProducts(q)
  PROVE  Inv'
  <1>1. UNCHANGED <<users, registration, boot, crashes, categories>> /\ edits' \in 0..MaxEdits
    BY EditEffects DEF WriteProducts
  <1>2. products' \subseteq Skus
    BY DEF WriteProducts, Inv, TypeOK
  <1>. QED
    BY <1>1, <1>2 DEF Inv, TypeOK, LowerOnly, OwnAdmin, Lengths, OwnSlugs, There, Allowed, At

\* A registration, which the other tables do not see
LEMMA RegisterInv ==
  ASSUME Inv, NEW c \in Clients, Register(c), UNCHANGED <<categories, products, boot, crashes, edits>>
  PROVE  Inv'
  <1>1. CASE \E e \in Email : CheckEmail(c, e)
    <2>1. PICK e \in Email : CheckEmail(c, e)
      BY <1>1
    <2>2. Lower(e) \in Email /\ Lower(e).spelling = "lower"
      BY DEF Lower, Email
    <2>3. registration' = [registration EXCEPT ![c] = Lower(e)] /\ UNCHANGED users
      BY <2>1 DEF CheckEmail
    <2>. HIDE DEF Lower
    <2>4. registration' \in [Clients -> Email \union {NoEmail}] /\ LowerOnly'
      BY <2>2, <2>3 DEF Inv, TypeOK, LowerOnly
    <2>. QED
      BY <2>3, <2>4 DEF Inv, TypeOK, OwnAdmin, Lengths, OwnSlugs, There, Allowed, At
  <1>2. CASE CreateUser(c)
    <2>. DEFINE row == [origin |-> "registration", password |-> TRUE]
    <2>1. row \in Account
      BY Zenon DEF Account
    <2>2. registration[c] \in Email /\ registration[c].spelling = "lower"
      BY <1>2 DEF CreateUser, Inv, TypeOK, LowerOnly
    <2>3. registration' = [registration EXCEPT ![c] = NoEmail]
      BY <1>2 DEF CreateUser
    <2>4. users' = users \/ (users[registration[c]] = NoAccount /\ users' = [users EXCEPT ![registration[c]] = row])
      BY <1>2 DEF CreateUser
    <2>. HIDE DEF row
    <2>5. /\ users' \in [Email -> Account \union {NoAccount}]
          /\ registration' \in [Clients -> Email \union {NoEmail}]
      BY <2>1, <2>2, <2>3, <2>4 DEF Inv, TypeOK
    <2>6. LowerOnly'
      BY <2>2, <2>3, <2>4 DEF Inv, TypeOK, LowerOnly
    <2>7. OwnAdmin'
      BY <2>2, <2>4, Admin DEF Inv, TypeOK, OwnAdmin, At
    <2>. QED
      BY <2>5, <2>6, <2>7 DEF Inv, TypeOK, Lengths, OwnSlugs, There, Allowed
  <1>. QED
    BY <1>1, <1>2 DEF Register

-----------------------------------------------------------------------------
LEMMA NextInv == Inv /\ [Next]_vars => Inv'
  <1>. SUFFICES ASSUME Inv, [Next]_vars PROVE Inv'
    OBVIOUS
  <1>1. CASE \E r \in Replicas : Start(r) \/ Seed(r) \/ Crash(r)
    BY <1>1, StartInv, LookInv, CreateAdminInv, SetPasswordInv, CreateCategoryInv, CreateProductInv,
       CrashInv DEF Seed
  <1>2. CASE Customers
    BY <1>2, RegisterInv DEF Customers
  <1>3. CASE Staff
    BY <1>3, WriteCategoryInv, DeleteCategoryInv, WriteProductsInv DEF Staff
  <1>4. CASE UNCHANGED vars
    BY <1>4 DEF vars, Inv, TypeOK, LowerOnly, OwnAdmin, Lengths, OwnSlugs, There, Allowed, At
  <1>. QED
    BY <1>1, <1>2, <1>3, <1>4 DEF Next

(***************************************************************************)
(* Every table keeps its shape and the category table its constraints.     *)
(***************************************************************************)
THEOREM StartupTyped == Spec => []TypeOK
  <1>1. Inv => TypeOK
    BY DEF Inv
  <1>. QED
    BY <1>1, InitInv, NextInv, PTL DEF Spec

(***************************************************************************)
(* An address has one account, however many registrations and boots there  *)
(* are at once: only its lower-case spelling is ever inserted.             *)
(***************************************************************************)
THEOREM OneAccount == Spec => []OneAccountPerAddress
  <1>1. Inv => OneAccountPerAddress
    BY DEF Inv, LowerOnly, OneAccountPerAddress, Email
  <1>. QED
    BY <1>1, InitInv, NextInv, PTL DEF Spec

\* Slugs tell what boots have written apart by name and parent
LEMMA SlugsTell ==
  ASSUME Inv, NEW c \in CategoryIds, NEW d \in CategoryIds, There(c), There(d),
         categories[c].writer = "boot", categories[d].writer = "boot",
         categories[c].name = categories[d].name, categories[c].parent = categories[d].parent
  PROVE  c = d
  <1>1. categories[c].slug = categories[d].slug
    BY DEF Inv, OwnSlugs
  <1>2. Allowed(c, categories[c])
    BY DEF Inv, TypeOK
  <1>. QED
    BY <1>1, <1>2 DEF Allowed

(***************************************************************************)
(* No category is seeded twice: a row that boots wrote has the slug of its *)
(* name and parent, and slugs are unique.                                  *)
(***************************************************************************)
THEOREM NoneSeededTwice == Spec => []SeededOnce
  <1>1. Inv => SeededOnce
    BY SlugsTell DEF SeededOnce
  <1>. QED
    BY <1>1, InitInv, NextInv, PTL DEF Spec

(***************************************************************************)
(* No boot changes what a customer has registered.                         *)
(***************************************************************************)
THEOREM RegistrationsSurvive == Spec => RegistrationsKept
  <1>. DEFINE Kept == \A e \in Email : users[e] # NoAccount /\ users[e].origin = "registration" =>
                        users'[e] = users[e]
  <1>1. Inv /\ [Next]_vars => [Kept]_vars
    <2>. SUFFICES ASSUME Inv, Next PROVE Kept
      OBVIOUS
    <2>1. ASSUME NEW r \in Replicas, CreateAdmin(r)
          PROVE  Kept
      BY <2>1, Admin DEF CreateAdmin, Refused, Tables, Inv, TypeOK
    <2>2. ASSUME NEW r \in Replicas, SetPassword(r)
          PROVE  Kept
      <3>1. users[AdminEmail].origin = "seed"
        BY <2>2 DEF SetPassword, Inv, OwnAdmin
      <3>2. \A e \in Email : e # AdminEmail => users'[e] = users[e]
        BY <2>2, Admin DEF SetPassword, Inv, TypeOK
      <3>. QED
        BY <3>1, <3>2
    <2>3. ASSUME NEW c \in Clients, Register(c)
          PROVE  Kept
      BY <2>3 DEF Register, CheckEmail, CreateUser, Inv, TypeOK
    <2>. HIDE DEF Kept
    <2>4. UNCHANGED users => Kept
      BY DEF Kept
    <2>. QED
      BY <2>1, <2>2, <2>3, <2>4 DEF Next, Seed, Start, Crash, Get, Again, CreateCategory, CreateProduct,
           Refused, Tables, Customers, Staff, WriteCategory, DeleteCategory, WriteProducts, Edit
  <1>. QED
    BY <1>1, InitInv, NextInv, PTL DEF Spec, RegistrationsKept


-----------------------------------------------------------------------------
(***************************************************************************)
(* Boots that no edit disturbs.                                            *)
(***************************************************************************)
\* The id that was found or inserted for the i-th category
Placed(ids, i) ==
  /\ There(ids[i]) /\ categories[ids[i]].name = Tree[i].name
  /\ categories[ids[i]].parent = IF Tree[i].parent = 0 THEN Null ELSE ids[Tree[i].parent]

\* The row that boot b is at is in its table
Present(b) ==
  IF b.row = 1 THEN users[AdminEmail] # NoAccount
  ELSE IF b.row - 1 \in DOMAIN Tree
    THEN \E c \in CategoryIds :
           /\ There(c) /\ categories[c].name = Tree[b.row - 1].name
           /\ categories[c].parent =
                IF Tree[b.row - 1].parent = 0 THEN Null ELSE b.ids[Tree[b.row - 1].parent]
  ELSE Samples[b.row - 1 - Len(Tree)].sku \in products

\* All rows before the one that boot b is at are there, and that one too once
\* the tables have refused it
Done(b) ==
  /\ b.state # "failed"
  /\ \A i \in 1..Len(b.ids) : Placed(b.ids, i)
  /\ b.state = "up" \/ b.row > 1 => users[AdminEmail] # NoAccount
  /\ \A i \in 1..Len(Samples) :
       b.state = "up" \/ i + 1 + Len(Tree) < b.row => Samples[i].sku \in products
  /\ b.state = "up" => Len(b.ids) = Len(Tree)
  /\ b.state = "seeding" /\ b.step = "again" => Present(b)

\* As long as the staff edit nothing, boots alone fill the tables
Undisturbed ==
  edits = 0 =>
    /\ \A c \in CategoryIds : categories[c] = NoRow \/ (There(c) /\ categories[c].writer = "boot")
    /\ \A r \in Replicas : Done(boot[r])

\* Tables that only grow
Grow ==
  /\ \A c \in CategoryIds :
       categories'[c] # categories[c] =>
         categories[c] = NoRow /\ There(c)' /\ categories'[c].writer = "boot"
  /\ users[AdminEmail] # NoAccount => users'[AdminEmail] # NoAccount
  /\ products \subseteq products'

-----------------------------------------------------------------------------
LEMMA UndisturbedInit == Init => Undisturbed
  <1>. SUFFICES ASSUME Init PROVE Undisturbed
    OBVIOUS
  <1>1. ASSUME NEW r \in Replicas
        PROVE  Done(boot[r])
    <2>1. boot[r].state = "down" /\ boot[r].row = 1 /\ boot[r].ids = << >>
      BY DEF Init, Fresh
    <2>. QED
      BY <2>1, Data DEF Done
  <1>. QED
    BY <1>1 DEF Undisturbed, Init

\* What is there stays there
LEMMA ThereStays ==
  ASSUME Grow, NEW c \in CategoryIds, There(c)
  PROVE  There(c)' /\ categories'[c] = categories[c]
  BY DEF Grow, There

LEMMA PresentStays ==
  ASSUME Inv, Grow, NEW b, Present(b)
  PROVE  Present(b)'
  <1>1. \A c \in CategoryIds : There(c) => There(c)' /\ categories'[c] = categories[c]
    BY ThereStays
  <1>. QED
    BY <1>1 DEF Present, Grow

LEMMA PlacedStays ==
  ASSUME Grow, NEW ids \in Seq(CategoryIds), NEW i \in 1..Len(ids), Placed(ids, i)
  PROVE  Placed(ids, i)'
  <1>1. ids[i] \in CategoryIds
    BY SequenceOf
  <1>2. PICK c \in CategoryIds : c = ids[i]
    BY <1>1
  <1>3. There(c)' /\ categories'[c] = categories[c]
    BY <1>2, ThereStays DEF Placed
  <1>4. There(ids[i])'
    BY <1>2, <1>3 DEF There
  <1>. QED
    BY <1>2, <1>3, <1>4 DEF Placed

LEMMA DoneStays ==
  ASSUME Inv, Grow, NEW b \in Boot, Done(b)
  PROVE  Done(b)'
  <1>1. b.ids \in Seq(CategoryIds)
    BY DEF Boot
  <1>2. \A i \in 1..Len(b.ids) : Placed(b.ids, i)'
    BY <1>1, PlacedStays DEF Done
  <1>3. Present(b) => Present(b)'
    BY PresentStays
  <1>. QED
    BY <1>2, <1>3 DEF Done, Grow

\* When one boot goes on and the tables only grow, that boot is all there is
\* to look at
LEMMA OneBoot ==
  ASSUME Inv, Undisturbed, edits = 0, Grow, NEW r \in Replicas, NEW b,
         boot' = [boot EXCEPT ![r] = b], Done(b)'
  PROVE  Undisturbed'
  <1>1. \A c \in CategoryIds :
          categories'[c] = NoRow \/ (There(c)' /\ categories'[c].writer = "boot")
    BY DEF Undisturbed, Grow, There
  <1>2. ASSUME NEW x \in Replicas
        PROVE  Done(boot[x])'
    <2>1. PICK q : q = boot'[x]
      OBVIOUS
    <2>2. Done(q)'
      <3>1. CASE x = r
        BY <2>1, <3>1 DEF Inv, TypeOK
      <3>2. CASE x # r
        <4>1. q = boot[x] /\ q \in Boot
          BY <2>1, <3>2 DEF Inv, TypeOK
        <4>2. Done(q)
          BY <4>1 DEF Undisturbed
        <4>. QED
          BY <4>1, <4>2, DoneStays
      <3>. QED
        BY <3>1, <3>2
    <2>. QED
      BY <2>1, <2>2
  <1>. QED
    BY <1>1, <1>2 DEF Undisturbed


-----------------------------------------------------------------------------
\* A boot that is done with a row is done up to the next
LEMMA OnwardDone ==
  ASSUME Inv, NEW r \in Replicas, boot[r].state = "seeding", NEW a \in Boot, a = boot[r],
         NEW ids \in Seq(CategoryIds), Onward(r, ids), Done(a)', Present(a)',
         IF IsCategory(a.row)
           THEN \E c : /\ ids = Append(a.ids, c) /\ There(c)'
                       /\ categories'[c].name = Tree[a.row - 1].name
                       /\ categories'[c].parent = IF Tree[a.row - 1].parent = 0 THEN Null
                                                  ELSE a.ids[Tree[a.row - 1].parent]
           ELSE ids = a.ids
  PROVE  \E b : boot' = [boot EXCEPT ![r] = b] /\ Done(b)'
  <1>. DEFINE b == [state |-> IF a.row = Rows THEN "up" ELSE "seeding",
                    row |-> IF a.row = Rows THEN Rows ELSE a.row + 1, step |-> "get", ids |-> ids]
  <1>1. boot' = [boot EXCEPT ![r] = b]
    BY DEF Onward
  <1>2. PICK trees \in Nat, samples \in Nat, row \in Nat, known \in Nat :
          /\ trees = Len(Tree) /\ samples = Len(Samples) /\ row = a.row /\ known = Len(a.ids)
    <2>1. a.ids \in Seq(CategoryIds) /\ a.row \in 1..Rows
      BY DEF Boot
    <2>2. Len(a.ids) \in Nat /\ a.row \in Nat
      BY <2>1, Data
    <2>. QED
      BY <2>2, Data
  <1>3. Rows = 1 + trees + samples /\ row \in 1..(1 + trees + samples)
    BY <1>2, Data DEF Boot
  <1>4. known = IF row = 1 THEN 0 ELSE IF row - 2 <= trees THEN row - 2 ELSE trees
    BY <1>2 DEF Inv, Lengths
  <1>5. IsCategory(a.row) <=> row - 1 \in 1..trees
    BY <1>2, Data DEF IsCategory
  <1>6. a.ids \in Seq(CategoryIds)
    BY DEF Boot
  <1>7. /\ \A i \in 1..known : ids[i] = a.ids[i]
        /\ Len(ids) = IF row - 1 \in 1..trees THEN known + 1 ELSE known
    <2>1. CASE row - 1 \in 1..trees
      <3>1. PICK c : ids = Append(a.ids, c)
        BY <1>5, <2>1
      <3>2. Len(ids) = known + 1 /\ \A i \in 1..known : ids[i] = a.ids[i]
        BY <1>2, <1>6, <3>1
      <3>. QED
        BY <2>1, <3>2
    <2>2. CASE row - 1 \notin 1..trees
      BY <1>2, <1>5, <2>2
    <2>. QED
      BY <2>1, <2>2
  <1>8. ASSUME NEW i \in 1..Len(ids)
        PROVE  Placed(ids, i)'
    <2>1. CASE i \in 1..known
      <3>1. Placed(a.ids, i)'
        BY <1>2, <2>1 DEF Done
      <3>2. Tree[i].parent \in Nat /\ Tree[i].parent < i
        <4>1. i \in 1..Len(Tree)
          BY <1>2, <1>3, <1>4, <2>1
        <4>. QED
          BY <4>1, Data
      <3>3. Tree[i].parent # 0 => Tree[i].parent \in 1..known
        BY <2>1, <3>2
      <3>4. ids[i] = a.ids[i] /\ (Tree[i].parent # 0 => ids[Tree[i].parent] = a.ids[Tree[i].parent])
        BY <1>7, <2>1, <3>3
      <3>. QED
        BY <3>1, <3>4 DEF Placed, There
    <2>2. CASE i \notin 1..known
      <3>1. row - 1 \in 1..trees /\ i = row - 1 /\ known + 1 = i
        BY <1>3, <1>4, <1>7, <2>2
      <3>2. Tree[i].parent \in Nat /\ Tree[i].parent < i
        BY <1>2, <3>1, Data
      <3>3. Tree[i].parent # 0 => Tree[i].parent \in 1..known
        BY <3>1, <3>2
      <3>4. Tree[i].parent # 0 => ids[Tree[i].parent] = a.ids[Tree[i].parent]
        BY <1>7, <3>3
      <3>5. PICK c : /\ ids = Append(a.ids, c) /\ There(c)'
                     /\ categories'[c].name = Tree[i].name
                     /\ categories'[c].parent = IF Tree[i].parent = 0 THEN Null
                                                ELSE a.ids[Tree[i].parent]
        BY <1>2, <1>5, <3>1
      <3>6. ids[i] = c
        BY <1>2, <1>6, <3>1, <3>5, SMTT(30)
      <3>. QED
        BY <3>4, <3>5, <3>6 DEF Placed, There
    <2>. QED
      BY <2>1, <2>2
  <1>9. users'[AdminEmail] # NoAccount
    BY <1>2, <1>3 DEF Done, Present
  <1>10. ASSUME NEW i \in 1..Len(Samples), b.state = "up" \/ i + 1 + Len(Tree) < b.row
         PROVE  Samples[i].sku \in products'
    <2>1. i \in 1..samples /\ i + 1 + trees <= row
      BY <1>2, <1>3, <1>10
    <2>2. CASE i + 1 + trees < row
      BY <1>2, <1>10, <2>2 DEF Done
    <2>3. CASE i + 1 + trees = row
      <3>1. row # 1 /\ row - 1 \notin 1..trees /\ row - 1 - trees = i
        BY <2>1, <2>3, SMTT(30)
      <3>. QED
        BY <1>2, <3>1, Data DEF Present
    <2>4. i \in Nat
      BY <2>1
    <2>5. i + 1 + trees < row \/ i + 1 + trees = row
      BY <2>1, <2>4
    <2>. QED
      BY <2>2, <2>3, <2>5
  <1>11. b.state = "up" => Len(b.ids) = Len(Tree)
    BY <1>2, <1>3, <1>4, <1>7, SMTT(30)
  <1>12. b.state # "failed" /\ b.step = "get" /\ b.ids = ids
    OBVIOUS
  <1>. HIDE DEF b
  <1>13. Done(b)'
    BY <1>8, <1>9, <1>10, <1>11, <1>12 DEF Done
  <1>. QED
    BY <1>1, <1>13


\* A look finds one row or none, and finds the row that is there
LEMMA Looks ==
  ASSUME Inv, Undisturbed, edits = 0, NEW r \in Replicas
  PROVE  /\ Matches(r) # {} <=> Present(boot[r])
         /\ Cardinality(Matches(r)) <= 1
         /\ Matches(r) # {} => Cardinality(Matches(r)) = 1
  <1>1. boot[r] \in Boot
    BY DEF Inv, TypeOK
  <1>2. \A m, n \in Matches(r) : m = n
    <2>1. \A c \in CategoryIds : There(c) => categories[c].writer = "boot"
      BY DEF Undisturbed, There
    <2>. QED
      BY <2>1, SlugsTell DEF Matches
  <1>3. Matches(r) # {} <=> Present(boot[r])
    <2>1. CASE boot[r].row = 1
      BY <2>1, Admin DEF Matches, Present, IsAdmin
    <2>2. CASE boot[r].row # 1 /\ boot[r].row - 1 \in DOMAIN Tree
      BY <2>2 DEF Matches, Present, IsAdmin, IsCategory, Node
    <2>3. CASE boot[r].row # 1 /\ boot[r].row - 1 \notin DOMAIN Tree
      BY <2>3 DEF Matches, Present, IsAdmin, IsCategory, Sample
    <2>. QED
      BY <2>1, <2>2, <2>3
  <1>4. CASE Matches(r) = {}
    BY <1>3, <1>4, FS_EmptySet
  <1>5. CASE Matches(r) # {}
    <2>1. PICK m : Matches(r) = {m}
      BY <1>2, <1>5
    <2>. QED
      BY <1>3, <2>1, FS_Singleton
  <1>. QED
    BY <1>4, <1>5

\* What the tables refuse is there
LEMMA RefusedPresent ==
  ASSUME Inv, Undisturbed, edits = 0, NEW r \in Replicas,
         \/ CreateAdmin(r) /\ users[AdminEmail] # NoAccount
         \/ CreateCategory(r) /\ ~Allowed(Null, Node(r))
         \/ CreateProduct(r) /\ ~(Sample(r).sku \notin products /\ There(boot[r].ids[Sample(r).category]))
  PROVE  Present(boot[r])
  <1>. DEFINE a == boot[r]
  <1>1. a \in Boot /\ a.ids \in Seq(CategoryIds) /\ Done(a) /\ a.state = "seeding" /\ a.row \in 1..Rows
    BY DEF Inv, TypeOK, Boot, Undisturbed, CreateAdmin, CreateCategory, CreateProduct, At
  <1>2. Len(a.ids) = IF a.row = 1 THEN 0 ELSE IF a.row - 2 <= Len(Tree) THEN a.row - 2 ELSE Len(Tree)
    BY <1>1 DEF Inv, Lengths
  <1>3. ASSUME CreateAdmin(r), users[AdminEmail] # NoAccount
        PROVE  Present(a)
    BY <1>3 DEF CreateAdmin, IsAdmin, Present
  <1>4. ASSUME CreateCategory(r), ~Allowed(Null, Node(r))
        PROVE  Present(a)
    <2>1. IsCategory(a.row) /\ a.row - 1 \in 1..Len(Tree) /\ a.row # 1
      BY <1>1, <1>4, Data DEF CreateCategory, IsCategory
    <2>2. Node(r).parent # Null => There(Node(r).parent)
      <3>1. /\ Tree[a.row - 1].parent \in Nat /\ Tree[a.row - 1].parent < a.row - 1
        BY <2>1, Data
      <3>2. Tree[a.row - 1].parent # 0 => Tree[a.row - 1].parent \in 1..Len(a.ids)
        BY <1>1, <1>2, <2>1, <3>1, Data
      <3>. QED
        BY <1>1, <3>2 DEF Done, Placed, Node
    <2>3. PICK d \in CategoryIds :
            /\ There(d)
            /\ \/ categories[d].slug = Node(r).slug
               \/ categories[d].parent = Node(r).parent /\ categories[d].name = Node(r).name
      BY <1>4, <2>2 DEF Allowed
    <2>4. categories[d].slug = [name |-> categories[d].name, parent |-> categories[d].parent]
      BY <2>3 DEF Undisturbed, There, Inv, OwnSlugs
    <2>5. Node(r).slug = [name |-> Node(r).name, parent |-> Node(r).parent]
      BY <1>1, <2>1, NodeTyped
    <2>6. categories[d].parent = Node(r).parent /\ categories[d].name = Node(r).name
      BY <2>3, <2>4, <2>5
    <2>7. d \in Matches(r)
      BY <2>1, <2>3, <2>6 DEF Matches, IsAdmin
    <2>. QED
      BY <2>7, Looks
  <1>5. ASSUME CreateProduct(r),
               ~(Sample(r).sku \notin products /\ There(boot[r].ids[Sample(r).category]))
        PROVE  Present(a)
    <2>1. a.row # 1 /\ a.row - 1 \notin 1..Len(Tree)
      BY <1>1, <1>5, Data DEF CreateProduct, IsAdmin, IsCategory
    <2>2. Len(a.ids) = Len(Tree) /\ a.row - 1 - Len(Tree) \in 1..Len(Samples)
      BY <1>1, <1>2, <2>1, Data, SMTT(30)
    <2>3. Sample(r).category \in 1..Len(Tree)
      <3>1. Samples \in Seq([sku : Skus, category : DOMAIN Tree])
        BY StartupAssumption
      <3>2. \A i \in 1..Len(Samples) : Samples[i] \in [sku : Skus, category : DOMAIN Tree]
        BY <3>1, SequenceOf
      <3>. QED
        BY <2>2, <3>2, Data DEF Sample
    <2>4. There(a.ids[Sample(r).category])
      BY <1>1, <2>2, <2>3 DEF Done, Placed
    <2>. QED
      BY <1>5, <2>1, <2>4, Data DEF Present, Sample
  <1>. QED
    BY <1>3, <1>4, <1>5


-----------------------------------------------------------------------------
LEMMA AllBoots ==
  ASSUME Inv, Undisturbed, edits' = 0 => edits = 0, Grow, UNCHANGED boot
  PROVE  Undisturbed'
  <1>. SUFFICES ASSUME edits = 0 PROVE Undisturbed'
    BY DEF Undisturbed
  <1>1. \A c \in CategoryIds :
          categories'[c] = NoRow \/ (There(c)' /\ categories'[c].writer = "boot")
    BY DEF Undisturbed, Grow, There
  <1>2. ASSUME NEW x \in Replicas
        PROVE  Done(boot[x])'
    <2>1. PICK q \in Boot : q = boot[x]
      BY DEF Inv, TypeOK
    <2>2. Done(q)'
      BY <2>1, DoneStays DEF Undisturbed
    <2>. QED
      BY <2>1, <2>2
  <1>. QED
    BY <1>1, <1>2 DEF Undisturbed

\* One boot's step that leaves the tables alone
LEMMA TablesAlone ==
  ASSUME UNCHANGED Tables
  PROVE  Grow
  BY DEF Tables, Grow

LEMMA FreshDone ==
  ASSUME Inv, Undisturbed, edits = 0, NEW r \in Replicas, NEW state \in {"down", "seeding"},
         boot' = [boot EXCEPT ![r] = Fresh(state)], Grow
  PROVE  Undisturbed'
  <1>1. PICK b : b = Fresh(state)
    OBVIOUS
  <1>2. b.state = state /\ b.row = 1 /\ b.step = "get" /\ b.ids = << >>
    BY <1>1 DEF Fresh
  <1>3. Done(b)'
    BY <1>2, Data DEF Done
  <1>. QED
    BY <1>1, <1>3, OneBoot

LEMMA FoundDone ==
  ASSUME Inv, Undisturbed, edits = 0, NEW r \in Replicas, boot[r].state = "seeding",
         Matches(r) # {}, Found(r), UNCHANGED Tables
  PROVE  Undisturbed'
  <1>1. PICK a \in Boot : a = boot[r]
    BY DEF Inv, TypeOK
  <1>2. Grow
    BY TablesAlone
  <1>3. Done(a)' /\ Present(a)'
    BY <1>1, <1>2, Looks, DoneStays, PresentStays DEF Undisturbed
  <1>4. a.ids \in Seq(CategoryIds) /\ a.row \in 1..Rows
    BY DEF Boot
  <1>5. CASE IsCategory(a.row)
    <2>1. PICK c \in Matches(r) : c = CHOOSE m \in Matches(r) : TRUE
      OBVIOUS
    <2>2. a.row # 1
      BY <1>4, <1>5, Data DEF IsCategory
    <2>3. /\ c \in CategoryIds /\ There(c) /\ categories[c].name = Tree[a.row - 1].name
          /\ categories[c].parent = IF Tree[a.row - 1].parent = 0 THEN Null
                                    ELSE a.ids[Tree[a.row - 1].parent]
      BY <1>1, <1>5, <2>1, <2>2 DEF Matches, IsAdmin, Node
    <2>4. There(c)' /\ categories'[c] = categories[c]
      BY <1>2, <2>3, ThereStays
    <2>5. Append(a.ids, c) \in Seq(CategoryIds)
      BY <1>4, <2>3
    <2>6. Onward(r, Append(a.ids, c))
      BY <1>1, <1>5, <2>1 DEF Found
    <2>7. \E b : boot' = [boot EXCEPT ![r] = b] /\ Done(b)'
      BY <1>1, <1>3, <1>5, <2>3, <2>4, <2>5, <2>6, OnwardDone, ZenonT(30)
    <2>. QED
      BY <1>2, <2>7, OneBoot
  <1>6. CASE ~IsCategory(a.row)
    <2>1. Onward(r, a.ids)
      BY <1>1, <1>6 DEF Found
    <2>2. \E b : boot' = [boot EXCEPT ![r] = b] /\ Done(b)'
      BY <1>1, <1>3, <1>4, <1>6, <2>1, OnwardDone
    <2>. QED
      BY <1>2, <2>2, OneBoot
  <1>. QED
    BY <1>5, <1>6

\* A boot goes to another step of the same row
LEMMA StepDone ==
  ASSUME Inv, Undisturbed, edits = 0, NEW r \in Replicas, Grow,
         NEW step \in {"create", "again", "password"}, boot' = [boot EXCEPT ![r].step = step],
         step = "again" => Present(boot[r])
  PROVE  Undisturbed'
  <1>1. PICK a \in Boot : a = boot[r]
    BY DEF Inv, TypeOK
  <1>2. Done(a)' /\ (step = "again" => Present(a)')
    BY <1>1, DoneStays, PresentStays DEF Undisturbed
  <1>3. PICK b : b = [a EXCEPT !.step = step]
    OBVIOUS
  <1>4. b.state = a.state /\ b.row = a.row /\ b.ids = a.ids /\ b.step = step
    BY <1>3 DEF Boot
  <1>5. Done(b)'
    BY <1>2, <1>4 DEF Done, Present
  <1>6. boot' = [boot EXCEPT ![r] = b]
    BY <1>1, <1>3
  <1>. QED
    BY <1>5, <1>6, OneBoot

LEMMA RefusedDone ==
  ASSUME Inv, Undisturbed, edits = 0, NEW r \in Replicas, Refused(r), Present(boot[r])
  PROVE  Undisturbed'
  BY StepDone, TablesAlone DEF Refused


\* A boot is done with its row, which is no category
LEMMA RowDone ==
  ASSUME Inv, Undisturbed, edits = 0, NEW r \in Replicas, boot[r].state = "seeding", Grow,
         NEW a \in Boot, a = boot[r], ~IsCategory(a.row), Onward(r, a.ids), Present(a)'
  PROVE  Undisturbed'
  <1>1. Done(a)' /\ a.ids \in Seq(CategoryIds)
    BY DoneStays DEF Undisturbed, Boot
  <1>2. \E b : boot' = [boot EXCEPT ![r] = b] /\ Done(b)'
    BY <1>1, OnwardDone
  <1>. QED
    BY <1>2, OneBoot

LEMMA LookDone ==
  ASSUME Inv, Undisturbed, edits = 0, NEW r \in Replicas, Get(r) \/ Again(r)
  PROVE  Undisturbed'
  <1>1. boot[r].state = "seeding" /\ UNCHANGED Tables /\ Cardinality(Matches(r)) <= 1
    BY Looks DEF Get, Again, At
  <1>2. ~(Cardinality(Matches(r)) > 1)
    <2>1. CASE Matches(r) = {}
      BY <2>1, FS_EmptySet
    <2>2. CASE Matches(r) # {}
      BY <2>2, Looks
    <2>. QED
      BY <2>1, <2>2
  <1>3. Matches(r) = {} => Cardinality(Matches(r)) = 0
    BY FS_EmptySet
  <1>4. CASE Matches(r) # {} /\ Found(r)
    BY <1>1, <1>4, FoundDone
  <1>5. CASE boot' = [boot EXCEPT ![r].step = "create"]
    BY <1>1, <1>5, StepDone, TablesAlone
  <1>6. CASE Again(r) /\ Cardinality(Matches(r)) # 1
    <2>1. Present(boot[r])
      BY <1>6 DEF Again, At, Undisturbed, Done
    <2>. QED
      BY <1>6, <2>1, Looks
  <1>. QED
    BY <1>2, <1>3, <1>4, <1>5, <1>6 DEF Get, Again

LEMMA CreateAdminDone ==
  ASSUME Inv, Undisturbed, edits = 0, NEW r \in Replicas, CreateAdmin(r)
  PROVE  Undisturbed'
  <1>1. CASE users[AdminEmail] # NoAccount
    <2>1. Refused(r)
      BY <1>1 DEF CreateAdmin
    <2>. QED
      BY <1>1, <2>1, RefusedPresent, RefusedDone
  <1>2. CASE users[AdminEmail] = NoAccount
    <2>1. /\ UNCHANGED <<categories, products>> /\ boot' = [boot EXCEPT ![r].step = "password"]
      BY <1>2 DEF CreateAdmin
    <2>2. Grow
      BY <1>2, <2>1 DEF Grow
    <2>. QED
      BY <2>1, <2>2, StepDone
  <1>. QED
    BY <1>1, <1>2

LEMMA SetPasswordDone ==
  ASSUME Inv, Undisturbed, edits = 0, NEW r \in Replicas, SetPassword(r)
  PROVE  Undisturbed'
  <1>1. PICK a \in Boot : a = boot[r]
    BY DEF Inv, TypeOK
  <1>2. a.row = 1 /\ a.state = "seeding" /\ users[AdminEmail] \in Account
    BY <1>1, Admin DEF SetPassword, At, Inv, TypeOK, OwnAdmin
  <1>3. users'[AdminEmail] # NoAccount
    <2>. DEFINE row == [users[AdminEmail] EXCEPT !.password = TRUE]
    <2>1. row \in Account
      BY <1>2 DEF Account
    <2>2. users'[AdminEmail] = row
      BY Admin DEF SetPassword, Inv, TypeOK
    <2>. QED
      BY <2>1, <2>2, AccountsAssumption
  <1>4. Grow
    BY <1>3 DEF Grow, SetPassword
  <1>5. Present(a)' /\ ~IsCategory(a.row)
    BY <1>2, <1>3, Data DEF Present, IsCategory
  <1>. QED
    BY <1>1, <1>2, <1>4, <1>5, RowDone DEF SetPassword

LEMMA CreateCategoryDone ==
  ASSUME Inv, Undisturbed, edits = 0, NEW r \in Replicas, CreateCategory(r)
  PROVE  Undisturbed'
  <1>1. CASE ~Allowed(Null, Node(r))
    <2>1. Refused(r)
      BY <1>1 DEF CreateCategory
    <2>. QED
      BY <1>1, <2>1, RefusedPresent, RefusedDone
  <1>2. CASE Allowed(Null, Node(r))
    <2>1. PICK c \in NextId :
            /\ categories' = [categories EXCEPT ![c] = Node(r)]
            /\ Onward(r, Append(boot[r].ids, c)) /\ UNCHANGED <<users, products>>
      BY <1>2 DEF CreateCategory
    <2>2. PICK a \in Boot : a = boot[r]
      BY DEF Inv, TypeOK
    <2>3. /\ a.state = "seeding" /\ IsCategory(a.row) /\ c \in CategoryIds /\ categories[c] = NoRow
          /\ a.row # 1 /\ a.row - 1 \in DOMAIN Tree /\ a.ids \in Seq(CategoryIds)
      BY <2>2, Data DEF CreateCategory, At, NextId, Boot, IsCategory
    <2>4. /\ Node(r) \in Category /\ Node(r).writer = "boot" /\ Node(r).name = Tree[a.row - 1].name
          /\ Node(r).parent = IF Tree[a.row - 1].parent = 0 THEN Null
                              ELSE a.ids[Tree[a.row - 1].parent]
      BY <2>2, <2>3, NodeTyped DEF Node
    <2>5. categories'[c] = Node(r) /\ \A d \in CategoryIds : d # c => categories'[d] = categories[d]
      BY <2>1, <2>3 DEF Inv, TypeOK
    <2>6. There(c)'
      BY <2>4, <2>5, StartupAssumption DEF There
    <2>7. Grow
      BY <2>1, <2>3, <2>4, <2>5, <2>6 DEF Grow
    <2>8. Present(a)'
      BY <2>3, <2>4, <2>5, <2>6 DEF Present
    <2>9. Done(a)' /\ Append(a.ids, c) \in Seq(CategoryIds)
      BY <2>2, <2>3, <2>7, DoneStays DEF Undisturbed
    <2>10. \E b : boot' = [boot EXCEPT ![r] = b] /\ Done(b)'
      <3>1. /\ categories'[c].name = Tree[a.row - 1].name
            /\ categories'[c].parent = IF Tree[a.row - 1].parent = 0 THEN Null
                                       ELSE a.ids[Tree[a.row - 1].parent]
        BY <2>4, <2>5
      <3>2. PICK ids \in Seq(CategoryIds) : ids = Append(a.ids, c)
        BY <2>9
      <3>3. Onward(r, ids) /\ boot[r].state = "seeding"
        BY <2>1, <2>2, <2>3, <3>2
      <3>. QED
        BY <2>2, <2>3, <2>6, <2>8, <2>9, <3>1, <3>2, <3>3, OnwardDone
    <2>. QED
      BY <2>7, <2>10, OneBoot
  <1>. QED
    BY <1>1, <1>2

LEMMA CreateProductDone ==
  ASSUME Inv, Undisturbed, edits = 0, NEW r \in Replicas, CreateProduct(r)
  PROVE  Undisturbed'
  <1>. DEFINE allowed == Sample(r).sku \notin products /\ There(boot[r].ids[Sample(r).category])
  <1>1. CASE ~allowed
    <2>1. Refused(r)
      BY <1>1 DEF CreateProduct
    <2>. QED
      BY <1>1, <2>1, RefusedPresent, RefusedDone
  <1>2. CASE allowed
    <2>1. /\ products' = products \union {Sample(r).sku}
          /\ Onward(r, boot[r].ids) /\ UNCHANGED <<users, categories>>
      BY <1>2 DEF CreateProduct
    <2>2. PICK a \in Boot : a = boot[r]
      BY DEF Inv, TypeOK
    <2>3. /\ a.state = "seeding" /\ ~IsCategory(a.row) /\ a.row # 1 /\ a.row - 1 \notin DOMAIN Tree
      BY <2>2 DEF CreateProduct, At, IsAdmin, IsCategory
    <2>4. Grow
      BY <2>1 DEF Grow
    <2>5. Present(a)'
      BY <2>1, <2>2, <2>3 DEF Present, Sample
    <2>. QED
      BY <2>1, <2>2, <2>3, <2>4, <2>5, RowDone
  <1>. QED
    BY <1>1, <1>2

LEMMA CustomersDone ==
  ASSUME Inv, Undisturbed, edits = 0, Customers
  PROVE  Undisturbed'
  <1>1. PICK c \in Clients : Register(c)
    BY DEF Customers
  <1>2. users[AdminEmail] # NoAccount => users'[AdminEmail] # NoAccount
    BY <1>1, Admin DEF Register, CheckEmail, CreateUser, Inv, TypeOK
  <1>3. Grow
    BY <1>2 DEF Grow, Customers
  <1>. QED
    BY <1>3, AllBoots DEF Customers

LEMMA UndisturbedNext == Inv /\ Undisturbed /\ [Next]_vars => Undisturbed'
  <1>. SUFFICES ASSUME Inv, Undisturbed, [Next]_vars PROVE Undisturbed'
    OBVIOUS
  <1>1. edits \in Nat
    BY StartupAssumption DEF Inv, TypeOK
  <1>2. ASSUME Edit PROVE Undisturbed'
    BY <1>1, <1>2 DEF Edit, Undisturbed
  <1>3. CASE Staff
    BY <1>2, <1>3 DEF Staff, WriteCategory, DeleteCategory, WriteProducts
  <1>4. CASE UNCHANGED vars
    BY <1>4, AllBoots, TablesAlone DEF vars, Tables
  <1>5. CASE Next /\ ~Staff /\ edits = 0
    <2>1. ASSUME NEW r \in Replicas, Start(r) \/ Crash(r)
          PROVE  Undisturbed'
      <3>1. Grow
        BY <2>1 DEF Start, Crash, Tables, Grow
      <3>. QED
        BY <1>5, <2>1, <3>1, FreshDone DEF Start, Crash
    <2>. QED
      BY <1>5, <2>1, LookDone, CreateAdminDone, SetPasswordDone, CreateCategoryDone,
         CreateProductDone, CustomersDone DEF Next, Seed
  <1>6. CASE Next /\ ~Staff /\ edits # 0
    <2>1. UNCHANGED edits
      BY <1>6 DEF Next, Start, Seed, Crash, Get, Again, CreateAdmin, SetPassword, CreateCategory,
        CreateProduct, Refused, Customers, Tables
    <2>. QED
      BY <1>6, <2>1 DEF Undisturbed
  <1>. QED
    BY <1>3, <1>4, <1>5, <1>6

LEMMA UndisturbedAlways == Spec => []Undisturbed
  BY InitInv, NextInv, UndisturbedInit, UndisturbedNext, PTL DEF Spec

(***************************************************************************)
(* Boots do not make one another fail, however many there are and wherever *)
(* they die: what a constraint refuses to one of them, another one has     *)
(* inserted, and the second look finds it (get_or_create).                 *)
(***************************************************************************)
THEOREM OnlyEditsFail == Spec => []FailsByEditsOnly
  <1>1. Inv /\ Undisturbed => FailsByEditsOnly
    BY StartupAssumption DEF Undisturbed, Done, FailsByEditsOnly, Inv, TypeOK
  <1>. QED
    BY <1>1, InitInv, NextInv, UndisturbedAlways, PTL DEF Spec

(***************************************************************************)
(* A container that is up has its admin, its tree of categories and its    *)
(* products in the tables, whichever of them an earlier boot has left.     *)
(***************************************************************************)
THEOREM UpHasAll == Spec => []UpIsSeeded
  <1>1. Inv /\ Undisturbed => UpIsSeeded
    <2>. SUFFICES ASSUME Inv, Undisturbed, edits = 0, NEW r \in Replicas, boot[r].state = "up"
                  PROVE  Seeded
      BY DEF UpIsSeeded
    <2>. DEFINE ids == boot[r].ids
    <2>1. Done(boot[r])
      BY DEF Undisturbed
    <2>2. Len(ids) = Len(Tree) /\ ids \in Seq(CategoryIds)
      BY <2>1 DEF Done, Inv, TypeOK, Boot
    <2>3. ids \in [DOMAIN Tree -> CategoryIds]
      BY <2>2, Data
    <2>4. \A i \in DOMAIN Tree : Placed(ids, i)
      BY <2>1, <2>2, Data DEF Done
    <2>. HIDE DEF ids
    <2>5. \A i \in DOMAIN Samples : Samples[i].sku \in products
      BY <2>1, Data DEF Done
    <2>6. users[AdminEmail] # NoAccount
      BY <2>1 DEF Done
    <2>. QED
      BY <2>3, <2>4, <2>5, <2>6 DEF Seeded, Placed
  <1>. QED
    BY <1>1, InitInv, NextInv, UndisturbedAlways, PTL DEF Spec
=============================================================================
