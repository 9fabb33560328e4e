--------------------------- MODULE TraversalProofs ---------------------------
(***************************************************************************)
(* Proofs about descendant_category_ids (Catalog): it stops, and what it   *)
(* returns is exact and a pre-order, on any table, cycles included.        *)
(*                                                                         *)
(* Induction is over sets: whatever holds of no counterexample that is     *)
(* least by some measure holds throughout.                                 *)
(***************************************************************************)
EXTENDS CatalogProofs, FiniteSetTheorems, SequenceTheorems, WellFoundedInduction

LEMMA Least ==
  ASSUME NEW S \in SUBSET Nat, S # {}
  PROVE  \E n \in S : \A m \in S : n <= m
  <1>1. PICK R : R = OpToRel(<, Nat)
    OBVIOUS
  <1>2. \A m, n \in Nat : <<m, n>> \in R <=> m < n
    BY <1>1 DEF OpToRel
  <1>3. IsWellFoundedOn(R, Nat)
    BY <1>1, NatLessThanWellFounded
  <1>4. PICK n \in S : \A m \in S : <<m, n>> \notin R
    BY <1>3, WFMin, Zenon
  <1>5. \A m \in S : m \in Nat /\ n \in Nat /\ ~(m < n)
    BY <1>2, <1>4
  <1>. QED
    BY <1>5

LEMMA LeastBy ==
  ASSUME NEW S, NEW mu \in [S -> Nat], NEW T \in SUBSET S, T # {}
  PROVE  \E a \in T : \A b \in T : mu[a] <= mu[b]
  <1>. DEFINE M == {mu[a] : a \in T}
  <1>1. M \in SUBSET Nat /\ M # {}
    OBVIOUS
  <1>. HIDE DEF M
  <1>2. PICK n \in M : \A m \in M : n <= m
    BY <1>1, Least
  <1>. QED
    BY <1>2 DEF M

(***************************************************************************)
(* A loop whose measure goes down with each turn has a result from         *)
(* wherever it starts.                                                     *)
(***************************************************************************)
Results(f, S, done, step, out) ==
  f = [a \in S |-> IF a \in done THEN out[a] ELSE f[step[a]]]

LEMMA LoopEnds ==
  ASSUME NEW S, NEW done \in SUBSET S, NEW step \in [S -> S], NEW out, NEW mu \in [S -> Nat],
         \A a \in S \ done : mu[step[a]] < mu[a]
  PROVE  \E f : Results(f, S, done, step, out)
  <1>. DEFINE D(n) == {a \in S : mu[a] < n}
              UpTo(n, f) == f = [a \in D(n) |-> IF a \in done THEN out[a] ELSE f[step[a]]]
  <1>1. ASSUME NEW n \in Nat
        PROVE  \E f : UpTo(n, f)
    <2>. DEFINE Bad == {m \in Nat : ~ \E f : UpTo(m, f)}
    <2>. SUFFICES ASSUME Bad # {} PROVE FALSE
      OBVIOUS
    <2>1. PICK m \in Bad : \A k \in Bad : m <= k
      BY Least, Bad \in SUBSET Nat
    <2>2. m # 0
      <3>1. D(0) = {}
        OBVIOUS
      <3>2. UpTo(0, [a \in {} |-> 0])
        BY <3>1
      <3>. HIDE DEF UpTo
      <3>. QED
        BY <3>2, <2>1
    <2>3. m - 1 \in Nat /\ m - 1 \notin Bad
      <3>1. m \in Nat
        OBVIOUS
      <3>. HIDE DEF Bad
      <3>. QED
        BY <2>1, <2>2, <3>1
    <2>4. PICK f : UpTo(m - 1, f)
      BY <2>3
    <2>. DEFINE g == [a \in D(m) |-> IF a \in done THEN out[a] ELSE f[step[a]]]
    <2>5. ASSUME NEW a \in D(m) \ done
          PROVE  step[a] \in D(m - 1) /\ step[a] \in D(m)
      <3>1. a \in S \ done /\ mu[a] < m /\ step[a] \in S /\ mu[step[a]] \in Nat /\ mu[a] \in Nat
        OBVIOUS
      <3>2. mu[step[a]] < mu[a]
        BY <3>1
      <3>3. mu[step[a]] < m - 1 /\ mu[step[a]] < m
        BY <2>1, <3>1, <3>2
      <3>. QED
        BY <3>1, <3>3
    <2>6. \A a \in D(m - 1) : a \in D(m) /\ f[a] = g[a]
      BY <2>1, <2>4
    <2>7. \A a \in D(m) : g[a] = IF a \in done THEN out[a] ELSE g[step[a]]
      BY <2>5, <2>6
    <2>8. UpTo(m, g)
      BY <2>7
    <2>. QED
      BY <2>1, <2>8
  <1>2. ASSUME NEW m \in Nat, NEW n \in Nat, NEW f, NEW g, UpTo(m, f), UpTo(n, g),
               NEW b \in D(m) \intersect D(n)
        PROVE  f[b] = g[b]
    <2>. DEFINE Bad == {a \in D(m) \intersect D(n) : f[a] # g[a]}
    <2>. SUFFICES ASSUME Bad # {} PROVE FALSE
      OBVIOUS
    <2>1. PICK a \in Bad : \A c \in Bad : mu[a] <= mu[c]
      BY LeastBy, Bad \in SUBSET S
    <2>2. a \in D(m) \intersect D(n) /\ a \notin done /\ f[a] = f[step[a]] /\ g[a] = g[step[a]]
      BY <1>2, <2>1
    <2>3. step[a] \in D(m) \intersect D(n) /\ mu[step[a]] < mu[a]
      BY <2>2
    <2>. QED
      BY <2>1, <2>2, <2>3
  <1>. DEFINE At(a) == CHOOSE f : UpTo(mu[a] + 1, f)
  <1>3. \A a \in S : mu[a] + 1 \in Nat /\ a \in D(mu[a] + 1)
    OBVIOUS
  <1>. HIDE DEF UpTo
  <1>4. \A a \in S : UpTo(mu[a] + 1, At(a))
    BY <1>1, <1>3
  <1>. HIDE DEF At
  <1>. DEFINE h == [a \in S |-> At(a)[a]]
  <1>5. ASSUME NEW a \in S
        PROVE  h[a] = IF a \in done THEN out[a] ELSE h[step[a]]
    <2>1. PICK f : f = At(a)
      OBVIOUS
    <2>2. f[a] = IF a \in done THEN out[a] ELSE f[step[a]]
      BY <1>3, <1>4, <2>1 DEF UpTo
    <2>3. CASE a \notin done
      <3>1. PICK b \in S : b = step[a] /\ mu[b] < mu[a]
        BY <2>3
      <3>2. PICK g : g = At(b)
        OBVIOUS
      <3>3. b \in D(mu[b] + 1) \intersect D(mu[a] + 1)
        BY <3>1
      <3>4. f[b] = g[b]
        BY <1>2, <1>3, <1>4, <2>1, <3>2, <3>3
      <3>. QED
        BY <2>1, <2>2, <2>3, <3>1, <3>2, <3>4
    <2>. QED
      BY <2>1, <2>2, <2>3
  <1>6. Results(h, S, done, step, out)
    BY <1>5 DEF Results
  <1>. QED
    BY <1>6


-----------------------------------------------------------------------------
(***************************************************************************)
(* Every finite set of ids can be put in order.                            *)
(***************************************************************************)
Descending(s) == \A i, j \in DOMAIN s : i < j => s[i] > s[j]

LEMMA Sortable ==
  ASSUME NEW S \in SUBSET Nat, IsFiniteSet(S)
  PROVE  \E s \in SetToSeqs(S) : Descending(s)
  <1>. DEFINE Sorted(T) == \E s \in SetToSeqs(T) : Descending(s)
              Bad == {n \in Nat : \E T \in SUBSET Nat :
                        IsFiniteSet(T) /\ Cardinality(T) = n /\ ~Sorted(T)}
  <1>. SUFFICES ASSUME Bad # {} PROVE FALSE
    BY FS_CardinalityType
  <1>1. PICK n \in Bad : \A k \in Bad : n <= k
    BY Least, Bad \in SUBSET Nat
  <1>2. PICK T \in SUBSET Nat : IsFiniteSet(T) /\ Cardinality(T) = n /\ ~Sorted(T)
    BY <1>1
  <1>3. n \in Nat
    BY <1>1
  <1>4. T # {}
    <2>1. Cardinality({}) = 0
      BY FS_EmptySet
    <2>2. [i \in 1..0 |-> 0] \in SetToSeqs({}) /\ Descending([i \in 1..0 |-> 0])
      BY <2>1 DEF SetToSeqs, Descending
    <2>. QED
      BY <1>2, <2>2
  <1>5. PICK x \in T : \A y \in T : x <= y
    BY <1>4, Least
  <1>. DEFINE U == T \ {x}
  <1>6. U \in SUBSET Nat /\ IsFiniteSet(U) /\ Cardinality(U) = n - 1 /\ n - 1 \in Nat
    <2>1. IsFiniteSet(U) /\ Cardinality(U) = n - 1
      BY <1>2, FS_RemoveElement
    <2>2. Cardinality(U) \in Nat
      BY <2>1, FS_CardinalityType
    <2>. QED
      BY <2>1, <2>2
  <1>7. n - 1 \notin Bad
    <2>. HIDE DEF Bad
    <2>. QED
      BY <1>1, <1>3
  <1>8. Sorted(U)
    BY <1>6, <1>7
  <1>9. PICK s : s \in SetToSeqs(U) /\ Descending(s)
    BY <1>8
  <1>10. /\ s \in [1..n - 1 -> U]
         /\ \A i, j \in 1..n - 1 : i # j => s[i] # s[j]
         /\ \A i, j \in 1..n - 1 : i < j => s[i] > s[j]
    BY <1>6, <1>9 DEF SetToSeqs, Descending
  <1>. DEFINE t == [i \in 1..n |-> IF i = n THEN x ELSE s[i]]
  <1>11. \A i \in 1..n : i # n => i \in 1..n - 1
    BY <1>3
  <1>12. \A i \in 1..n - 1 : s[i] \in T /\ s[i] # x /\ s[i] > x
    <2>1. \A y \in U : y \in T /\ y # x /\ x <= y /\ y \in Nat /\ x \in Nat
      BY <1>5
    <2>2. \A y \in U : y \in T /\ y # x /\ y > x
      BY <2>1
    <2>. HIDE DEF U
    <2>. QED
      BY <1>10, <2>2
  <1>13. t \in [1..n -> T] /\ t[n] = x /\ \A i \in 1..n : i # n => i \in 1..n - 1 /\ t[i] = s[i]
    BY <1>3, <1>11, <1>12, <1>6
  <1>. HIDE DEF t
  <1>14. \A i, j \in 1..n : i < j => t[i] > t[j]
    BY <1>10, <1>12, <1>13
  <1>15. \A i, j \in 1..n : i # j => t[i] # t[j]
    BY <1>10, <1>12, <1>13
  <1>16. t \in SetToSeqs(T) /\ Descending(t)
    BY <1>2, <1>13, <1>14, <1>15 DEF SetToSeqs, Descending
  <1>. QED
    BY <1>2, <1>16

LEMMA LastFirstSorts ==
  ASSUME NEW S \in SUBSET Categories
  PROVE  /\ IsFiniteSet(S) /\ Cardinality(S) \in Nat
         /\ LastFirst(S) \in [1..Cardinality(S) -> S]
         /\ Range(LastFirst(S)) = S
         /\ \A i, j \in 1..Cardinality(S) : i < j => LastFirst(S)[i] > LastFirst(S)[j]
  <1>1. S \in SUBSET Nat /\ IsFiniteSet(S) /\ Cardinality(S) \in Nat
    BY CatalogAssumption, FS_Subset, FS_CardinalityType
  <1>2. PICK s : s = LastFirst(S)
    OBVIOUS
  <1>3. s \in SetToSeqs(S) /\ Descending(s)
    <2>1. \E u \in SetToSeqs(S) : \A i, j \in DOMAIN u : i < j => u[i] > u[j]
      BY <1>1, Sortable DEF Descending
    <2>. QED
      BY <1>2, <2>1 DEF LastFirst, Descending
  <1>4. s \in [1..Cardinality(S) -> S] /\ \A i, j \in 1..Cardinality(S) : i # j => s[i] # s[j]
    BY <1>3 DEF SetToSeqs
  <1>5. s \in Injection(1..Cardinality(S), S)
    BY <1>4 DEF Injection, IsInjective
  <1>6. s \in Surjection(1..Cardinality(S), S)
    BY <1>1, <1>5, FS_Injection, FS_Interval
  <1>7. Range(s) = S
    BY <1>4, <1>6 DEF Surjection, Range
  <1>. QED
    BY <1>1, <1>2, <1>3, <1>4, <1>7 DEF Descending


-----------------------------------------------------------------------------
LEMMA AllButLast ==
  ASSUME NEW S, NEW s \in Seq(S), NEW n \in Nat \ {0}, Len(s) = n
  PROVE  Front(s) \in Seq(S) /\ Len(Front(s)) = n - 1 /\ \A i \in 1..n - 1 : Front(s)[i] = s[i]
  <1>1. \A i \in 1..n - 1 : s[i] \in S
    OBVIOUS
  <1>2. PICK t : t = SubSeq(s, 1, n - 1)
    OBVIOUS
  <1>3. t \in Seq(S) /\ Len(t) = n - 1 /\ \A i \in 1..n - 1 : t[i] = s[1 + i - 1]
    <2>1. n - 1 \in Int /\ 1 \in Int /\ n - 1 - 1 + 1 = n - 1 /\ (IF 1 <= n - 1 THEN n - 1 - 1 + 1 ELSE 0) = n - 1
      OBVIOUS
    <2>. QED
      BY <1>1, <1>2, <2>1, SubSeqProperties
  <1>4. Front(s) = t
    BY <1>2 DEF Front
  <1>. QED
    BY <1>3, <1>4

LEMMA FunctionIsSeq ==
  ASSUME NEW S, NEW k \in Nat, NEW l \in [1..k -> S]
  PROVE  l \in Seq(S) /\ Len(l) = k
  <1>1. l \in Seq(S)
    BY SeqDef
  <1>2. Len(l) \in Nat /\ 1..Len(l) = 1..k
    BY <1>1, LenProperties
  <1>3. ASSUME NEW n \in Nat, 1..n = 1..k
        PROVE  n = k
    <2>1. n > 0 => n \in 1..k
      BY <1>3
    <2>2. k > 0 => k \in 1..n
      BY <1>3
    <2>. QED
      BY <2>1, <2>2
  <1>. QED
    BY <1>1, <1>2, <1>3

(***************************************************************************)
(* One turn of the loop: what was seen is only popped; what was not is     *)
(* appended, and those of its children that were not seen lie on top.      *)
(***************************************************************************)
LEMMA Pops ==
  ASSUME NEW table, NEW at \in Loop, NEW n \in Nat \ {0}, Len(at.stack) = n,
         at.stack[n] \in Range(at.ordered)
  PROVE  LET next == Turn(table, at)
         IN  /\ next \in Loop /\ next.ordered = at.ordered
             /\ Len(next.stack) = n - 1 /\ \A i \in 1..n - 1 : next.stack[i] = at.stack[i]
  <1>1. at.stack \in Seq(Categories) /\ at.ordered \in Seq(Categories)
    BY DEF Loop
  <1>2. PICK next : next = Turn(table, at)
    OBVIOUS
  <1>3. next = [at EXCEPT !.stack = Front(at.stack)]
    BY <1>2 DEF Turn, Last
  <1>4. PICK front \in Seq(Categories) :
          front = Front(at.stack) /\ Len(front) = n - 1 /\ \A i \in 1..n - 1 : front[i] = at.stack[i]
    BY <1>1, AllButLast
  <1>5. next = [stack |-> front, ordered |-> at.ordered]
    BY <1>3, <1>4 DEF Loop
  <1>. QED
    BY <1>1, <1>2, <1>4, <1>5 DEF Loop

\* What a turn leaves that finds n on the stack, m ordered and the children K
\* on the n-th not seen
Pushed(table, at, n, m, K, stack, ordered, k) ==
  /\ stack \in Seq(Categories) /\ ordered \in Seq(Categories) /\ k \in Nat
  /\ Turn(table, at) = [stack |-> stack, ordered |-> ordered]
  /\ Len(ordered) = m + 1 /\ ordered[m + 1] = at.stack[n]
  /\ \A i \in 1..m : ordered[i] = at.ordered[i]
  /\ k = Cardinality(K)
  /\ Len(stack) = n - 1 + k /\ \A i \in 1..n - 1 : stack[i] = at.stack[i]
  /\ \A i \in n..n - 1 + k : stack[i] \in K
  /\ \A x \in K : \E i \in n..n - 1 + k : stack[i] = x
  /\ \A i, j \in n..n - 1 + k : i < j => stack[i] > stack[j]

LEMMA Pushes ==
  ASSUME NEW table, NEW at \in Loop, NEW n \in Nat \ {0}, Len(at.stack) = n,
         NEW m \in Nat, Len(at.ordered) = m, at.stack[n] \notin Range(at.ordered),
         NEW K, K = Children(table, at.stack[n]) \ (Range(at.ordered) \union {at.stack[n]})
  PROVE  \E stack, ordered, k : Pushed(table, at, n, m, K, stack, ordered, k)
  <1>1. at.stack \in Seq(Categories) /\ at.ordered \in Seq(Categories) /\ at.stack[n] \in Categories
    BY DEF Loop
  <1>2. PICK next : next = Turn(table, at)
    OBVIOUS
  <1>3. next = [stack |-> Front(at.stack) \o LastFirst(K),
                ordered |-> Append(at.ordered, at.stack[n])]
    BY <1>2 DEF Turn, Last
  <1>4. PICK front \in Seq(Categories) :
          front = Front(at.stack) /\ Len(front) = n - 1 /\ \A i \in 1..n - 1 : front[i] = at.stack[i]
    BY <1>1, AllButLast
  <1>5. K \in SUBSET Categories
    BY DEF Children
  <1>6. PICK k \in Nat : k = Cardinality(K)
    BY <1>5, LastFirstSorts
  <1>16. PICK l : l = LastFirst(K)
    OBVIOUS
  <1>17. l \in [1..k -> K] /\ Range(l) = K /\ \A i, j \in 1..k : i < j => l[i] > l[j]
    BY <1>5, <1>6, <1>16, LastFirstSorts
  <1>7. l \in Seq(Categories) /\ Len(l) = k
    <2>1. l \in [1..k -> Categories]
      BY <1>5, <1>17
    <2>. QED
      BY <2>1, FunctionIsSeq
  <1>8. PICK stack : stack = front \o l
    OBVIOUS
  <1>9. /\ stack \in Seq(Categories) /\ Len(stack) = n - 1 + k
        /\ \A i \in 1..n - 1 : stack[i] = at.stack[i]
        /\ \A i \in n..n - 1 + k : i - (n - 1) \in 1..k /\ stack[i] = l[i - (n - 1)]
    <2>1. PICK e \in Nat : e = n - 1
      OBVIOUS
    <2>2. front \in Seq(Categories) /\ Len(front) = e /\ l \in Seq(Categories) /\ Len(l) = k
      BY <1>4, <1>7, <2>1
    <2>3. /\ stack \in Seq(Categories) /\ Len(stack) = e + k
          /\ \A i \in 1..e + k : stack[i] = IF i <= e THEN front[i] ELSE l[i - e]
      BY <1>8, <2>2, ConcatProperties
    <2>. QED
      BY <1>4, <2>1, <2>3
  <1>10. PICK ordered : ordered = Append(at.ordered, at.stack[n])
    OBVIOUS
  <1>11. /\ ordered \in Seq(Categories) /\ Len(ordered) = m + 1 /\ ordered[m + 1] = at.stack[n]
         /\ \A i \in 1..m : ordered[i] = at.ordered[i]
    BY <1>1, <1>10
  <1>12. next = [stack |-> stack, ordered |-> ordered]
    BY <1>3, <1>4, <1>8, <1>10, <1>16
  <1>13. ASSUME NEW x \in K
         PROVE  \E i \in n..n - 1 + k : stack[i] = x
    <2>1. PICK i \in 1..k : l[i] = x
      BY <1>17 DEF Range
    <2>2. \A a \in Nat, b \in Nat : \A j \in 1..b :
            a + j \in a + 1..a + b /\ (a + j) - a = j
      OBVIOUS
    <2>3. n - 1 \in Nat /\ n - 1 + 1 = n
      OBVIOUS
    <2>4. n - 1 + i \in n..n - 1 + k /\ (n - 1 + i) - (n - 1) = i
      BY <2>2, <2>3
    <2>. QED
      BY <1>9, <2>1, <2>4
  <1>14. \A i \in n..n - 1 + k : stack[i] \in K
    BY <1>9, <1>17
  <1>15. ASSUME NEW i \in n..n - 1 + k, NEW j \in n..n - 1 + k, i < j
         PROVE  stack[i] > stack[j]
    <2>1. PICK x \in 1..k, y \in 1..k : x = i - (n - 1) /\ y = j - (n - 1)
      BY <1>9
    <2>2. x < y /\ stack[i] = l[x] /\ stack[j] = l[y]
      BY <1>9, <1>15, <2>1
    <2>. QED
      BY <2>2, <1>17
  <1>18. stack \in Seq(Categories) /\ ordered \in Seq(Categories)
    BY <1>9, <1>11
  <1>19. Pushed(table, at, n, m, K, stack, ordered, k)
    BY <1>2, <1>6, <1>9, <1>11, <1>12, <1>13, <1>14, <1>15, <1>18 DEF Pushed
  <1>. QED
    BY <1>19


-----------------------------------------------------------------------------
(***************************************************************************)
(* The loop stops: a turn lengthens the stack by no more categories than   *)
(* there are, and then there is one less to be seen.                       *)
(***************************************************************************)
Unseen(at) == Cardinality(Categories \ Range(at.ordered))

Measure(at) == Unseen(at) * (Cardinality(Categories) + 1) + Len(at.stack)

LEMMA RangeOfLoop ==
  ASSUME NEW S, NEW s \in Seq(S)
  PROVE  Len(s) \in Nat /\ Range(s) = {s[i] : i \in 1..Len(s)} /\ Range(s) \subseteq S
  BY DEF Range

LEMMA RangeOfAppended ==
  ASSUME NEW S, NEW s \in Seq(S), NEW t \in Seq(S), NEW m \in Nat, Len(s) = m, Len(t) = m + 1,
         \A i \in 1..m : t[i] = s[i]
  PROVE  Range(t) = Range(s) \union {t[m + 1]}
  <1>1. Range(s) = {s[i] : i \in 1..m} /\ Range(t) = {t[i] : i \in 1..m + 1}
    BY RangeOfLoop
  <1>2. \A i \in 1..m + 1 : i \in 1..m \/ i = m + 1
    OBVIOUS
  <1>3. \A i \in 1..m : i \in 1..m + 1
    OBVIOUS
  <1>. QED
    BY <1>1, <1>2, <1>3

LEMMA Drops ==
  ASSUME NEW u \in Nat \ {0}, NEW c \in Nat, NEW n \in Nat \ {0}, NEW k \in Nat, k <= c
  PROVE  (u - 1) * (c + 1) + (n - 1 + k) < u * (c + 1) + n
  <1>1. (u - 1) * (c + 1) = u * (c + 1) - (c + 1)
    OBVIOUS
  <1>2. u * (c + 1) \in Nat
    OBVIOUS
  <1>. QED
    BY <1>1, <1>2

LEMMA MeasureTyped ==
  ASSUME NEW at \in Loop
  PROVE  Unseen(at) \in Nat /\ Cardinality(Categories) \in Nat /\ Measure(at) \in Nat
  <1>1. IsFiniteSet(Categories)
    BY CatalogAssumption
  <1>2. Unseen(at) \in Nat /\ Cardinality(Categories) \in Nat
    BY <1>1, FS_Subset, FS_CardinalityType DEF Unseen
  <1>3. Len(at.stack) \in Nat
    BY DEF Loop
  <1>4. \A u, c, n \in Nat : u * (c + 1) + n \in Nat
    OBVIOUS
  <1>. QED
    BY <1>2, <1>3, <1>4 DEF Measure

LEMMA TurnGoesDown ==
  ASSUME NEW table, NEW at \in Loop, at.stack # << >>
  PROVE  Turn(table, at) \in Loop /\ Measure(Turn(table, at)) < Measure(at)
  <1>1. PICK next : next = Turn(table, at)
    OBVIOUS
  <1>2. at.stack \in Seq(Categories) /\ at.ordered \in Seq(Categories)
    BY DEF Loop
  <1>3. PICK n \in Nat \ {0} : n = Len(at.stack)
    BY <1>2
  <1>4. PICK m \in Nat : m = Len(at.ordered)
    BY <1>2
  <1>5. PICK c \in Nat : c = Cardinality(Categories)
    BY MeasureTyped
  <1>6. PICK u \in Nat : u = Unseen(at)
    BY MeasureTyped
  <1>7. Measure(at) = u * (c + 1) + n
    BY <1>3, <1>5, <1>6 DEF Measure
  <1>8. CASE at.stack[n] \in Range(at.ordered)
    <2>1. next \in Loop /\ next.ordered = at.ordered /\ Len(next.stack) = n - 1
      BY <1>1, <1>3, <1>8, Pops
    <2>2. Measure(next) = u * (c + 1) + (n - 1)
      BY <1>5, <1>6, <2>1 DEF Measure, Unseen
    <2>3. u * (c + 1) \in Nat
      OBVIOUS
    <2>. QED
      BY <1>1, <1>7, <2>1, <2>2, <2>3
  <1>9. CASE at.stack[n] \notin Range(at.ordered)
    <2>1. PICK K : K = Children(table, at.stack[n]) \ (Range(at.ordered) \union {at.stack[n]})
      OBVIOUS
    <2>2. PICK stack, ordered, k : Pushed(table, at, n, m, K, stack, ordered, k)
      BY <1>3, <1>4, <1>9, <2>1, Pushes
    <2>3. next = [stack |-> stack, ordered |-> ordered] /\ next \in Loop
      BY <1>1, <2>2 DEF Pushed, Loop
    <2>4. k \in Nat /\ k <= c /\ Len(stack) = n - 1 + k
      <3>1. K \in SUBSET Categories
        BY <2>1 DEF Children
      <3>2. Cardinality(K) <= c
        BY <1>5, <3>1, FS_Subset, CatalogAssumption
      <3>. QED
        BY <2>2, <3>2 DEF Pushed
    <2>5. Range(ordered) = Range(at.ordered) \union {at.stack[n]}
      <3>1. PICK s \in Seq(Categories) : s = at.ordered
        BY <1>2
      <3>2. /\ ordered \in Seq(Categories) /\ Len(s) = m /\ Len(ordered) = m + 1
            /\ \A i \in 1..m : ordered[i] = s[i]
        BY <1>4, <2>2, <3>1 DEF Pushed
      <3>3. Range(ordered) = Range(s) \union {ordered[m + 1]}
        BY <3>2, RangeOfAppended
      <3>. QED
        BY <2>2, <3>1, <3>3 DEF Pushed
    <2>6. at.stack[n] \in Categories
      BY <1>2, <1>3
    <2>7. u # 0 /\ Unseen(next) = u - 1
      <3>. DEFINE left == Categories \ Range(at.ordered)
      <3>1. IsFiniteSet(left) /\ at.stack[n] \in left /\ u = Cardinality(left)
        BY <1>6, <1>9, <2>6, FS_Subset, CatalogAssumption DEF Unseen
      <3>2. Categories \ Range(ordered) = left \ {at.stack[n]}
        BY <2>5
      <3>3. Unseen(next) = Cardinality(left \ {at.stack[n]})
        BY <2>3, <3>2 DEF Unseen
      <3>. HIDE DEF left
      <3>4. u # 0
        BY <3>1, FS_EmptySet
      <3>5. Cardinality(left \ {at.stack[n]}) = u - 1
        BY <3>1, FS_RemoveElement
      <3>. QED
        BY <3>3, <3>4, <3>5
    <2>8. Measure(next) = (u - 1) * (c + 1) + (n - 1 + k)
      BY <1>5, <2>3, <2>4, <2>7 DEF Measure
    <2>9. (u - 1) * (c + 1) + (n - 1 + k) < u * (c + 1) + n
      BY <2>4, <2>7, Drops
    <2>. QED
      BY <1>1, <1>7, <2>3, <2>8, <2>9
  <1>. QED
    BY <1>8, <1>9

(***************************************************************************)
(* So it has a result from wherever it starts, which is that of its next   *)
(* turn, and descendant_category_ids returns it.                           *)
(***************************************************************************)
Ends(table, f) ==
  \A at \in Loop : f[at] = IF at.stack = << >> THEN at.ordered ELSE f[Turn(table, at)]

LEMMA TraversalEnds ==
  ASSUME NEW table
  PROVE  \E f : /\ Ends(table, f)
                /\ \A root : DescendantIds(table, root) = f[[stack |-> <<root>>, ordered |-> << >>]]
  <1>. DEFINE done == {at \in Loop : at.stack = << >>}
              step == [at \in Loop |-> IF at \in done THEN at ELSE Turn(table, at)]
              out == [at \in Loop |-> at.ordered]
              mu == [at \in Loop |-> Measure(at)]
              IsResult(f) ==
                f = [at \in Loop |-> IF at.stack = << >> THEN at.ordered ELSE f[Turn(table, at)]]
  <1>1. done \in SUBSET Loop /\ step \in [Loop -> Loop] /\ mu \in [Loop -> Nat]
    BY TurnGoesDown, MeasureTyped
  <1>2. \A at \in Loop \ done : mu[step[at]] < mu[at]
    BY TurnGoesDown
  <1>3. PICK f : Results(f, Loop, done, step, out)
    <2>1. PICK D, turn, result, m : D = done /\ turn = step /\ result = out /\ m = mu
      OBVIOUS
    <2>2. /\ D \in SUBSET Loop /\ turn \in [Loop -> Loop] /\ m \in [Loop -> Nat]
          /\ \A at \in Loop \ D : m[turn[at]] < m[at]
      <3>. HIDE DEF done, step, mu
      <3>. QED
        BY <1>1, <1>2, <2>1
    <2>. HIDE DEF done, step, out, mu
    <2>3. \E f : Results(f, Loop, D, turn, result)
      BY <2>2, LoopEnds
    <2>. QED
      BY <2>1, <2>3
  <1>4. IsResult(f)
    BY <1>3 DEF Results
  <1>5. PICK g : g = CHOOSE h : IsResult(h)
    OBVIOUS
  <1>6. IsResult(g)
    <2>. HIDE DEF IsResult
    <2>. QED
      BY <1>4, <1>5
  <1>7. Ends(table, g)
    BY <1>6 DEF Ends
  <1>8. \A root : DescendantIds(table, root) = g[[stack |-> <<root>>, ordered |-> << >>]]
    BY <1>5 DEF DescendantIds
  <1>. QED
    BY <1>7, <1>8


LEMMA Along ==
  ASSUME NEW table, NEW f, Ends(table, f), NEW I \in SUBSET Loop,
         \A at \in I : at.stack # << >> => Turn(table, at) \in I
  PROVE  \A at \in I : \E end \in I : end.stack = << >> /\ f[at] = end.ordered
  <1>. DEFINE mu == [at \in Loop |-> Measure(at)]
              Bad == {at \in I : ~ \E end \in I : end.stack = << >> /\ f[at] = end.ordered}
  <1>. SUFFICES ASSUME Bad # {} PROVE FALSE
    OBVIOUS
  <1>1. mu \in [Loop -> Nat] /\ Bad \in SUBSET Loop
    BY MeasureTyped
  <1>2. PICK at \in Bad : \A b \in Bad : mu[at] <= mu[b]
    <2>. HIDE DEF mu, Bad
    <2>. QED
      BY <1>1, LeastBy
  <1>3. at \in I /\ at \in Loop /\ at.stack # << >>
    BY DEF Ends
  <1>4. PICK next \in I : next = Turn(table, at) /\ Measure(next) < Measure(at)
    BY <1>3, TurnGoesDown
  <1>5. f[at] = f[next]
    BY <1>3, <1>4 DEF Ends
  <1>6. next \notin Bad
    <2>1. mu[next] < mu[at] /\ mu[next] \in Nat /\ mu[at] \in Nat
      BY <1>3, <1>4, MeasureTyped
    <2>. HIDE DEF mu, Bad
    <2>. QED
      BY <1>2, <2>1
  <1>. QED
    BY <1>5, <1>6

-----------------------------------------------------------------------------
(***************************************************************************)
(* What a turn does to the sets of what is on the stack and what is        *)
(* ordered.                                                                *)
(***************************************************************************)
LEMMA TurnRanges ==
  ASSUME NEW table, NEW at \in Loop, at.stack # << >>
  PROVE  LET next == Turn(table, at) IN
         \E current \in Range(at.stack) :
           /\ Range(next.ordered) = Range(at.ordered) \union {current}
           /\ Range(at.stack) \subseteq Range(next.stack) \union {current}
           /\ Range(next.stack) \subseteq Range(at.stack) \union Children(table, current)
           /\ Children(table, current) \subseteq Range(next.stack) \union Range(next.ordered)
              \/ current \in Range(at.ordered)
           /\ IsInjective(at.ordered) => IsInjective(next.ordered)
  <1>1. PICK next : next = Turn(table, at)
    OBVIOUS
  <1>2. PICK s \in Seq(Categories), o \in Seq(Categories) : s = at.stack /\ o = at.ordered
    BY DEF Loop
  <1>3. PICK n \in Nat \ {0} : n = Len(s)
    BY <1>2
  <1>4. PICK m \in Nat : m = Len(o)
    OBVIOUS
  <1>5. Range(s) = {s[i] : i \in 1..n} /\ Range(o) = {o[i] : i \in 1..m} /\ s[n] \in Range(s)
    BY <1>3, <1>4, RangeOfLoop
  <1>6. CASE s[n] \in Range(o)
    <2>1. PICK t \in Seq(Categories) :
            /\ t = next.stack /\ next.ordered = o
            /\ Len(t) = n - 1 /\ \A i \in 1..n - 1 : t[i] = s[i]
      <3>1. next \in Loop /\ next.ordered = at.ordered /\ Len(next.stack) = n - 1
            /\ \A i \in 1..n - 1 : next.stack[i] = s[i]
        BY <1>1, <1>2, <1>3, <1>6, Pops
      <3>. QED
        BY <1>2, <3>1 DEF Loop
    <2>2. Range(s) = Range(t) \union {s[n]}
      <3>1. PICK e \in Nat : e = n - 1 /\ Len(s) = e + 1 /\ n = e + 1
        BY <1>3
      <3>2. Len(t) = e /\ \A i \in 1..e : s[i] = t[i]
        BY <2>1, <3>1
      <3>3. Range(s) = Range(t) \union {s[e + 1]}
        BY <3>1, <3>2, RangeOfAppended
      <3>. QED
        BY <3>1, <3>3
    <2>3. s[n] \in Range(at.stack) /\ s[n] \in Range(at.ordered)
      BY <1>2, <1>5, <1>6
    <2>4. /\ Range(next.ordered) = Range(at.ordered) \union {s[n]}
          /\ Range(at.stack) \subseteq Range(next.stack) \union {s[n]}
          /\ Range(next.stack) \subseteq Range(at.stack)
          /\ next.ordered = at.ordered
      BY <1>2, <2>1, <2>2, <2>3
    <2>. QED
      BY <1>1, <2>3, <2>4
  <1>7. CASE s[n] \notin Range(o)
    <2>1. PICK K : K = Children(table, s[n]) \ (Range(o) \union {s[n]})
      OBVIOUS
    <2>2. PICK t, p, k : Pushed(table, at, n, m, K, t, p, k)
      BY <1>2, <1>3, <1>4, <1>7, <2>1, Pushes
    <2>3. next.stack = t /\ next.ordered = p
      BY <1>1, <2>2 DEF Pushed
    <2>4. /\ p \in Seq(Categories) /\ Len(p) = m + 1 /\ p[m + 1] = s[n]
          /\ \A i \in 1..m : p[i] = o[i]
      BY <1>2, <2>2 DEF Pushed
    <2>5. Range(p) = Range(o) \union {s[n]}
      BY <1>4, <2>4, RangeOfAppended
    <2>6. /\ t \in Seq(Categories) /\ k \in Nat /\ Len(t) = n - 1 + k
          /\ \A i \in 1..n - 1 : t[i] = s[i]
          /\ \A i \in n..n - 1 + k : t[i] \in K
          /\ \A x \in K : \E i \in n..n - 1 + k : t[i] = x
      BY <1>2, <2>2 DEF Pushed
    <2>7. Range(t) = {t[i] : i \in 1..n - 1 + k}
      BY <2>6, RangeOfLoop
    <2>8. Range(s) \subseteq Range(t) \union {s[n]}
      <3>1. \A i \in 1..n : i = n \/ (i \in 1..n - 1 /\ i \in 1..n - 1 + k)
        BY <2>6
      <3>2. ASSUME NEW x \in Range(s), x # s[n]
            PROVE  x \in Range(t)
        <4>1. PICK i \in 1..n : x = s[i]
          BY <1>5
        <4>2. i \in 1..n - 1 + k /\ t[i] = x
          BY <2>6, <3>1, <3>2, <4>1
        <4>. QED
          BY <2>7, <4>2
      <3>. QED
        BY <3>2
    <2>9. Range(t) \subseteq Range(s) \union K
      <3>1. \A i \in 1..n - 1 + k : i \in n..n - 1 + k \/ (i \in 1..n - 1 /\ i \in 1..n)
        BY <2>6
      <3>. QED
        BY <1>5, <2>6, <2>7, <3>1
    <2>10. K \subseteq Range(t)
      <3>1. \A i \in n..n - 1 + k : i \in 1..n - 1 + k
        BY <2>6
      <3>. QED
        BY <2>6, <2>7, <3>1
    <2>11. ASSUME IsInjective(o)
           PROVE  IsInjective(p)
      <3>1. \A i, j \in 1..m : o[i] = o[j] => i = j
        BY <1>4, <2>11 DEF IsInjective
      <3>2. DOMAIN p = 1..m + 1 /\ \A i \in 1..m + 1 : i = m + 1 \/ i \in 1..m
        BY <2>4
      <3>3. \A i \in 1..m : p[i] = o[i] /\ p[i] # s[n]
        BY <1>5, <1>7, <2>4
      <3>. QED
        BY <2>4, <3>1, <3>2, <3>3 DEF IsInjective
    <2>. QED
      BY <1>1, <1>2, <1>5, <2>1, <2>3, <2>5, <2>8, <2>9, <2>10, <2>11
  <1>. QED
    BY <1>6, <1>7

-----------------------------------------------------------------------------
(***************************************************************************)
(* Exactness.  What is on the stack or ordered lies below the root; the    *)
(* root is among it, and so are the children of all that is ordered.       *)
(***************************************************************************)
Found(at) == Range(at.stack) \union Range(at.ordered)

Exact(table, root) ==
  {at \in Loop :
     /\ root \in Found(at) /\ Found(at) \subseteq Subtree(table, root)
     /\ \A c \in Range(at.ordered) : Children(table, c) \subseteq Found(at)
     /\ IsInjective(at.ordered)}

LEMMA StartLoop ==
  ASSUME NEW root \in Categories
  PROVE  LET start == [stack |-> <<root>>, ordered |-> << >>]
         IN start \in Loop /\ Range(start.stack) = {root} /\ Range(start.ordered) = {}
  <1>1. <<root>> \in Seq(Categories) /\ << >> \in Seq(Categories)
    OBVIOUS
  <1>2. Range(<<root>>) = {root} /\ Range(<< >>) = {}
    BY DEF Range
  <1>. QED
    BY <1>1, <1>2 DEF Loop

LEMMA TraversalIsExact ==
  ASSUME NEW table, NEW root \in Categories
  PROVE  LET ids == DescendantIds(table, root)
         IN Range(ids) = Subtree(table, root) /\ IsInjective(ids)
  <1>1. PICK f : Ends(table, f) /\ DescendantIds(table, root) = f[[stack |-> <<root>>, ordered |-> << >>]]
    BY TraversalEnds
  <1>2. ASSUME NEW at \in Exact(table, root), at.stack # << >>
        PROVE  Turn(table, at) \in Exact(table, root)
    <2>1. PICK next : next = Turn(table, at) /\ next \in Loop
      BY <1>2, TurnGoesDown DEF Exact
    <2>2. PICK current \in Range(at.stack) :
            /\ Range(next.ordered) = Range(at.ordered) \union {current}
            /\ Range(at.stack) \subseteq Range(next.stack) \union {current}
            /\ Range(next.stack) \subseteq Range(at.stack) \union Children(table, current)
            /\ Children(table, current) \subseteq Range(next.stack) \union Range(next.ordered)
               \/ current \in Range(at.ordered)
            /\ IsInjective(at.ordered) => IsInjective(next.ordered)
      BY <1>2, <2>1, TurnRanges DEF Exact
    <2>3. current \in Subtree(table, root) /\ Children(table, current) \subseteq Subtree(table, root)
      BY SubtreeClosed DEF Exact, Found
    <2>4. Found(at) \subseteq Found(next) /\ Found(next) \subseteq Subtree(table, root)
      BY <2>2, <2>3 DEF Exact, Found
    <2>5. \A c \in Range(next.ordered) : Children(table, c) \subseteq Found(next)
      BY <2>2, <2>4 DEF Exact, Found
    <2>. QED
      BY <2>1, <2>2, <2>4, <2>5 DEF Exact
  <1>3. [stack |-> <<root>>, ordered |-> << >>] \in Exact(table, root)
    BY StartLoop, SubtreeClosed DEF Exact, Found, IsInjective
  <1>4. PICK end \in Exact(table, root) : end.stack = << >> /\ DescendantIds(table, root) = end.ordered
    <2>1. Exact(table, root) \in SUBSET Loop
      BY DEF Exact
    <2>. QED
      BY <1>1, <1>2, <1>3, <2>1, Along
  <1>5. Found(end) = Range(end.ordered) /\ Range(end.ordered) \in SUBSET Categories
    <2>1. Range(end.stack) = {}
      BY <1>4 DEF Range
    <2>2. end.ordered \in Seq(Categories)
      BY DEF Exact, Loop
    <2>. QED
      BY <2>1, <2>2, RangeOfLoop DEF Found
  <1>6. Subtree(table, root) \subseteq Range(end.ordered)
    BY <1>5 DEF Exact, Subtree
  <1>. QED
    BY <1>4, <1>5, <1>6 DEF Exact


-----------------------------------------------------------------------------
(***************************************************************************)
(* What is below what.                                                     *)
(***************************************************************************)
LEMMA SubtreeLeast ==
  ASSUME NEW table, NEW c \in Categories, NEW S \in SUBSET Categories, c \in S,
         \A e \in S : Children(table, e) \subseteq S
  PROVE  Subtree(table, c) \subseteq S
  BY DEF Subtree

LEMMA SubtreeNested ==
  ASSUME NEW table, NEW c \in Categories, NEW d \in Subtree(table, c)
  PROVE  Subtree(table, d) \subseteq Subtree(table, c)
  <1>1. d \in Categories /\ Subtree(table, c) \in SUBSET Categories
    BY SubtreeClosed
  <1>. QED
    BY <1>1, SubtreeClosed, SubtreeLeast

\* What is below a category is it or has its parent there
LEMMA ParentBelow ==
  ASSUME NEW table, NEW c \in Categories, NEW e \in Subtree(table, c), e # c
  PROVE  table[e] \in Subtree(table, c)
  <1>. SUFFICES ASSUME table[e] \notin Subtree(table, c) PROVE FALSE
    OBVIOUS
  <1>. DEFINE S == Subtree(table, c) \ {e}
  <1>1. S \in SUBSET Categories /\ c \in S
    BY SubtreeClosed
  <1>2. ASSUME NEW x \in S, NEW y \in Children(table, x)
        PROVE  y \in S
    <2>1. y \in Subtree(table, c)
      BY SubtreeClosed
    <2>2. y # e
      BY DEF Children
    <2>. QED
      BY <2>1, <2>2
  <1>3. Subtree(table, c) \subseteq S
    <2>. HIDE DEF S
    <2>. QED
      BY <1>1, <1>2, SubtreeLeast
  <1>. QED
    BY <1>3

(***************************************************************************)
(* Without the root's own edge, what is below the root is a tree.          *)
(***************************************************************************)
Cut(table, root) == [table EXCEPT ![root] = Null]

LEMMA CutEdges ==
  ASSUME NEW table \in Rows, NEW root \in Categories
  PROVE  LET edges == Cut(table, root) IN
         /\ edges[root] \notin Categories
         /\ \A c \in Categories : c # root => edges[c] = table[c]
         /\ \A c \in Categories : Children(edges, c) = Children(table, c) \ {root}
         /\ Subtree(edges, root) = Subtree(table, root)
  <1>1. PICK edges : edges = Cut(table, root)
    OBVIOUS
  <1>2. edges[root] = Null /\ \A c \in Categories : c # root => edges[c] = table[c]
    BY <1>1 DEF Cut, Rows
  <1>3. \A c \in Categories : Children(edges, c) = Children(table, c) \ {root}
    BY <1>2, Markers DEF Children
  <1>4. Subtree(edges, root) \subseteq Subtree(table, root)
    <2>1. /\ Subtree(table, root) \in SUBSET Categories /\ root \in Subtree(table, root)
          /\ \A e \in Subtree(table, root) : Children(edges, e) \subseteq Subtree(table, root)
      BY <1>3, SubtreeClosed
    <2>. QED
      BY <2>1, SubtreeLeast
  <1>5. Subtree(table, root) \subseteq Subtree(edges, root)
    <2>1. /\ Subtree(edges, root) \in SUBSET Categories /\ root \in Subtree(edges, root)
          /\ \A e \in Subtree(edges, root) : Children(edges, e) \subseteq Subtree(edges, root)
      BY SubtreeClosed
    <2>2. \A e \in Subtree(edges, root) : Children(table, e) \subseteq Subtree(edges, root)
      BY <1>3, <2>1
    <2>. QED
      BY <2>1, <2>2, SubtreeLeast
  <1>. QED
    BY <1>1, <1>2, <1>3, <1>4, <1>5, Markers

LEMMA NoCycle ==
  ASSUME NEW edges, NEW root \in Categories, edges[root] \notin Categories,
         NEW p \in Subtree(edges, root), NEW c \in Children(edges, p)
  PROVE  p \notin Subtree(edges, c)
  <1>. DEFINE S == {z \in Subtree(edges, root) :
                      \A e \in Children(edges, z) : z \notin Subtree(edges, e)}
  <1>1. S \in SUBSET Categories
    BY SubtreeClosed
  <1>2. root \in S
    <2>1. root \in Subtree(edges, root)
      BY SubtreeClosed
    <2>2. ASSUME NEW e \in Children(edges, root), root \in Subtree(edges, e)
          PROVE  FALSE
      <3>1. e \in Categories /\ edges[e] = root /\ e # root
        BY DEF Children
      <3>2. edges[root] \in Subtree(edges, e)
        BY <2>2, <3>1, ParentBelow
      <3>. QED
        BY <3>1, <3>2, SubtreeClosed
    <2>. QED
      BY <2>1, <2>2
  <1>3. ASSUME NEW z \in S, NEW w \in Children(edges, z)
        PROVE  w \in S
    <2>1. w \in Categories /\ z \in Categories /\ edges[w] = z
      BY <1>1 DEF Children
    <2>2. w \in Subtree(edges, root)
      BY SubtreeClosed
    <2>3. z \notin Subtree(edges, w)
      OBVIOUS
    <2>4. ASSUME NEW e \in Children(edges, w), w \in Subtree(edges, e)
          PROVE  FALSE
      <3>1. e \in Categories /\ edges[e] = w
        BY DEF Children
      <3>2. e \in Subtree(edges, w) /\ w \in Subtree(edges, w)
        BY <2>1, SubtreeClosed
      <3>3. e # w
        BY <2>1, <2>3, <3>1, <3>2
      <3>4. z \in Subtree(edges, e)
        BY <2>1, <2>4, <3>1, <3>3, ParentBelow
      <3>5. Subtree(edges, e) \subseteq Subtree(edges, w)
        BY <2>1, <3>2, SubtreeNested
      <3>. QED
        BY <2>3, <3>4, <3>5
    <2>. QED
      BY <2>2, <2>4
  <1>4. Subtree(edges, root) \subseteq S
    <2>. HIDE DEF S
    <2>. QED
      BY <1>1, <1>2, <1>3, SubtreeLeast
  <1>. QED
    BY <1>4

\* Two children of one category below the root, the first by name first
Siblings(edges, root, c, d) ==
  c < d /\ edges[c] = edges[d] /\ edges[c] \in Subtree(edges, root)

LEMMA Disjoint ==
  ASSUME NEW edges, NEW root \in Categories, edges[root] \notin Categories,
         NEW c \in Categories, NEW d \in Categories, Siblings(edges, root, c, d)
  PROVE  /\ edges[c] \in Categories
         /\ edges[c] \notin Subtree(edges, c) /\ edges[c] \notin Subtree(edges, d)
         /\ Subtree(edges, c) \intersect Subtree(edges, d) = {}
  <1>1. PICK p \in Subtree(edges, root) : p = edges[c] /\ p = edges[d]
    BY DEF Siblings
  <1>2. c \in Children(edges, p) /\ d \in Children(edges, p)
    BY <1>1 DEF Children
  <1>3. p \notin Subtree(edges, c) /\ p \notin Subtree(edges, d)
    BY <1>2, NoCycle
  <1>4. c # d
    BY CatalogAssumption DEF Siblings
  <1>. DEFINE S == Subtree(edges, c) \ Subtree(edges, d)
  <1>5. S \in SUBSET Categories /\ c \in S
    <2>1. Subtree(edges, c) \in SUBSET Categories /\ c \in Subtree(edges, c)
      BY SubtreeClosed
    <2>2. c \notin Subtree(edges, d)
      BY <1>1, <1>3, <1>4, ParentBelow
    <2>. QED
      BY <2>1, <2>2
  <1>6. ASSUME NEW z \in S, NEW w \in Children(edges, z)
        PROVE  w \in S
    <2>1. w \in Categories /\ edges[w] = z /\ w \in Subtree(edges, c)
      BY SubtreeClosed DEF Children
    <2>2. CASE w = d
      BY <1>1, <1>3, <2>1, <2>2
    <2>3. CASE w # d
      BY <2>1, <2>3, ParentBelow
    <2>. QED
      BY <2>1, <2>2, <2>3
  <1>7. Subtree(edges, c) \subseteq S
    <2>. HIDE DEF S
    <2>. QED
      BY <1>5, <1>6, SubtreeLeast
  <1>8. p \in Categories
    BY SubtreeClosed
  <1>. QED
    BY <1>1, <1>3, <1>7, <1>8


-----------------------------------------------------------------------------
(***************************************************************************)
(* Pre-order.  Whatever was found, other than the root, was found from its *)
(* parent, and is ordered after it.  Of two siblings, what lies below the  *)
(* first is higher on the stack than what lies below the second, and       *)
(* ordered before it.                                                      *)
(***************************************************************************)
FromParent(edges, root, s, o) ==
  /\ Range(s) \union Range(o) \subseteq Subtree(edges, root)
  /\ \A e \in Range(s) \union Range(o) : e = root \/ edges[e] \in Range(o)
  /\ Range(o) # {} => root \in Range(o)

ParentsFirst(edges, root, o) ==
  \A i \in DOMAIN o : o[i] = root \/ (\E h \in DOMAIN o : h < i /\ o[h] = edges[o[i]])

InOrder(edges, c, d, s, o) ==
  /\ \A i, j \in DOMAIN s :
       s[i] \in Subtree(edges, c) /\ s[j] \in Subtree(edges, d) => j < i
  /\ \A i \in DOMAIN s, j \in DOMAIN o :
       ~ (s[i] \in Subtree(edges, c) /\ o[j] \in Subtree(edges, d))
  /\ \A i, j \in DOMAIN o :
       o[i] \in Subtree(edges, c) /\ o[j] \in Subtree(edges, d) => i < j

AllInOrder(edges, root, s, o) ==
  \A c, d \in Categories : Siblings(edges, root, c, d) => InOrder(edges, c, d, s, o)

\* Nothing below a category is found whose parent is not ordered
LEMMA NotYetFound ==
  ASSUME NEW edges, NEW root \in Categories, edges[root] \notin Categories, NEW s, NEW o,
         FromParent(edges, root, s, o),
         NEW c \in Categories, edges[c] \in Categories, edges[c] \notin Range(o)
  PROVE  Subtree(edges, c) \intersect (Range(s) \union Range(o)) = {}
  <1>. DEFINE S == Categories \ (Range(s) \union Range(o))
  <1>1. S \in SUBSET Categories /\ c \in S
    BY DEF FromParent
  <1>2. ASSUME NEW z \in S, NEW w \in Children(edges, z)
        PROVE  w \in S
    <2>1. w \in Categories /\ edges[w] = z /\ w # root
      BY DEF Children
    <2>. QED
      BY <2>1 DEF FromParent
  <1>3. Subtree(edges, c) \subseteq S
    <2>. HIDE DEF S
    <2>. QED
      BY <1>1, <1>2, SubtreeLeast
  <1>. QED
    BY <1>3

\* What is ordered next was found from a parent that is ordered already
LEMMA AppendAfterParent ==
  ASSUME NEW edges, NEW root, NEW s, NEW o \in Seq(Categories), NEW x \in Range(s),
         FromParent(edges, root, s, o), ParentsFirst(edges, root, o),
         NEW m \in Nat, Len(o) = m, NEW p \in Seq(Categories), Len(p) = m + 1,
         p[m + 1] = x, \A i \in 1..m : p[i] = o[i]
  PROVE  ParentsFirst(edges, root, p)
  <1>1. /\ DOMAIN o = 1..m /\ DOMAIN p = 1..m + 1
        /\ \A i \in 1..m : i \in 1..m + 1 /\ i < m + 1
        /\ \A i \in 1..m + 1 : i \in 1..m \/ i = m + 1
    OBVIOUS
  <1>2. ASSUME NEW i \in 1..m, p[i] # root
        PROVE  \E h \in 1..m + 1 : h < i /\ p[h] = edges[p[i]]
    <2>1. PICK h \in 1..m : h < i /\ o[h] = edges[o[i]]
      BY <1>1, <1>2 DEF ParentsFirst
    <2>. QED
      BY <1>1, <2>1
  <1>3. ASSUME x # root
        PROVE  \E h \in 1..m + 1 : h < m + 1 /\ p[h] = edges[x]
    <2>1. edges[x] \in Range(o)
      BY <1>3 DEF FromParent
    <2>2. PICK h \in 1..m : o[h] = edges[x]
      BY <1>1, <2>1 DEF Range
    <2>. QED
      BY <1>1, <2>2
  <1>. QED
    BY <1>1, <1>2, <1>3 DEF ParentsFirst

\* Parent after parent, a category is ordered before all that lies below it
LEMMA AncestorsFirst ==
  ASSUME NEW edges, NEW root \in Categories, edges[root] \notin Categories,
         NEW o \in Seq(Categories), IsInjective(o), ParentsFirst(edges, root, o),
         NEW i \in DOMAIN o
  PROVE  \A j \in DOMAIN o : o[j] \in Subtree(edges, o[i]) => i <= j
  <1>1. DOMAIN o \in SUBSET Nat /\ \A j \in DOMAIN o : o[j] \in Categories
    OBVIOUS
  <1>2. PICK c \in Categories : c = o[i]
    BY <1>1
  <1>. DEFINE Early == {j \in DOMAIN o : j < i /\ o[j] \in Subtree(edges, c)}
  <1>. SUFFICES ASSUME Early # {} PROVE FALSE
    BY <1>1, <1>2
  <1>3. PICK j \in Early : \A h \in Early : j <= h
    <2>1. Early \in SUBSET Nat
      BY <1>1
    <2>. HIDE DEF Early
    <2>. QED
      BY <2>1, Least
  <1>4. PICK e \in Subtree(edges, c) : e = o[j] /\ e \in Categories
    BY <1>1
  <1>5. e # c
    BY <1>1, <1>2, <1>4 DEF IsInjective
  <1>6. edges[e] \in Subtree(edges, c)
    BY <1>4, <1>5, ParentBelow
  <1>7. e # root
    BY <1>6, SubtreeClosed
  <1>8. PICK h \in DOMAIN o : h < j /\ o[h] = edges[e]
    BY <1>4, <1>7 DEF ParentsFirst
  <1>9. h \in Early
    BY <1>1, <1>6, <1>8
  <1>. QED
    BY <1>1, <1>3, <1>8, <1>9

\* A category seen before is popped
LEMMA PopInOrder ==
  ASSUME NEW edges, NEW root \in Categories, NEW s \in Seq(Categories), NEW o \in Seq(Categories),
         NEW n \in Nat \ {0}, Len(s) = n, s[n] \in Range(o),
         FromParent(edges, root, s, o), AllInOrder(edges, root, s, o),
         NEW t \in Seq(Categories), Len(t) = n - 1, \A i \in 1..n - 1 : t[i] = s[i]
  PROVE  FromParent(edges, root, t, o) /\ AllInOrder(edges, root, t, o)
  <1>1. DOMAIN s = 1..n /\ DOMAIN t = 1..n - 1 /\ \A i \in 1..n - 1 : i \in 1..n
    OBVIOUS
  <1>2. Range(t) \subseteq Range(s)
    BY <1>1 DEF Range
  <1>3. FromParent(edges, root, t, o)
    BY <1>2 DEF FromParent
  <1>4. ASSUME NEW c \in Categories, NEW d \in Categories, Siblings(edges, root, c, d)
        PROVE  InOrder(edges, c, d, t, o)
    BY <1>1, <1>4 DEF AllInOrder, InOrder
  <1>. QED
    BY <1>3, <1>4 DEF AllInOrder

\* One that was not is ordered, and its children take its place
LEMMA PushInOrder ==
  ASSUME NEW edges, NEW root \in Categories, edges[root] \notin Categories,
         NEW s \in Seq(Categories), NEW o \in Seq(Categories),
         NEW n \in Nat \ {0}, Len(s) = n, NEW m \in Nat, Len(o) = m, s[n] \notin Range(o),
         FromParent(edges, root, s, o), AllInOrder(edges, root, s, o),
         NEW table, NEW K \in SUBSET (Children(edges, s[n]) \ {root}), NEW t, NEW p, NEW k,
         Pushed(table, [stack |-> s, ordered |-> o], n, m, K, t, p, k)
  PROVE  FromParent(edges, root, t, p) /\ AllInOrder(edges, root, t, p)
  <1>. /\ t \in Seq(Categories) /\ k \in Nat /\ Len(t) = n - 1 + k
       /\ \A i \in 1..n - 1 : t[i] = s[i]
       /\ \A i \in n..n - 1 + k : t[i] \in Children(edges, s[n]) \ {root}
       /\ \A i, j \in n..n - 1 + k : i < j => t[i] > t[j]
       /\ p \in Seq(Categories) /\ Len(p) = m + 1 /\ p[m + 1] = s[n]
       /\ \A i \in 1..m : p[i] = o[i]
    BY DEF Pushed
  <1>1. /\ DOMAIN s = 1..n /\ DOMAIN o = 1..m /\ DOMAIN t = 1..n - 1 + k /\ DOMAIN p = 1..m + 1
        /\ n \in 1..n /\ \A i \in 1..n - 1 : i \in 1..n /\ i < n
        /\ \A i \in 1..n - 1 + k : i \in 1..n - 1 \/ i \in n..n - 1 + k
        /\ \A i \in 1..m + 1 : i \in 1..m \/ i = m + 1
    OBVIOUS
  <1>2. PICK current \in Categories : current = s[n]
    BY <1>1
  <1>3. current \in Range(s) /\ current \notin Range(o)
    BY <1>1, <1>2 DEF Range
  <1>4. Range(p) = Range(o) \union {current}
    BY <1>2, RangeOfAppended
  <1>5. \A i \in n..n - 1 + k : t[i] \in Categories /\ edges[t[i]] = current /\ t[i] # root
    BY <1>2 DEF Children
  <1>6. \A i \in 1..n - 1 : t[i] = s[i] /\ t[i] \in Range(s)
    BY <1>1 DEF Range
  <1>7. \A x \in Range(t) : x \in Range(s) \/ (x \in Children(edges, current) /\ edges[x] = current)
    BY <1>1, <1>2, <1>5, <1>6 DEF Range
  <1>8. FromParent(edges, root, t, p)
    <2>1. Children(edges, current) \subseteq Subtree(edges, root)
      BY <1>3, SubtreeClosed DEF FromParent
    <2>2. Range(t) \union Range(p) \subseteq Subtree(edges, root)
      BY <1>3, <1>4, <1>7, <2>1 DEF FromParent
    <2>3. \A e \in Range(t) \union Range(p) : e = root \/ edges[e] \in Range(p)
      BY <1>3, <1>4, <1>7 DEF FromParent
    <2>4. root \in Range(p)
      BY <1>3, <1>4 DEF FromParent
    <2>. QED
      BY <2>2, <2>3, <2>4 DEF FromParent
  <1>9. ASSUME NEW c \in Categories, NEW d \in Categories, Siblings(edges, root, c, d)
        PROVE  InOrder(edges, c, d, t, p)
    <2>. DEFINE C == Subtree(edges, c)
                D == Subtree(edges, d)
    <2>1. /\ \A i, j \in 1..n : s[i] \in C /\ s[j] \in D => j < i
          /\ \A i \in 1..n, j \in 1..m : ~ (s[i] \in C /\ o[j] \in D)
          /\ \A i, j \in 1..m : o[i] \in C /\ o[j] \in D => i < j
      BY <1>1, <1>9 DEF AllInOrder, InOrder
    <2>2. /\ c < d /\ edges[c] = edges[d] /\ edges[c] \in Categories
          /\ edges[c] \notin C /\ edges[c] \notin D /\ C \intersect D = {}
      BY <1>9, Disjoint DEF Siblings
    <2>3. edges[c] = current => C \intersect (Range(s) \union Range(o)) = {}
                                /\ D \intersect (Range(s) \union Range(o)) = {}
      <3>1. ASSUME NEW e \in Categories, edges[e] = current
            PROVE  Subtree(edges, e) \intersect (Range(s) \union Range(o)) = {}
        BY <1>3, <3>1, NotYetFound
      <3>. QED
        BY <2>2, <3>1
    <2>4. ASSUME NEW i \in n..n - 1 + k
          PROVE  /\ t[i] \in C => t[i] = c \/ current \in C
                 /\ t[i] \in D => t[i] = d \/ current \in D
      <3>1. PICK e \in Categories : e = t[i] /\ edges[e] = current
        BY <1>5
      <3>2. e \in C => e = c \/ current \in C
        BY <3>1, ParentBelow
      <3>3. e \in D => e = d \/ current \in D
        BY <3>1, ParentBelow
      <3>. HIDE DEF C, D
      <3>. QED
        BY <3>1, <3>2, <3>3
    <2>5. \A i \in 1..n - 1 : s[i] \in Range(s)
      BY <1>1 DEF Range
    <2>6. \A j \in 1..m : o[j] \in Range(o)
      BY <1>1 DEF Range
    <2>. HIDE DEF C, D
    <2>7. ASSUME NEW i \in 1..n - 1 + k, NEW j \in 1..n - 1 + k, t[i] \in C, t[j] \in D
          PROVE  j < i
      <3>1. CASE i \in 1..n - 1 /\ j \in 1..n - 1
        BY <1>1, <1>6, <2>1, <2>7, <3>1
      <3>2. CASE i \in n..n - 1 + k /\ j \in 1..n - 1
        BY <3>2
      <3>3. CASE i \in 1..n - 1 /\ j \in n..n - 1 + k
        <4>1. t[j] # d
          BY <1>5, <1>6, <2>2, <2>3, <2>7, <3>3
        <4>2. current \in D
          BY <2>4, <2>7, <3>3, <4>1
        <4>3. n < i
          BY <1>1, <1>2, <1>6, <2>1, <2>7, <3>3, <4>2
        <4>. QED
          BY <3>3, <4>3
      <3>4. CASE i \in n..n - 1 + k /\ j \in n..n - 1 + k
        <4>1. current \notin C \/ current \notin D
          BY <2>2
        <4>2. t[i] = c /\ t[j] = d
          BY <1>5, <2>2, <2>4, <2>7, <3>4, <4>1
        <4>3. c \in Nat /\ d \in Nat
          BY CatalogAssumption
        <4>4. ~ (i < j) /\ i # j
          BY <2>2, <3>4, <4>2, <4>3
        <4>. QED
          BY <3>4, <4>4
      <3>. QED
        BY <1>1, <3>1, <3>2, <3>3, <3>4
    <2>8. ASSUME NEW i \in 1..n - 1 + k, NEW j \in 1..m + 1, t[i] \in C, p[j] \in D
          PROVE  FALSE
      <3>1. CASE i \in 1..n - 1 /\ j \in 1..m
        BY <1>1, <1>6, <2>1, <2>8, <3>1
      <3>2. CASE i \in 1..n - 1 /\ j = m + 1
        <4>1. n < i
          BY <1>1, <1>2, <1>6, <2>1, <2>8, <3>2
        <4>. QED
          BY <3>2, <4>1
      <3>3. CASE i \in n..n - 1 + k /\ j \in 1..m
        <4>1. t[i] # c
          BY <1>5, <2>3, <2>6, <2>8, <3>3
        <4>2. current \in C
          BY <2>4, <2>8, <3>3, <4>1
        <4>. QED
          BY <1>1, <1>2, <2>1, <2>8, <3>3, <4>2
      <3>4. CASE i \in n..n - 1 + k /\ j = m + 1
        <4>1. current \in D
          BY <1>2, <2>8, <3>4
        <4>2. current \notin C /\ t[i] # c
          BY <1>5, <2>2, <3>4, <4>1
        <4>. QED
          BY <2>4, <2>8, <3>4, <4>2
      <3>. QED
        BY <1>1, <3>1, <3>2, <3>3, <3>4
    <2>9. ASSUME NEW i \in 1..m + 1, NEW j \in 1..m + 1, p[i] \in C, p[j] \in D
          PROVE  i < j
      <3>1. CASE i \in 1..m /\ j \in 1..m
        BY <2>1, <2>9, <3>1
      <3>2. CASE i = m + 1 /\ j \in 1..m
        BY <1>1, <1>2, <2>1, <2>9, <3>2
      <3>3. CASE i \in 1..m /\ j = m + 1
        BY <3>3
      <3>4. CASE i = m + 1 /\ j = m + 1
        BY <2>2, <2>9, <3>4
      <3>. QED
        BY <1>1, <3>1, <3>2, <3>3, <3>4
    <2>. QED
      BY <1>1, <2>7, <2>8, <2>9 DEF InOrder, C, D
  <1>. QED
    BY <1>8, <1>9 DEF AllInOrder


PreOrdered(edges, root) ==
  {at \in Loop : /\ FromParent(edges, root, at.stack, at.ordered)
                 /\ AllInOrder(edges, root, at.stack, at.ordered)
                 /\ ParentsFirst(edges, root, at.ordered)}

LEMMA TurnInOrder ==
  ASSUME NEW table \in Rows, NEW root \in Categories, NEW edges, edges = Cut(table, root),
         NEW at \in PreOrdered(edges, root), at.stack # << >>
  PROVE  Turn(table, at) \in PreOrdered(edges, root)
  <1>1. edges[root] \notin Categories /\ \A c \in Categories : Children(edges, c) = Children(table, c) \ {root}
    BY CutEdges
  <1>2. at \in Loop
    BY DEF PreOrdered
  <1>3. PICK next : next = Turn(table, at)
    OBVIOUS
  <1>4. PICK s \in Seq(Categories), o \in Seq(Categories) : s = at.stack /\ o = at.ordered
    BY <1>2 DEF Loop
  <1>5. PICK n \in Nat \ {0} : n = Len(s)
    BY <1>4
  <1>6. PICK m \in Nat : m = Len(o)
    OBVIOUS
  <1>7. /\ FromParent(edges, root, s, o) /\ AllInOrder(edges, root, s, o)
        /\ ParentsFirst(edges, root, o)
    BY <1>4 DEF PreOrdered
  <1>8. CASE s[n] \in Range(o)
    <2>1. /\ next \in Loop /\ next.ordered = o
          /\ Len(next.stack) = n - 1 /\ \A i \in 1..n - 1 : next.stack[i] = s[i]
      <3>1. Len(at.stack) = n /\ at.stack[n] \in Range(at.ordered)
        BY <1>4, <1>5, <1>8
      <3>2. /\ next \in Loop /\ next.ordered = at.ordered
            /\ Len(next.stack) = n - 1 /\ \A i \in 1..n - 1 : next.stack[i] = at.stack[i]
        BY <1>2, <1>3, <3>1, Pops
      <3>. QED
        BY <1>4, <3>2
    <2>2. PICK t \in Seq(Categories) : t = next.stack
      BY <2>1 DEF Loop
    <2>3. FromParent(edges, root, t, o) /\ AllInOrder(edges, root, t, o)
      BY <1>5, <1>7, <1>8, <2>1, <2>2, PopInOrder
    <2>. QED
      BY <1>3, <1>7, <2>1, <2>2, <2>3 DEF PreOrdered
  <1>9. CASE s[n] \notin Range(o)
    <2>1. PICK K : K = Children(table, s[n]) \ (Range(o) \union {s[n]})
      OBVIOUS
    <2>2. PICK t, p, k : Pushed(table, at, n, m, K, t, p, k)
      BY <1>2, <1>4, <1>5, <1>6, <1>9, <2>1, Pushes
    <2>3. s[n] \in Categories /\ s[n] \in Range(s)
      BY <1>5 DEF Range
    <2>4. K \subseteq Children(edges, s[n]) \ {root}
      <3>1. root \in Range(o) \union {s[n]}
        BY <1>7, <2>3 DEF FromParent
      <3>. QED
        BY <1>1, <2>1, <2>3, <3>1
    <2>5. at = [stack |-> s, ordered |-> o]
      BY <1>2, <1>4 DEF Loop
    <2>6. Pushed(table, [stack |-> s, ordered |-> o], n, m, K, t, p, k)
      BY <2>2, <2>5
    <2>7. FromParent(edges, root, t, p) /\ AllInOrder(edges, root, t, p)
      <3>1. edges[root] \notin Categories /\ Len(s) = n /\ Len(o) = m
        BY <1>1, <1>5, <1>6
      <3>. QED
        BY <1>7, <1>9, <2>4, <2>6, <3>1, PushInOrder
    <2>8. ParentsFirst(edges, root, p)
      <3>1. /\ p \in Seq(Categories) /\ Len(p) = m + 1 /\ p[m + 1] = s[n]
            /\ \A i \in 1..m : p[i] = o[i]
        BY <2>6 DEF Pushed
      <3>. QED
        BY <1>6, <1>7, <2>3, <3>1, AppendAfterParent
    <2>9. next = [stack |-> t, ordered |-> p]
      BY <1>3, <2>2 DEF Pushed
    <2>. QED
      BY <1>3, <2>2, <2>7, <2>8, <2>9 DEF PreOrdered, Loop, Pushed
  <1>. QED
    BY <1>8, <1>9

LEMMA TraversalPreOrdered ==
  ASSUME NEW table \in Rows, NEW root \in Categories, NEW edges, edges = Cut(table, root),
         NEW ids, ids = DescendantIds(table, root)
  PROVE  \E end \in PreOrdered(edges, root) : ids = end.ordered
  <1>1. PICK f : Ends(table, f) /\ ids = f[[stack |-> <<root>>, ordered |-> << >>]]
    BY TraversalEnds
  <1>2. PICK start : start = [stack |-> <<root>>, ordered |-> << >>]
    OBVIOUS
  <1>3. start \in PreOrdered(edges, root)
    <2>1. start \in Loop /\ Range(start.stack) = {root} /\ Range(start.ordered) = {}
      BY <1>2, StartLoop
    <2>2. FromParent(edges, root, start.stack, start.ordered)
      BY <2>1, SubtreeClosed DEF FromParent
    <2>3. ASSUME NEW x \in Categories, NEW y \in Categories, Siblings(edges, root, x, y)
          PROVE  InOrder(edges, x, y, start.stack, start.ordered)
      <3>1. edges[root] \notin Categories
        BY CutEdges
      <3>2. Subtree(edges, x) \intersect Subtree(edges, y) = {}
        BY <2>3, <3>1, Disjoint
      <3>3. DOMAIN start.stack = 1..1 /\ start.stack[1] = root /\ DOMAIN start.ordered = {}
        BY <1>2
      <3>. QED
        BY <3>2, <3>3 DEF InOrder
    <2>4. ParentsFirst(edges, root, start.ordered)
      BY <1>2 DEF ParentsFirst
    <2>. QED
      BY <2>1, <2>2, <2>3, <2>4 DEF PreOrdered, AllInOrder
  <1>4. PreOrdered(edges, root) \in SUBSET Loop
    BY DEF PreOrdered
  <1>5. \A at \in PreOrdered(edges, root) : at.stack # << >> => Turn(table, at) \in PreOrdered(edges, root)
    BY TurnInOrder
  <1>6. \A at \in PreOrdered(edges, root) :
          \E end \in PreOrdered(edges, root) : end.stack = << >> /\ f[at] = end.ordered
    BY <1>1, <1>4, <1>5, Along
  <1>. QED
    BY <1>1, <1>2, <1>3, <1>6

LEMMA TraversalIsPreOrder ==
  ASSUME NEW table \in Rows, NEW root \in Categories, NEW edges, edges = Cut(table, root),
         NEW ids, ids = DescendantIds(table, root), NEW i \in DOMAIN ids, NEW j \in DOMAIN ids
  PROVE  /\ ids[j] \in Subtree(edges, ids[i]) => i <= j
         /\ \A c, d \in Categories :
              ( /\ Siblings(edges, root, c, d)
                /\ ids[i] \in Subtree(edges, c) /\ ids[j] \in Subtree(edges, d) ) => i < j
  <1>1. PICK end \in PreOrdered(edges, root) : ids = end.ordered
    BY TraversalPreOrdered
  <1>2. /\ ids \in Seq(Categories) /\ ParentsFirst(edges, root, ids)
        /\ AllInOrder(edges, root, end.stack, ids)
    BY <1>1 DEF PreOrdered, Loop
  <1>3. edges[root] \notin Categories
    BY CutEdges
  <1>4. IsInjective(ids)
    BY TraversalIsExact
  <1>5. ids[j] \in Subtree(edges, ids[i]) => i <= j
    BY <1>2, <1>3, <1>4, AncestorsFirst
  <1>6. ASSUME NEW c \in Categories, NEW d \in Categories, Siblings(edges, root, c, d)
        PROVE  InOrder(edges, c, d, end.stack, ids)
    BY <1>2, <1>6 DEF AllInOrder
  <1>. QED
    BY <1>5, <1>6 DEF InOrder

-----------------------------------------------------------------------------
(***************************************************************************)
(* The recommendations of a product are looked for in its root category    *)
(* and in each category below it, once, whatever table staff have left,    *)
(* cycles included, and the traversal stops (descendant_category_ids).     *)
(***************************************************************************)
THEOREM TraversalAlwaysExact == Spec => []TraversalExact
  <1>1. TypeOK => TraversalExact
    BY TraversalIsExact DEF TypeOK, TraversalExact
  <1>. QED
    BY <1>1, CatalogTyped, PTL

(***************************************************************************)
(* They are ranked in pre-order: a category comes before all that is below *)
(* it, and of two categories under one, all that is below the first by     *)
(* name comes before all that is below the second                          *)
(* (descendant_category_ids, which appends a category as it is popped and  *)
(* pushes its children from last to first).                                *)
(***************************************************************************)
THEOREM TraversalAlwaysPreOrder == Spec => []PreOrder
  <1>1. ASSUME TypeOK, NEW root \in Categories
        PROVE  LET ids   == DescendantIds(rows, root)
                   edges == [rows EXCEPT ![root] = Null]
               IN \A i, j \in DOMAIN ids :
                    /\ ids[j] \in Subtree(edges, ids[i]) => i <= j
                    /\ \A c, d \in Categories :
                         ( /\ edges[c] = edges[d] /\ edges[c] \in Range(ids) /\ c < d
                           /\ ids[i] \in Subtree(edges, c) /\ ids[j] \in Subtree(edges, d) ) => i < j
    <2>1. rows \in Rows
      BY <1>1 DEF TypeOK
    <2>2. PICK edges : edges = Cut(rows, root)
      OBVIOUS
    <2>3. PICK ids : ids = DescendantIds(rows, root)
      OBVIOUS
    <2>4. Range(ids) = Subtree(edges, root)
      BY <2>1, <2>2, <2>3, TraversalIsExact, CutEdges
    <2>5. ASSUME NEW i \in DOMAIN ids, NEW j \in DOMAIN ids
          PROVE  /\ ids[j] \in Subtree(edges, ids[i]) => i <= j
                 /\ \A c, d \in Categories :
                      ( /\ Siblings(edges, root, c, d)
                        /\ ids[i] \in Subtree(edges, c) /\ ids[j] \in Subtree(edges, d) ) => i < j
      BY <2>1, <2>2, <2>3, TraversalIsPreOrder
    <2>6. ASSUME NEW c \in Categories, NEW d \in Categories,
                 edges[c] = edges[d], edges[c] \in Range(ids), c < d
          PROVE  Siblings(edges, root, c, d)
      BY <2>4, <2>6 DEF Siblings
    <2>. QED
      BY <2>2, <2>3, <2>5, <2>6 DEF Cut
  <1>2. TypeOK => PreOrder
    BY <1>1 DEF PreOrder
  <1>. QED
    BY <1>2, CatalogTyped, PTL
=============================================================================
