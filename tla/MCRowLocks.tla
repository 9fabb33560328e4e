----------------------------- MODULE MCRowLocks -----------------------------
(***************************************************************************)
(* Values of the constants of RowLocks for TLC.                            *)
(***************************************************************************)
EXTENDS RowLocks

CONSTANTS a, b, w1, w2

OneUnit == [q \in Products |-> 1]

One(q) == [product |-> q, quantity |-> 1]

\* Both products, listed in either order
BothOrders == {<<One(a), One(b)>>, <<One(b), One(a)>>}

\* Every transaction of w1 ends, and so every transaction: nothing tells the
\* workers apart, and one of them halves the work of TLC
TransactionsEnd == TransactionEnds(w1)
=============================================================================
