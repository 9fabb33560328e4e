------------------------------- MODULE MCCart -------------------------------
(***************************************************************************)
(* Values of the constants of Cart for TLC.                                *)
(***************************************************************************)
EXTENDS Cart

CONSTANTS a, b

\* Of a two, so that an increment of a line there is can pass the check
TwoOfA == [p \in Products |-> IF p = a THEN 2 ELSE 1]

One(p) == [product |-> p, quantity |-> 1]

JustA == {One(a)}

\* Two products, in both orders
BothOrders == {<<One(a), One(b)>>, <<One(b), One(a)>>}
=============================================================================
