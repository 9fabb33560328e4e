---------------------------- MODULE OrderLedger ----------------------------
(***************************************************************************)
(* What the ordering system promises about goods: an order is sold at most *)
(* once, a sale takes exactly the order's lines from stock, in one step,   *)
(* and only if they are there.  Nothing else moves stock.                  *)
(*                                                                         *)
(* This is the abstract specification that Checkout implements; it says    *)
(* nothing of carts, payments, providers, locks or time.                   *)
(***************************************************************************)
EXTENDS Integers

CONSTANTS
  Products,
  OrderIds,
  Lines,              \* the order lines there can be: units of each product
  InitialStock        \* units of each product at the start

VARIABLES
  stock,              \* Product.stock
  sale                \* the lines sold to each order, Nothing while unsold

ledgerVars == <<stock, sale>>

\* No units of any product
Nothing == [p \in Products |-> 0]

Init ==
  /\ stock = InitialStock
  /\ sale = [o \in OrderIds |-> Nothing]

Sell(o, lines) ==
  /\ sale[o] = Nothing
  /\ lines # Nothing
  /\ \A p \in Products : lines[p] <= stock[p]
  /\ stock' = [p \in Products |-> stock[p] - lines[p]]
  /\ sale' = [sale EXCEPT ![o] = lines]

Next == \E o \in OrderIds : \E lines \in Lines : Sell(o, lines)

Spec == Init /\ [][Next]_ledgerVars
=============================================================================
