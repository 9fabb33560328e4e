----------------------------- MODULE MCCheckout -----------------------------
(***************************************************************************)
(* Values of the constants of Checkout for TLC.                            *)
(***************************************************************************)
EXTENDS Checkout, TLC

CONSTANTS r1, r2

WorkerSymmetry == Permutations({r1, r2})

\* One product, one unit of it in stock
OneUnit == [p \in Products |-> 1]

\* No payment left over from the deferred flow
NoLegacyRows == [p \in {} |-> NoPayment]

\* One payment left over from the deferred flow
OneLegacyRow ==
  [p \in {1} |-> [status |-> "pending", order |-> None,
                  user |-> CHOOSE u \in Users : TRUE,
                  provider |-> "stripe",
                  snapshot |-> [q \in Products |-> 1]]]
=============================================================================
