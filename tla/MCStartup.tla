----------------------------- MODULE MCStartup -----------------------------
(***************************************************************************)
(* Values of the constants of Startup for TLC: a root with one category    *)
(* below it and one product in that.                                       *)
(***************************************************************************)
EXTENDS Startup

SmallTree == <<[name |-> "Home", parent |-> 0], [name |-> "Kitchen", parent |-> 1]>>

OneSample == <<[sku |-> "KIT-001", category |-> 2]>>
=============================================================================
