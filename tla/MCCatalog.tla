----------------------------- MODULE MCCatalog -----------------------------
(***************************************************************************)
(* Values of the constants of Catalog for TLC.                             *)
(***************************************************************************)
EXTENDS Catalog

\* A root with a child, and a category that is yet to be created
RootAndChild == [c \in Categories |-> CASE c = 1 -> Null [] c = 2 -> 1 [] OTHER -> Unborn]
=============================================================================
