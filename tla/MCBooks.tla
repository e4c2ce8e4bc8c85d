------------------------------ MODULE MCBooks ------------------------------
(* A small basket with prices, for TLC. *)
EXTENDS MCShop, Books

\* Different, so that no two sets of items cost the same.
Prices == [i \in Items |-> i]
=============================================================================
