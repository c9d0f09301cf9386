---------------------------- MODULE MCInventory ----------------------------
(***************************************************************************)
(* Inventory for TLC: products, orders and workers are interchangeable.     *)
(* Its runs check safety only.                                             *)
(***************************************************************************)
EXTENDS Inventory, TLC

Symmetry == Permutations(Products) \cup Permutations(Orders) \cup Permutations(Workers)

=============================================================================
