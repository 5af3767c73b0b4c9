------------------------------ MODULE MCArchive ------------------------------
(* Items with two prices, and one without a price for larger instances.    *)
EXTENDS Archive

CONSTANTS i1, i2, i3

MCPrice == [i \in Items |-> CASE i = i1 -> 1 [] i = i2 -> 2 [] i = i3 -> 0]
=============================================================================
