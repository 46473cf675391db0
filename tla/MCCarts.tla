------------------------------ MODULE MCCarts ------------------------------
(***************************************************************************)
(* An instance of SerialCarts with two workers.  The rows of a table are   *)
(* interchangeable.                                                        *)
(***************************************************************************)
EXTENDS SerialCarts, TLC

CONSTANTS u1, s1, p1, p2, c1, c2, i1, i2, i3, i4, w1, w2

Symmetry == Permutations(CartIds) \cup Permutations(ItemIds) \cup Permutations(Workers)
=============================================================================
