---------------------------- MODULE MCCatalogue ----------------------------
(***************************************************************************)
(* An instance of Catalogue with room for one parent and one child, one    *)
(* brand, and a product and a review that are deleted and written anew.    *)
(***************************************************************************)
EXTENDS Catalogue, TLC

CONSTANTS c1, c2, b1, p1, p2, r1, r2, tv, hifi, slug_tv, slug_hifi, sku, ann, w1, w2

Slugified ==
  [n \in CategoryNames \cup BrandNames |-> IF n = hifi THEN slug_hifi ELSE slug_tv]

Symmetry ==
  Permutations(Categories) \cup Permutations(Products) \cup Permutations(Reviews)
    \cup Permutations(Workers)
=============================================================================
