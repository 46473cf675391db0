---------------------------- MODULE MCWishlists ----------------------------
(***************************************************************************)
(* An instance of Wishlists: two requests at a time of two users, or of    *)
(* one, and two products, so that what one request does to a product can   *)
(* be told from what it does to the others on the list.                    *)
(***************************************************************************)
EXTENDS Wishlists

CONSTANTS u1, u2, p1, p2, l1, l2, w1, w2
=============================================================================
