-------------------------- MODULE AtomicWishlists --------------------------
(***************************************************************************)
(* What the wishlist service promises: every user has one set of products, *)
(* a request changes it by one product in one step, and a product that is  *)
(* deleted leaves every set.                                               *)
(***************************************************************************)
CONSTANTS Users, Products

VARIABLES
  existing,  \* the products there are
  wished     \* [Users -> SUBSET existing]

vars == <<existing, wished>>

Init ==
  /\ existing = Products
  /\ wished = [u \in Users |-> {}]

Add(u, p) ==
  /\ p \in existing
  /\ wished' = [wished EXCEPT ![u] = @ \cup {p}]
  /\ UNCHANGED existing

Remove(u, p) ==
  /\ wished' = [wished EXCEPT ![u] = @ \ {p}]
  /\ UNCHANGED existing

Discontinue(p) ==
  /\ existing' = existing \ {p}
  /\ wished' = [u \in Users |-> wished[u] \ {p}]

Next ==
  \/ \E u \in Users, p \in Products : Add(u, p) \/ Remove(u, p)
  \/ \E p \in Products : Discontinue(p)

Spec == Init /\ [][Next]_vars
=============================================================================
