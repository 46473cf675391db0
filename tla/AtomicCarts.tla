---------------------------- MODULE AtomicCarts ----------------------------
(***************************************************************************)
(* What the cart service promises: every owner, a user or an anonymous     *)
(* session, has one bag of products, and every request changes one bag in  *)
(* one step.  Logging in moves the session's bag into the user's.          *)
(***************************************************************************)
EXTENDS Naturals

CONSTANTS Users, Sessions, Products, MaxQuantity

Owners == Users \cup Sessions

VARIABLE bag \* [Owners -> [Products -> Nat]]

EmptyBag == [p \in Products |-> 0]

Init == bag = [o \in Owners |-> EmptyBag]

Put(o, p, quantity) == bag' = [bag EXCEPT ![o][p] = quantity]

Add(o, p, q) == Put(o, p, bag[o][p] + q)

\* Updating and removing are of products that are in the bag.
Change(o, p, q) == bag[o][p] > 0 /\ Put(o, p, q)

Clear(o) == bag' = [bag EXCEPT ![o] = EmptyBag]

\* "Summing quantities for products present in both."
Merge(s, u) ==
  bag' = [bag EXCEPT ![s] = EmptyBag, ![u] = [p \in Products |-> bag[u][p] + bag[s][p]]]

Next ==
  \/ \E o \in Owners, p \in Products, q \in 1 .. MaxQuantity : Add(o, p, q) \/ Change(o, p, q)
  \/ \E o \in Owners, p \in Products : Change(o, p, 0)
  \/ \E o \in Owners : Clear(o)
  \/ \E s \in Sessions, u \in Users : Merge(s, u)

Spec == Init /\ [][Next]_bag
=============================================================================
