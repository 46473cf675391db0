----------------------------- MODULE MCCheckout -----------------------------
(***************************************************************************)
(* Instances of Checkout.  The products and the users are model values;    *)
(* the functions over them are given here.                                 *)
(***************************************************************************)
EXTENDS Checkout, TLC

CONSTANTS p1, p2, u1, u2, c1, w1, w2, n1, n2, n3

\* Workers, order numbers and, where every cart starts the same, users are
\* interchangeable.
Symmetry ==
  Permutations(Workers) \cup Permutations(OrderNumbers) \cup Permutations(Users)

\* One unit of each product, and both users have both in their carts with the same
\* coupon, which is good for one order.
OneEach == [p \in Products |-> 1]
BothInBothCarts == [u \in Users |-> [p \in Products |-> 1]]
FirstInBothCarts == [u \in Users |-> [p \in Products |-> IF p = p1 THEN 1 ELSE 0]]
CouponOnEveryCart == [u \in Users |-> CHOOSE c \in Coupons : TRUE]
NoCoupons == [u \in Users |-> None]
TenEuros == [p \in Products |-> 1000]
QuarterOff == [p \in Products |-> 2500]
Once == [c \in Coupons |-> 1]
Two == [p \in Products |-> 2]
FirstOnSale == {p1} \cup Coupons
=============================================================================
