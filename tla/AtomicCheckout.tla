--------------------------- MODULE AtomicCheckout ---------------------------
(***************************************************************************)
(* What the order service promises: a checkout is one step.  "In a single  *)
(* atomic transaction: create the Order + OrderItems, decrement product    *)
(* stock for each item, mark the coupon as used, and clear the cart.  If   *)
(* any step fails the whole checkout rolls back - no partial orders, no    *)
(* negative stock." (apps/orders/services.py)                              *)
(***************************************************************************)
EXTENDS Storefront

\* The whole cart, at the prices of one moment, out of one stock.  The units leave the stock
\* here, as apps/orders/services.py:8 says, and not "on successful payment", as README.md:196 of
\* the repository does.
PlaceOrder(u, number) ==
  /\ HasItems(u)
  /\ \A p \in Products : items[u][p] <= product[p].stock
  /\ number \notin {o.number : o \in orders}
  /\ orders' = orders \cup
       {[number |-> number, user |-> u, coupon |-> applied[u],
         granted |-> Granted(applied[u]),
         quoted |-> PricedLines(u), lines |-> PricedLines(u)]}
  /\ product' = [p \in Products |->
       IF items[u][p] > 0
       THEN Decreased(product[p], items[u][p])
       ELSE product[p]]
  /\ times_used' = [c \in Coupons |->
       IF c = applied[u] THEN times_used[c] + 1 ELSE times_used[c]]
  /\ items' = [items EXCEPT ![u] = [p \in Products |-> 0]]
  /\ applied' = [applied EXCEPT ![u] = None]
  /\ UNCHANGED open

SetPrice(p, price) ==
  /\ product' = [product EXCEPT ![p] = Saved([product[p] EXCEPT !.price = price])]
  /\ UNCHANGED <<items, applied, times_used, orders, open>>

Next ==
  \/ CartRequest
  \/ \E u \in Users, number \in OrderNumbers : PlaceOrder(u, number)
  \/ \E p \in Products, price \in Prices : SetPrice(p, price)
  \/ \E x \in Timed : WindowEdge(x)

Spec == StoreInit /\ [][Next]_storeVars
=============================================================================
