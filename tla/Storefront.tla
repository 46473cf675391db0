----------------------------- MODULE Storefront -----------------------------
(***************************************************************************)
(* The committed rows of the shop that a checkout reads and writes, and    *)
(* the requests of the cart API, each of which is one transaction on one   *)
(* cart.  AtomicCheckout adds a checkout that is one step; Checkout adds   *)
(* the checkout the order service runs, statement by statement.            *)
(*                                                                         *)
(* Every user here has exactly one cart, so a cart is named by its user.   *)
(***************************************************************************)
EXTENDS Pricing, FiniteSets

CONSTANTS
  Products,        \* the ids of the active products
  Users,           \* the customers
  Shoppers,        \* the customers who still change their carts: a bound
  Coupons,         \* the ids of the coupons
  OrderNumbers,    \* the order numbers the generator can draw: a bound
  None,            \* "no coupon", "no user", "no number": Python's None
  InitialStock,    \* [Products -> Nat]
  InitialPrice,    \* [Products -> Nat], in cents
  InitialItems,    \* [Users -> [Products -> Nat]], 0 for "not in the cart"
  InitialCoupon,   \* [Users -> Coupons \cup {None}], the coupon on each cart
  InitiallyOpen,   \* the products on sale and the coupons valid at the start
  Timed,           \* the products and coupons whose window opens or closes
  Percentage,      \* [Products -> Nat], the discount while on sale
  MaxUses,         \* [Coupons -> Nat], Coupon.max_uses
  MaxQuantity,     \* the largest quantity of a cart line: a bound
  Prices           \* the prices staff may set: a bound

ASSUME DisjointIdsAssumption ==
  None \notin Products \cup Users \cup Coupons \cup OrderNumbers
ASSUME CatalogueAssumption ==
  /\ InitialStock \in [Products -> Nat]
  /\ InitialPrice \in [Products -> Nat]
  /\ Percentage \in [Products -> Nat]
  /\ Prices \subseteq Nat
ASSUME CartAssumption ==
  /\ Shoppers \subseteq Users
  /\ MaxQuantity \in Nat
  /\ InitialItems \in [Users -> [Products -> 0 .. MaxQuantity]]
  /\ InitialCoupon \in [Users -> Coupons \cup {None}]
  /\ MaxUses \in [Coupons -> Nat]
ASSUME WindowAssumption ==
  /\ InitiallyOpen \subseteq Products \cup Coupons
  /\ Timed \subseteq Products \cup Coupons

VARIABLES
  product,     \* [Products -> ProductRow], the products table
  items,       \* [Users -> [Products -> Nat]], the cart items
  applied,     \* [Users -> Coupons \cup {None}], Cart.coupon
  times_used,  \* [Coupons -> Nat], Coupon.times_used
  orders,      \* the set of committed orders, with their items
  open         \* the products on sale, and the coupons inside their window

storeVars == <<product, items, applied, times_used, orders, open>>

-----------------------------------------------------------------------------
ProductRow == [stock : Nat, price : Nat, is_in_stock : BOOLEAN]

Line == [quantity : Nat, unit_price : Int]

NoLines == [p \in Products |-> [quantity |-> 0, unit_price |-> 0]]

\* `quoted` is what subtotal, discount, tax and total were computed from;
\* `lines` are the OrderItem rows; `granted` is the coupon whose
\* discount they include, `coupon` the one the order is recorded with.
Order ==
  [number : OrderNumbers, user : Users, coupon : Coupons \cup {None},
   granted : Coupons \cup {None}, quoted : [Products -> Line], lines : [Products -> Line]]

StoreTypeOK ==
  /\ product \in [Products -> ProductRow]
  /\ items \in [Users -> [Products -> 0 .. MaxQuantity]]
  /\ applied \in [Users -> Coupons \cup {None}]
  /\ times_used \in [Coupons -> Nat]
  /\ orders \subseteq Order
  /\ open \subseteq Products \cup Coupons

\* Product.save: the row as it is written, its flag recomputed.
Saved(r) == [r EXCEPT !.is_in_stock = r.stock > 0]

\* ProductService.decrease_stock's new row.
Decreased(r, quantity) == Saved([r EXCEPT !.stock = r.stock - quantity])

HasItems(u) == \E p \in Products : items[u][p] > 0

\* CartItem.product's price now, after an active discount.
UnitPrice(p, price) ==
  EffectivePrice(price, IF p \in open THEN Percentage[p] ELSE 0)

\* The lines of a cart at today's prices.
PricedLines(u) ==
  [p \in Products |->
     IF items[u][p] > 0
     THEN [quantity |-> items[u][p], unit_price |-> UnitPrice(p, product[p].price)]
     ELSE NoLines[p]]

\* A mutant of IsValidNow: the limit is passed before it is noticed.
LooseIsValidNow(c) == c \in open /\ times_used[c] <= MaxUses[c]

\* Coupon.is_valid_now.
IsValidNow(c) == c \in open /\ times_used[c] < MaxUses[c]

\* CartService.coupon_discount: the coupon on the cart gives its discount if it
\* is valid, and is no error otherwise.
Granted(c) == IF c # None /\ IsValidNow(c) THEN c ELSE None

\* The orders a coupon is recorded on.
OrdersWith(c) == {o \in orders : o.coupon = c}

-----------------------------------------------------------------------------
StoreInit ==
  /\ product = [p \in Products |->
       [stock |-> InitialStock[p], price |-> InitialPrice[p],
        is_in_stock |-> InitialStock[p] > 0]]
  /\ items = InitialItems
  /\ applied = InitialCoupon
  /\ times_used = [c \in Coupons |-> 0]
  /\ orders = {}
  /\ open = InitiallyOpen

\* CartService.add_item: an out-of-stock product is refused; the quantity is
\* not compared with the stock.
AddItem(u, p, q) ==
  /\ product[p].is_in_stock
  /\ items[u][p] + q <= MaxQuantity
  /\ items' = [items EXCEPT ![u][p] = @ + q]
  /\ UNCHANGED <<product, applied, times_used, orders, open>>

\* CartService.update_item and remove_item, of an item that is in the cart.
UpdateItem(u, p, q) ==
  /\ items[u][p] > 0
  /\ items' = [items EXCEPT ![u][p] = q]
  /\ UNCHANGED <<product, applied, times_used, orders, open>>

RemoveItem(u, p) ==
  /\ items[u][p] > 0
  /\ items' = [items EXCEPT ![u][p] = 0]
  /\ UNCHANGED <<product, applied, times_used, orders, open>>

\* CartService.clear, as the cart API calls it.
ClearCart(u) ==
  /\ items' = [items EXCEPT ![u] = [p \in Products |-> 0]]
  /\ applied' = [applied EXCEPT ![u] = None]
  /\ UNCHANGED <<product, times_used, orders, open>>

\* CartService.apply_coupon and remove_coupon.
ApplyCoupon(u, c) ==
  /\ IsValidNow(c)
  /\ applied' = [applied EXCEPT ![u] = c]
  /\ UNCHANGED <<product, items, times_used, orders, open>>

RemoveCoupon(u) ==
  /\ applied' = [applied EXCEPT ![u] = None]
  /\ UNCHANGED <<product, items, times_used, orders, open>>

CartRequest ==
  \E u \in Shoppers :
    \/ \E p \in Products, q \in 1 .. MaxQuantity : AddItem(u, p, q) \/ UpdateItem(u, p, q)
    \/ \E p \in Products : RemoveItem(u, p)
    \/ ClearCart(u)
    \/ \E c \in Coupons : ApplyCoupon(u, c)
    \/ RemoveCoupon(u)

\* The validity window of a discount or of a coupon opens or closes.
WindowEdge(x) ==
  /\ open' = IF x \in open THEN open \ {x} ELSE open \cup {x}
  /\ UNCHANGED <<product, items, applied, times_used, orders>>
=============================================================================
