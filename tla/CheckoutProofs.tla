--------------------------- MODULE CheckoutProofs ---------------------------
(***************************************************************************)
(* Proofs about Checkout, for every set of products, users, coupons and    *)
(* workers: its types, that the stock always covers the sales, that every  *)
(* order is confirmed and every use of a coupon counted; and, with one     *)
(* worker, that a checkout is the single step AtomicCheckout promises.     *)
(***************************************************************************)
EXTENDS Checkout, FiniteSetTheorems, TLAPS

\* The assumptions about the constants that the proofs use.
LEMMA ConstantTypes ==
  /\ None \notin Products \cup Users \cup Coupons \cup OrderNumbers
  /\ InitialStock \in [Products -> Nat]
  /\ InitialPrice \in [Products -> Nat]
  /\ Percentage \in [Products -> Int]
  /\ Prices \subseteq Nat
  /\ MaxQuantity \in Nat
  /\ InitialItems \in [Users -> [Products -> 0 .. MaxQuantity]]
  /\ InitialCoupon \in [Users -> Coupons \cup {None}]
  /\ InitiallyOpen \subseteq Products \cup Coupons
  /\ Timed \subseteq Products \cup Coupons
  /\ Shoppers \subseteq Users
<1>1. Percentage \in [Products -> Int]
  BY CatalogueAssumption
<1> QED
  BY <1>1, DisjointIdsAssumption, CatalogueAssumption, CartAssumption, WindowAssumption

LEMMA QuantizeType == \A n \in Int : Quantize(n) \in Int
BY DEF Quantize, Scale

LEMMA UnitPriceType ==
  ASSUME NEW p \in Products, NEW price \in Nat
  PROVE  UnitPrice(p, price) \in Int
<1> DEFINE percentage == IF p \in open THEN Percentage[p] ELSE 0
<1>1. percentage \in Int
  BY ConstantTypes
<1>2. price * (Scale - percentage) \in Int
  BY <1>1 DEF Scale
<1> QED
  BY <1>2, QuantizeType DEF UnitPrice, EffectivePrice

LEMMA SavedType ==
  ASSUME NEW r \in ProductRow
  PROVE  /\ Saved(r) \in ProductRow
         /\ Saved(r).is_in_stock = (Saved(r).stock > 0)
         /\ Saved(r).stock = r.stock
         /\ Saved(r).price = r.price
<1>1. \A b \in BOOLEAN : [r EXCEPT !.is_in_stock = b] \in ProductRow
  BY DEF ProductRow
<1>2. Saved(r) \in ProductRow
  <2>1. (r.stock > 0) \in BOOLEAN
    OBVIOUS
  <2> QED
    BY <1>1, <2>1 DEF Saved
<1>3. Saved(r).is_in_stock = (r.stock > 0)
  BY DEF Saved, ProductRow
<1>4. Saved(r).stock = r.stock /\ Saved(r).price = r.price
  BY DEF Saved, ProductRow
<1> QED
  BY <1>2, <1>3, <1>4, Zenon

LEMMA NoLinesType == NoLines \in [Products -> Line]
BY DEF NoLines, Line

LEMMA PricedLinesType ==
  ASSUME StoreTypeOK, NEW u \in Users
  PROVE  PricedLines(u) \in [Products -> Line]
<1> SUFFICES ASSUME NEW p \in Products
             PROVE  PricedLines(u)[p] \in Line
  BY DEF PricedLines
<1>1. items[u][p] \in Nat /\ product[p].price \in Nat
  BY ConstantTypes DEF StoreTypeOK, ProductRow
<1>2. UnitPrice(p, product[p].price) \in Int
  BY <1>1, UnitPriceType
<1> QED
  BY <1>1, <1>2, NoLinesType DEF PricedLines, Line

-----------------------------------------------------------------------------
(***************************************************************************)
(* Types, and what each request holds.                                     *)
(***************************************************************************)
TypeInv == TypeOK /\ RequestOK

LEMMA InitTypeInv == Init => TypeInv
<1> SUFFICES ASSUME Init PROVE TypeInv
  OBVIOUS
<1> USE ConstantTypes
<1>1. StoreTypeOK
  BY DEF Init, StoreInit, StoreTypeOK, ProductRow
<1>2. NoForm \in Form
  BY NoLinesType DEF NoForm, Form
<1>3. NoRows \in [Products -> ProductRow]
  BY DEF NoRows, ProductRow
<1>4. TypeOK
  BY <1>1, <1>2, <1>3, NoLinesType DEF Init, StoreInit, TypeOK, Steps
<1>5. RequestOK
  BY DEF Init, RequestOK, HeldBy
<1> QED
  BY <1>4, <1>5 DEF TypeInv

\* A request that ends, well or not, leaves its worker in order.
LEMMA ForgetTypes ==
  ASSUME TypeInv, NEW w \in Workers, Forget(w)
  PROVE  /\ pc' \in [Workers -> Steps]
         /\ form' \in [Workers -> Form]
         /\ lines' \in [Workers -> [Products -> Line]]
         /\ todo' \in [Workers -> SUBSET Products]
         /\ current' \in [Workers -> Products \cup {None}]
         /\ loaded' \in [Workers -> [Products -> ProductRow]]
         /\ locked' \in [Workers -> SUBSET Products]
         /\ RequestOK'
<1> USE DEF Forget, Goto, TypeInv, TypeOK
<1>1. NoForm \in Form
  BY NoLinesType DEF NoForm, Form
<1>2. NoRows \in [Products -> ProductRow]
  BY DEF NoRows, ProductRow
<1>3. RequestOK'
  <2> SUFFICES ASSUME NEW v \in Workers
               PROVE  HeldBy(v)'
    BY DEF RequestOK
  <2>1. CASE v = w
    BY <2>1 DEF RequestOK, HeldBy
  <2>2. CASE v # w
    BY <2>2 DEF RequestOK, HeldBy
  <2> QED
    BY <2>1, <2>2
<1> QED
  BY <1>1, <1>2, <1>3, NoLinesType DEF Steps

\* A request that ends without a commit.
LEMMA RollbackTypes ==
  ASSUME TypeInv, NEW w \in Workers, Rollback(w)
  PROVE  TypeInv'
<1>1. Forget(w) /\ UNCHANGED <<storeVars, outbox, sold>>
  BY DEF Rollback
<1> QED
  BY <1>1, ForgetTypes DEF TypeInv, TypeOK, StoreTypeOK, storeVars

\* A cart request changes the carts and nothing else.
LEMMA CartRequestTypes ==
  ASSUME StoreTypeOK, CartRequest
  PROVE  StoreTypeOK' /\ product' = product
<1>1. PICK u \in Shoppers :
        \/ \E p \in Products, q \in 1 .. MaxQuantity : AddItem(u, p, q) \/ UpdateItem(u, p, q)
        \/ \E p \in Products : RemoveItem(u, p)
        \/ ClearCart(u)
        \/ \E c \in Coupons : ApplyCoupon(u, c)
        \/ RemoveCoupon(u)
  BY DEF CartRequest
<1> USE ConstantTypes DEF StoreTypeOK
<1>2. ASSUME NEW p \in Products, NEW q \in 1 .. MaxQuantity,
             AddItem(u, p, q) \/ UpdateItem(u, p, q)
      PROVE  StoreTypeOK' /\ product' = product
  <2>1. items[u][p] + q \in Int /\ q \in 0 .. MaxQuantity
    OBVIOUS
  <2>2. CASE AddItem(u, p, q)
    BY <2>1, <2>2 DEF AddItem
  <2>3. CASE UpdateItem(u, p, q)
    BY <2>1, <2>3 DEF UpdateItem
  <2> QED
    BY <1>2, <2>2, <2>3
<1>3. ASSUME NEW p \in Products, RemoveItem(u, p)
      PROVE  StoreTypeOK' /\ product' = product
  BY <1>3 DEF RemoveItem
<1>4. CASE ClearCart(u)
  BY <1>4 DEF ClearCart
<1>5. ASSUME NEW c \in Coupons, ApplyCoupon(u, c)
      PROVE  StoreTypeOK' /\ product' = product
  BY <1>5 DEF ApplyCoupon
<1>6. CASE RemoveCoupon(u)
  BY <1>6 DEF RemoveCoupon
<1> QED
  BY <1>1, <1>2, <1>3, <1>4, <1>5, <1>6

\* What a request holds does not depend on the other requests.
LEMMA OthersHold ==
  ASSUME RequestOK, NEW v \in Workers,
         pc'[v] = pc[v], form'[v] = form[v], lines'[v] = lines[v], todo'[v] = todo[v],
         current'[v] = current[v], loaded'[v] = loaded[v], locked'[v] = locked[v]
  PROVE  HeldBy(v)'
BY DEF RequestOK, HeldBy

LEMMA FormWithCart ==
  ASSUME NEW f \in Form, NEW u \in Users, NEW c \in Coupons \cup {None}
  PROVE  [f EXCEPT !.user = u, !.coupon = c] \in Form
BY DEF Form

LEMMA FormWithQuote ==
  ASSUME NEW f \in Form, NEW q \in [Products -> Line]
  PROVE  [f EXCEPT !.quoted = q] \in Form
BY DEF Form

LEMMA FormWithNumber ==
  ASSUME NEW f \in Form, NEW n \in OrderNumbers, NEW g \in Coupons \cup {None}, NEW k \in Nat
  PROVE  [f EXCEPT !.number = n, !.granted = g, !.times_used = k] \in Form
BY DEF Form

LEMMA StartTypes ==
  ASSUME TypeInv, NEW w \in Workers, NEW u \in Users, Start(w, u)
  PROVE  TypeInv'
<1> DEFINE f == [form[w] EXCEPT !.user = u, !.coupon = applied[u]]
<1>1. form[w] \in Form /\ applied[u] \in Coupons \cup {None}
  BY DEF TypeInv, TypeOK, StoreTypeOK
<1>2. f \in Form /\ f.user = u
  BY <1>1, FormWithCart DEF Form
<1>3. form' = [form EXCEPT ![w] = f] /\ form \in [Workers -> Form]
  BY DEF Start, TypeInv, TypeOK
<1> HIDE DEF f
<1>4. form' \in [Workers -> Form] /\ form'[w].user = u
  BY <1>2, <1>3
<1>5. TypeOK'
  BY <1>4 DEF Start, Goto, TypeInv, TypeOK, StoreTypeOK, storeVars, Steps
<1>6. RequestOK'
  <2> SUFFICES ASSUME NEW v \in Workers PROVE HeldBy(v)'
    BY DEF RequestOK
  <2>1. CASE v = w
    BY <2>1, <1>4 DEF Start, Goto, TypeInv, TypeOK, RequestOK, HeldBy
  <2>2. CASE v # w
    BY <2>2, <1>3, OthersHold DEF Start, Goto, TypeInv, TypeOK
  <2> QED
    BY <2>1, <2>2
<1> QED
  BY <1>5, <1>6 DEF TypeInv

LEMMA CartNotEmptyTypes ==
  ASSUME TypeInv, NEW w \in Workers, CartNotEmpty(w)
  PROVE  TypeInv'
<1>1. TypeOK'
  BY DEF CartNotEmpty, Goto, TypeInv, TypeOK, StoreTypeOK, storeVars, Steps
<1>2. RequestOK'
  BY DEF CartNotEmpty, Goto, TypeInv, TypeOK, RequestOK, HeldBy
<1> QED
  BY <1>1, <1>2 DEF TypeInv

LEMMA QuoteCartTypes ==
  ASSUME TypeInv, NEW w \in Workers, QuoteCart(w)
  PROVE  TypeInv'
<1> DEFINE f == [form[w] EXCEPT !.quoted = PricedLines(form[w].user)]
<1>1. form[w] \in Form /\ form[w].user \in Users
  BY DEF QuoteCart, TypeInv, TypeOK, RequestOK, HeldBy
<1>2. PricedLines(form[w].user) \in [Products -> Line]
  BY <1>1, PricedLinesType DEF TypeInv, TypeOK
<1>3. f \in Form /\ f.user = form[w].user
  BY <1>1, <1>2, FormWithQuote DEF Form
<1>4. form' = [form EXCEPT ![w] = f] /\ form \in [Workers -> Form]
  BY DEF QuoteCart, TypeInv, TypeOK
<1> HIDE DEF f
<1>5. form' \in [Workers -> Form] /\ form'[w].user \in Users
  BY <1>1, <1>3, <1>4
<1>6. TypeOK'
  BY <1>5 DEF QuoteCart, Goto, TypeInv, TypeOK, StoreTypeOK, storeVars, Steps
<1>7. RequestOK'
  <2> SUFFICES ASSUME NEW v \in Workers PROVE HeldBy(v)'
    BY DEF RequestOK
  <2>1. CASE v = w
    BY <2>1, <1>5 DEF QuoteCart, Goto, TypeInv, TypeOK, RequestOK, HeldBy
  <2>2. CASE v # w
    BY <2>2, <1>4, OthersHold DEF QuoteCart, Goto, TypeInv, TypeOK
  <2> QED
    BY <2>1, <2>2
<1> QED
  BY <1>6, <1>7 DEF TypeInv

LEMMA CreateOrderTypes ==
  ASSUME TypeInv, NEW w \in Workers, NEW number \in OrderNumbers, CreateOrder(w, number)
  PROVE  TypeInv'
<1> DEFINE c == form[w].coupon
           uses == IF c = None THEN 0 ELSE times_used[c]
           f == [form[w] EXCEPT !.number = number, !.granted = Granted(c), !.times_used = uses]
<1>1. form[w] \in Form /\ form[w].user \in Users
  BY DEF CreateOrder, TypeInv, TypeOK, RequestOK, HeldBy
<1>2. c \in Coupons \cup {None}
  BY <1>1 DEF Form
<1>3. uses \in Nat
  BY <1>2 DEF TypeInv, TypeOK, StoreTypeOK
<1>4. Granted(c) \in Coupons \cup {None}
  BY <1>2 DEF Granted
<1>5. f \in Form /\ f.user = form[w].user /\ f.number = number
  <2> HIDE DEF c, uses
  <2> QED
    BY <1>1, <1>3, <1>4, FormWithNumber DEF Form
<1>6. form' = [form EXCEPT ![w] = f] /\ form \in [Workers -> Form]
  BY DEF CreateOrder, TypeInv, TypeOK
<1> HIDE DEF f
<1>7. form' \in [Workers -> Form] /\ form'[w].user \in Users /\ form'[w].number = number
  BY <1>1, <1>5, <1>6
<1>8. TypeOK'
  BY <1>7 DEF CreateOrder, Goto, TypeInv, TypeOK, StoreTypeOK, storeVars, Steps
<1>9. RequestOK'
  <2> SUFFICES ASSUME NEW v \in Workers PROVE HeldBy(v)'
    BY DEF RequestOK
  <2>1. CASE v = w
    BY <2>1, <1>7 DEF CreateOrder, Goto, TypeInv, TypeOK, RequestOK, HeldBy
  <2>2. CASE v # w
    BY <2>2, <1>6, OthersHold DEF CreateOrder, Goto, TypeInv, TypeOK
  <2> QED
    BY <2>1, <2>2
<1> QED
  BY <1>8, <1>9 DEF TypeInv

LEMMA RowWithStock ==
  ASSUME NEW r \in ProductRow, NEW n \in Nat
  PROVE  [r EXCEPT !.stock = n] \in ProductRow /\ [r EXCEPT !.stock = n].stock = n
BY DEF ProductRow

LEMMA LineWithPrice ==
  ASSUME NEW l \in Line, NEW price \in Int
  PROVE  /\ [l EXCEPT !.unit_price = price] \in Line
         /\ [l EXCEPT !.unit_price = price].quantity = l.quantity
BY DEF Line

LEMMA ReadItemsTypes ==
  ASSUME TypeInv, NEW w \in Workers, ReadItems(w)
  PROVE  TypeInv'
<1> DEFINE u == form[w].user
           bought == {p \in Products : items[u][p] > 0}
           cart == [p \in Products |-> [quantity |-> items[u][p], unit_price |-> 0]]
           rows == [p \in Products |-> IF p \in bought THEN product[p] ELSE NoRows[p]]
<1>1. u \in Users
  BY DEF ReadItems, TypeInv, RequestOK, HeldBy
<1>2. cart \in [Products -> Line]
  BY <1>1, ConstantTypes DEF TypeInv, TypeOK, StoreTypeOK, Line
<1>3. rows \in [Products -> ProductRow]
  <2>1. NoRows \in [Products -> ProductRow]
    BY DEF NoRows, ProductRow
  <2> QED
    BY <2>1 DEF TypeInv, TypeOK, StoreTypeOK
<1>4. /\ lines' = [lines EXCEPT ![w] = cart]
      /\ loaded' = [loaded EXCEPT ![w] = rows]
      /\ todo' = [todo EXCEPT ![w] = bought]
  BY DEF ReadItems
<1>5. bought \subseteq Products
  OBVIOUS
<1> HIDE DEF u, cart, rows, bought
<1>6. TypeOK'
  BY <1>2, <1>3, <1>4, <1>5
     DEF ReadItems, Goto, TypeInv, TypeOK, StoreTypeOK, storeVars, Steps
<1>7. RequestOK'
  <2> SUFFICES ASSUME NEW v \in Workers PROVE HeldBy(v)'
    BY DEF RequestOK
  <2>1. CASE v = w
    BY <2>1 DEF ReadItems, Goto, TypeInv, TypeOK, RequestOK, HeldBy
  <2>2. CASE v # w
    BY <2>2, <1>4, OthersHold DEF ReadItems, Goto, TypeInv, TypeOK
  <2> QED
    BY <2>1, <2>2
<1> QED
  BY <1>6, <1>7 DEF TypeInv

LEMMA AddLineTypes ==
  ASSUME TypeInv, NEW w \in Workers, NEW p \in Products, AddLine(w, p)
  PROVE  TypeInv' /\ \A v \in Workers, q \in Products : lines'[v][q].quantity = lines[v][q].quantity
<1> DEFINE priced == [lines[w] EXCEPT ![p] = [lines[w][p] EXCEPT !.unit_price = LinePrice(w, p)]]
<1>1. lines \in [Workers -> [Products -> Line]] /\ lines[w] \in [Products -> Line]
  BY DEF TypeInv, TypeOK
<1>2. LinePrice(w, p) \in Int
  <2>1. loaded[w][p].price \in Nat
    BY DEF TypeInv, TypeOK, ProductRow
  <2> QED
    BY <2>1, UnitPriceType DEF LinePrice
<1>3. priced \in [Products -> Line] /\ \A q \in Products : priced[q].quantity = lines[w][q].quantity
  <2>1. /\ [lines[w][p] EXCEPT !.unit_price = LinePrice(w, p)] \in Line
        /\ [lines[w][p] EXCEPT !.unit_price = LinePrice(w, p)].quantity = lines[w][p].quantity
    BY <1>1, <1>2, LineWithPrice
  <2> QED
    BY <1>1, <2>1
<1>4. lines' = [lines EXCEPT ![w] = priced]
  BY DEF AddLine
<1> HIDE DEF priced
<1>5. TypeOK'
  <2>1. lines' \in [Workers -> [Products -> Line]]
    BY <1>1, <1>3, <1>4
  <2>2. current' \in [Workers -> Products \cup {None}] /\ pc' \in [Workers -> Steps]
    BY DEF AddLine, Goto, TypeInv, TypeOK, Steps
  <2> QED
    BY <2>1, <2>2 DEF AddLine, TypeInv, TypeOK, StoreTypeOK, storeVars
<1>6. RequestOK'
  <2> SUFFICES ASSUME NEW v \in Workers PROVE HeldBy(v)'
    BY DEF RequestOK
  <2>1. CASE v = w
    BY <2>1 DEF AddLine, Goto, TypeInv, TypeOK, RequestOK, HeldBy
  <2>2. CASE v # w
    BY <2>2, <1>1, <1>4, OthersHold DEF AddLine, Goto, TypeInv, TypeOK
  <2> QED
    BY <2>1, <2>2
<1>7. \A v \in Workers, q \in Products : lines'[v][q].quantity = lines[v][q].quantity
  BY <1>1, <1>3, <1>4
<1> QED
  BY <1>5, <1>6, <1>7 DEF TypeInv

LEMMA RefreshStockTypes ==
  ASSUME TypeInv, NEW w \in Workers, RefreshStock(w)
  PROVE  /\ TypeInv'
         /\ current[w] \in Products \ locked[w]
         /\ loaded'[w][current[w]].stock = product[current[w]].stock
         /\ \A v \in Workers : \A q \in locked[v] : loaded'[v][q] = loaded[v][q]
         /\ \A v \in Workers \ {w} : loaded'[v] = loaded[v]
<1> DEFINE p == current[w]
           row == [loaded[w][p] EXCEPT !.stock = product[p].stock]
           rows == [loaded[w] EXCEPT ![p] = row]
<1>1. p \in Products /\ p \in todo[w] /\ p \notin locked[w]
  BY DEF RefreshStock, TypeInv, TypeOK, RequestOK, HeldBy
<1>2. /\ product[p].stock \in Nat
      /\ loaded \in [Workers -> [Products -> ProductRow]]
      /\ locked \in [Workers -> SUBSET Products]
  BY <1>1 DEF TypeInv, TypeOK, StoreTypeOK, ProductRow
<1>3. row \in ProductRow /\ row.stock = product[p].stock
  BY <1>1, <1>2, RowWithStock
<1>4. loaded' = [loaded EXCEPT ![w] = rows]
  BY DEF RefreshStock
<1> HIDE DEF p, row
<1>5. /\ loaded' \in [Workers -> [Products -> ProductRow]]
      /\ loaded'[w][p].stock = product[p].stock
      /\ \A v \in Workers : \A q \in locked[v] : loaded'[v][q] = loaded[v][q]
      /\ \A v \in Workers \ {w} : loaded'[v] = loaded[v]
  BY <1>1, <1>2, <1>3, <1>4
<1>6. TypeOK'
  BY <1>5 DEF RefreshStock, Goto, TypeInv, TypeOK, StoreTypeOK, storeVars, Steps
<1>7. RequestOK'
  <2> SUFFICES ASSUME NEW v \in Workers PROVE HeldBy(v)'
    BY DEF RequestOK
  <2>1. CASE v = w
    <3>1. loaded'[w][p].stock >= lines'[w][p].quantity
      BY <1>5 DEF RefreshStock, EnoughStock, p
    <3>2. pc'[w] = "save" /\ current'[w] = p /\ locked'[w] = locked[w]
      BY DEF RefreshStock, Goto, TypeInv, TypeOK, p
    <3> QED
      BY <2>1, <1>1, <1>5, <3>1, <3>2 DEF RefreshStock, TypeInv, RequestOK, HeldBy
  <2>2. CASE v # w
    BY <2>2, <1>5, OthersHold DEF RefreshStock, Goto, TypeInv, TypeOK
  <2> QED
    BY <2>1, <2>2
<1> QED
  BY <1>1, <1>5, <1>6, <1>7 DEF TypeInv, p

LEMMA SaveStockTypes ==
  ASSUME TypeInv, NEW w \in Workers, SaveStock(w)
  PROVE  /\ TypeInv'
         /\ current[w] \in Products \ locked[w]
         /\ loaded'[w][current[w]].stock =
              loaded[w][current[w]].stock - lines[w][current[w]].quantity
         /\ locked'[w] = locked[w] \cup {current[w]}
         /\ \A q \in locked[w] : loaded'[w][q] = loaded[w][q]
         /\ \A v \in Workers \ {w} : loaded'[v] = loaded[v] /\ locked'[v] = locked[v]
<1> DEFINE p == current[w]
           left == loaded[w][p].stock - lines[w][p].quantity
           row == Decreased(loaded[w][p], lines[w][p].quantity)
           rows == [loaded[w] EXCEPT ![p] = row]
<1>1. p \in Products /\ p \in todo[w] /\ p \notin locked[w]
  BY DEF SaveStock, TypeInv, TypeOK, RequestOK, HeldBy
<1>2. /\ loaded \in [Workers -> [Products -> ProductRow]]
      /\ locked \in [Workers -> SUBSET Products]
      /\ loaded[w][p] \in ProductRow
  BY <1>1 DEF TypeInv, TypeOK
<1>3. left \in Nat
  <2>1. loaded[w][p].stock \in Nat /\ lines[w][p].quantity \in Nat
    BY <1>1 DEF TypeInv, TypeOK, ProductRow, Line
  <2>2. loaded[w][p].stock >= lines[w][p].quantity
    BY DEF SaveStock, TypeInv, RequestOK, HeldBy
  <2> QED
    BY <2>1, <2>2
<1>4. loaded' = [loaded EXCEPT ![w] = rows]
  BY DEF SaveStock
<1> HIDE DEF left
<1>5. row \in ProductRow /\ row.is_in_stock = (row.stock > 0) /\ row.stock = left
  <2>0. row = Saved([loaded[w][p] EXCEPT !.stock = left])
    BY DEF Decreased, left
  <2>1. [loaded[w][p] EXCEPT !.stock = left] \in ProductRow
    BY <1>2, <1>3, RowWithStock
  <2>2. [loaded[w][p] EXCEPT !.stock = left].stock = left
    BY <1>2, <1>3, RowWithStock
  <2>3. row.stock = left
    BY <2>0, <2>1, <2>2, SavedType
  <2> QED
    BY <2>0, <2>1, <2>3, SavedType, Zenon
<1> HIDE DEF p, row
<1>6. /\ loaded' \in [Workers -> [Products -> ProductRow]]
      /\ loaded'[w][p] = row
      /\ \A q \in locked[w] : loaded'[w][q] = loaded[w][q]
      /\ \A v \in Workers \ {w} : loaded'[v] = loaded[v]
  <2>1. loaded[w] \in [Products -> ProductRow]
    BY <1>2
  <2>2. /\ rows \in [Products -> ProductRow]
        /\ rows[p] = row
        /\ \A q \in Products \ {p} : rows[q] = loaded[w][q]
    BY <2>1, <1>1, <1>5
  <2> HIDE DEF rows
  <2>3. loaded' \in [Workers -> [Products -> ProductRow]] /\ loaded'[w] = rows
    BY <2>2, <1>2, <1>4
  <2>4. \A q \in locked[w] : loaded'[w][q] = loaded[w][q]
    BY <2>2, <2>3, <1>1, <1>2
  <2>5. \A v \in Workers \ {w} : loaded'[v] = loaded[v]
    BY <1>2, <1>4
  <2> QED
    BY <2>2, <2>3, <2>4, <2>5
<1>7. /\ locked' \in [Workers -> SUBSET Products]
      /\ locked'[w] = locked[w] \cup {p}
      /\ \A v \in Workers \ {w} : locked'[v] = locked[v]
  BY <1>1, <1>2 DEF SaveStock, p
<1>8. TypeOK'
  BY <1>6, <1>7 DEF SaveStock, Goto, TypeInv, TypeOK, StoreTypeOK, storeVars, Steps
<1>9. RequestOK'
  <2> SUFFICES ASSUME NEW v \in Workers PROVE HeldBy(v)'
    BY DEF RequestOK
  <2>1. CASE v = w
    <3>1. \A q \in locked'[w] : loaded'[w][q].is_in_stock = (loaded'[w][q].stock > 0)
      <4>1. \A q \in locked[w] : loaded[w][q].is_in_stock = (loaded[w][q].stock > 0)
        BY DEF TypeInv, RequestOK, HeldBy
      <4>2. ASSUME NEW q \in locked[w]
            PROVE  loaded'[w][q].is_in_stock = (loaded'[w][q].stock > 0)
        BY <4>1, <1>6
      <4>3. loaded'[w][p].is_in_stock = (loaded'[w][p].stock > 0)
        BY <1>5, <1>6
      <4> QED
        BY <4>2, <4>3, <1>7
    <3>2. todo'[w] \cap locked'[w] = {}
      BY <1>7 DEF SaveStock, TypeInv, TypeOK, RequestOK, HeldBy, p
    <3>3. pc'[w] = "loop" /\ form'[w] = form[w]
      BY DEF SaveStock, Goto, TypeInv, TypeOK
    <3>4. form[w].user \in Users /\ form[w].number \in OrderNumbers
      BY DEF SaveStock, TypeInv, RequestOK, HeldBy
    <3> QED
      BY <2>1, <3>1, <3>2, <3>3, <3>4 DEF HeldBy
  <2>2. CASE v # w
    BY <2>2, <1>6, <1>7, OthersHold DEF SaveStock, Goto, TypeInv, TypeOK
  <2> QED
    BY <2>1, <2>2
<1>10. loaded'[w][p].stock = left
  BY <1>5, <1>6
<1> QED
  BY <1>1, <1>6, <1>7, <1>8, <1>9, <1>10 DEF TypeInv, p, left

LEMMA LastLineTypes ==
  ASSUME TypeInv, NEW w \in Workers, LastLine(w)
  PROVE  TypeInv'
<1>1. TypeOK'
  BY DEF LastLine, Goto, TypeInv, TypeOK, StoreTypeOK, storeVars, Steps
<1>2. RequestOK'
  BY DEF LastLine, Goto, TypeInv, TypeOK, RequestOK, HeldBy
<1> QED
  BY <1>1, <1>2 DEF TypeInv

LEMMA FinishOrderTypes ==
  ASSUME TypeInv, NEW w \in Workers, FinishOrder(w)
  PROVE  TypeInv'
<1>1. form[w].number \in OrderNumbers
  BY DEF FinishOrder, TypeInv, RequestOK, HeldBy
<1>2. TypeOK'
  BY <1>1
     DEF FinishOrder, QueueEmail, Goto, TypeInv, TypeOK, StoreTypeOK, storeVars, Steps
<1>3. RequestOK'
  BY DEF FinishOrder, Goto, TypeInv, TypeOK, RequestOK, HeldBy
<1> QED
  BY <1>2, <1>3 DEF TypeInv

LEMMA CommitTypes ==
  ASSUME TypeInv, NEW w \in Workers, Commit(w)
  PROVE  TypeInv'
<1> DEFINE f == form[w]
           order == [number |-> f.number, user |-> f.user, coupon |-> f.coupon,
                     granted |-> f.granted, quoted |-> f.quoted, lines |-> lines[w]]
<1>1. Forget(w)
  BY DEF Commit
<1>2. f \in Form /\ f.user \in Users /\ f.number \in OrderNumbers
  BY DEF Commit, TypeInv, TypeOK, RequestOK, HeldBy
<1>3. order \in Order
  BY <1>2 DEF Order, Form, TypeInv, TypeOK
<1>4. orders' \subseteq Order
  <2>1. orders' = orders \cup {order}
    BY DEF Commit
  <2> QED
    BY <2>1, <1>3 DEF TypeInv, TypeOK, StoreTypeOK
<1>5. product' \in [Products -> ProductRow]
  BY DEF Commit, TypeInv, TypeOK, StoreTypeOK
<1>6. \A p \in Products : product'[p].is_in_stock = (product'[p].stock > 0)
  <2> SUFFICES ASSUME NEW p \in Products
               PROVE  product'[p].is_in_stock = (product'[p].stock > 0)
    OBVIOUS
  <2>1. CASE p \in locked[w]
    <3>1. product'[p] = loaded[w][p]
      BY <2>1 DEF Commit
    <3> QED
      BY <2>1, <3>1 DEF TypeInv, RequestOK, HeldBy
  <2>2. CASE p \notin locked[w]
    <3>1. product'[p] = product[p]
      BY <2>2 DEF Commit
    <3> QED
      BY <3>1 DEF TypeInv, TypeOK
  <2> QED
    BY <2>1, <2>2
<1>7. times_used' \in [Coupons -> Nat]
  <2>1. f.times_used + 1 \in Nat
    BY <1>2 DEF Form
  <2> QED
    BY <2>1 DEF Commit, CountedUses, TypeInv, TypeOK, StoreTypeOK
<1>8. /\ items' \in [Users -> [Products -> 0 .. MaxQuantity]]
      /\ applied' \in [Users -> Coupons \cup {None}]
  BY <1>2, ConstantTypes DEF Commit, TypeInv, TypeOK, StoreTypeOK
<1>9. sold' \in [Products -> Nat]
  <2>1. \A p \in Products : sold[p] \in Nat /\ lines[w][p].quantity \in Nat
    BY DEF TypeInv, TypeOK, Line
  <2> QED
    BY <2>1 DEF Commit
<1>10. open' \subseteq Products \cup Coupons /\ outbox' \subseteq OrderNumbers
  BY DEF Commit, TypeInv, TypeOK, StoreTypeOK
<1> QED
  BY <1>1, <1>4, <1>5, <1>6, <1>7, <1>8, <1>9, <1>10, ForgetTypes
     DEF TypeInv, TypeOK, StoreTypeOK

LEMMA LoadProductTypes ==
  ASSUME TypeInv, NEW w \in Workers, NEW p \in Products, LoadProduct(w, p)
  PROVE  TypeInv'
<1> DEFINE rows == [loaded[w] EXCEPT ![p] = product[p]]
<1>1. rows \in [Products -> ProductRow]
  BY DEF TypeInv, TypeOK, StoreTypeOK
<1>2. loaded' = [loaded EXCEPT ![w] = rows]
  BY DEF LoadProduct
<1> HIDE DEF rows
<1>3. TypeOK'
  BY <1>1, <1>2 DEF LoadProduct, Goto, TypeInv, TypeOK, StoreTypeOK, storeVars, Steps
<1>4. RequestOK'
  <2> SUFFICES ASSUME NEW v \in Workers PROVE HeldBy(v)'
    BY DEF RequestOK
  <2>1. CASE v = w
    BY <2>1 DEF LoadProduct, Goto, TypeInv, TypeOK, RequestOK, HeldBy
  <2>2. CASE v # w
    BY <2>2, <1>2, OthersHold DEF LoadProduct, Goto, TypeInv, TypeOK
  <2> QED
    BY <2>1, <2>2
<1> QED
  BY <1>3, <1>4 DEF TypeInv

LEMMA SaveProductTypes ==
  ASSUME TypeInv, NEW w \in Workers, NEW price \in Prices, SaveProduct(w, price)
  PROVE  /\ TypeInv'
         /\ current[w] \in Products
         /\ product'[current[w]].stock = loaded[w][current[w]].stock
         /\ \A q \in Products \ {current[w]} : product'[q] = product[q]
<1> DEFINE p == current[w]
           edited == [loaded[w][p] EXCEPT !.price = price]
           row == Saved(edited)
<1>1. p \in Products
  BY DEF SaveProduct, TypeInv, RequestOK, HeldBy
<1>2. loaded[w][p] \in ProductRow /\ price \in Nat
  BY <1>1, ConstantTypes DEF TypeInv, TypeOK
<1>3. edited \in ProductRow /\ edited.stock = loaded[w][p].stock
  BY <1>2 DEF ProductRow
<1> HIDE DEF edited
<1>4. row \in ProductRow /\ row.is_in_stock = (row.stock > 0) /\ row.stock = loaded[w][p].stock
  BY <1>3, SavedType, Zenon
<1>5. product' = [product EXCEPT ![p] = row]
  BY DEF SaveProduct, edited
<1>6. product \in [Products -> ProductRow]
  BY DEF TypeInv, TypeOK, StoreTypeOK
<1> HIDE DEF row, p
<1>7. /\ product' \in [Products -> ProductRow]
      /\ product'[p] = row
      /\ \A q \in Products \ {p} : product'[q] = product[q]
  BY <1>1, <1>4, <1>5, <1>6
<1>8. \A q \in Products : product'[q].is_in_stock = (product'[q].stock > 0)
  <2> SUFFICES ASSUME NEW q \in Products
               PROVE  product'[q].is_in_stock = (product'[q].stock > 0)
    OBVIOUS
  <2>1. CASE q = p
    BY <2>1, <1>4, <1>7
  <2>2. CASE q # p
    BY <2>2, <1>7 DEF TypeInv, TypeOK
  <2> QED
    BY <2>1, <2>2
<1>9. Forget(w) /\ UNCHANGED <<items, applied, times_used, orders, open, outbox, sold>>
  BY DEF SaveProduct
<1>10. TypeInv'
  BY <1>7, <1>8, <1>9, ForgetTypes DEF TypeInv, TypeOK, StoreTypeOK
<1> QED
  BY <1>1, <1>4, <1>7, <1>10 DEF p

\* A cart request, or a window that opens or closes: no worker moves.
LEMMA OutsideTypes ==
  ASSUME TypeInv, Browse \/ \E x \in Timed : Clock(x)
  PROVE  TypeInv' /\ UNCHANGED <<workerVars, product, sold>>
<1>1. UNCHANGED workerVars => (RequestOK' <=> RequestOK)
  BY DEF workerVars, RequestOK, HeldBy
<1>2. CASE Browse
  <2>1. StoreTypeOK' /\ product' = product
    BY <1>2, CartRequestTypes DEF Browse, TypeInv, TypeOK
  <2>2. UNCHANGED <<workerVars, outbox, sold>>
    BY <1>2 DEF Browse
  <2>3. TypeOK'
    BY <2>1, <2>2 DEF TypeInv, TypeOK, workerVars
  <2> QED
    BY <2>1, <2>2, <2>3, <1>1 DEF TypeInv
<1>3. ASSUME NEW x \in Timed, Clock(x)
      PROVE  TypeInv' /\ UNCHANGED <<workerVars, product, sold>>
  <2>1. /\ open' \subseteq Products \cup Coupons
        /\ UNCHANGED <<product, items, applied, times_used, orders>>
        /\ UNCHANGED <<workerVars, outbox, sold>>
    BY <1>3, ConstantTypes DEF Clock, WindowEdge, TypeInv, TypeOK, StoreTypeOK
  <2>2. TypeOK'
    BY <2>1 DEF TypeInv, TypeOK, StoreTypeOK, workerVars
  <2> QED
    BY <2>1, <2>2, <1>1 DEF TypeInv
<1> QED
  BY <1>2, <1>3

LEMMA NextTypes == TypeInv /\ [Next]_vars => TypeInv'
<1> SUFFICES ASSUME TypeInv, [Next]_vars PROVE TypeInv'
  OBVIOUS
<1>1. ASSUME NEW w \in Workers, NEW u \in Users, Start(w, u)
      PROVE  TypeInv'
  BY <1>1, StartTypes
<1>2. ASSUME NEW w \in Workers, Proceed(w)
      PROVE  TypeInv'
  <2>1. CASE CartNotEmpty(w)
    BY <2>1, CartNotEmptyTypes
  <2>2. CASE EmptyCart(w)
    BY <2>2, RollbackTypes DEF EmptyCart
  <2>3. CASE QuoteCart(w)
    BY <2>3, QuoteCartTypes
  <2>4. CASE \E number \in OrderNumbers : CreateOrder(w, number)
    BY <2>4, CreateOrderTypes
  <2>5. CASE ReadItems(w)
    BY <2>5, ReadItemsTypes
  <2>6. CASE \E p \in Products : AddLine(w, p)
    BY <2>6, AddLineTypes
  <2>7. CASE RefreshStock(w)
    BY <2>7, RefreshStockTypes
  <2>8. CASE InsufficientStock(w)
    BY <2>8, RollbackTypes DEF InsufficientStock
  <2>9. CASE LastLine(w)
    BY <2>9, LastLineTypes
  <2>10. CASE Commit(w)
    BY <2>10, CommitTypes
  <2> QED
    BY <1>2, <2>1, <2>2, <2>3, <2>4, <2>5, <2>6, <2>7, <2>8, <2>9, <2>10 DEF Proceed
<1>3. ASSUME NEW w \in Workers, SaveStock(w)
      PROVE  TypeInv'
  BY <1>3, SaveStockTypes
<1>4. ASSUME NEW w \in Workers, FinishOrder(w)
      PROVE  TypeInv'
  BY <1>4, FinishOrderTypes
<1>5. ASSUME NEW w \in Workers, Fail(w) \/ DeadlockAbort(w)
      PROVE  TypeInv'
  BY <1>5, RollbackTypes DEF Fail, DeadlockAbort
<1>6. ASSUME NEW w \in Workers, NEW p \in Products, LoadProduct(w, p)
      PROVE  TypeInv'
  BY <1>6, LoadProductTypes
<1>7. ASSUME NEW w \in Workers, NEW price \in Prices, SaveProduct(w, price)
      PROVE  TypeInv'
  BY <1>7, SaveProductTypes
<1>8. CASE Browse \/ \E x \in Timed : Clock(x)
  BY <1>8, OutsideTypes
<1>9. CASE UNCHANGED vars
  BY <1>9
     DEF vars, storeVars, workerVars, TypeInv, TypeOK, StoreTypeOK, RequestOK, HeldBy
<1> QED
  BY <1>1, <1>2, <1>3, <1>4, <1>5, <1>6, <1>7, <1>8, <1>9 DEF Next

\* Every reachable state has the types the code's columns have, in-stock flags
\* that agree with the stock, and requests that hold what their step needs.
THEOREM TypeCorrect == Spec => []TypeOK
<1>1. Spec => []TypeInv
  BY InitTypeInv, NextTypes, PTL DEF Spec
<1>2. TypeInv => TypeOK
  BY DEF TypeInv
<1> QED
  BY <1>1, <1>2, PTL

-----------------------------------------------------------------------------
(***************************************************************************)
(* The stock covers the sales.                                             *)
(***************************************************************************)
StockInv == StockCoversSales /\ CopiesCoverSales

LEMMA InitStockInv == Init => StockInv
<1> SUFFICES ASSUME Init PROVE StockInv
  OBVIOUS
<1>1. StockCoversSales
  BY ConstantTypes DEF Init, StoreInit, StockCoversSales
<1>2. CopiesCoverSales
  BY DEF Init, CopiesCoverSales, CopiesOf
<1> QED
  BY <1>1, <1>2 DEF StockInv

\* The numbers the invariant adds up.
LEMMA Quantities ==
  ASSUME TypeInv, NEW w \in Workers, NEW p \in Products
  PROVE  /\ product[p].stock \in Nat
         /\ loaded[w][p].stock \in Nat
         /\ lines[w][p].quantity \in Nat
         /\ sold[p] \in Nat
         /\ InitialStock[p] \in Nat
BY ConstantTypes DEF TypeInv, TypeOK, StoreTypeOK, ProductRow, Line

\* The rows a request has at hand are rows of products.
LEMMA AtHand ==
  ASSUME TypeInv, NEW w \in Workers
  PROVE  /\ locked[w] \subseteq Products
         /\ pc[w] \in {"save", "edit"} => current[w] \in Products
BY DEF TypeInv, TypeOK, RequestOK, HeldBy

\* Sales only grow, so a request that does not move keeps its copies covered.
LEMMA OthersCovered ==
  ASSUME TypeInv, CopiesCoverSales, NEW v \in Workers,
         \A p \in Products : sold'[p] \in Nat /\ sold'[p] >= sold[p],
         pc'[v] = pc[v], lines'[v] = lines[v], current'[v] = current[v],
         loaded'[v] = loaded[v], locked'[v] = locked[v]
  PROVE  CopiesOf(v)'
<1>1. CopiesOf(v)
  BY DEF CopiesCoverSales
<1>2. ASSUME pc[v] \in {"save", "edit"}
      PROVE  loaded[v][current[v]].stock + sold'[current[v]] >= InitialStock[current[v]]
  BY <1>1, <1>2, AtHand, Quantities DEF CopiesOf
<1>3. ASSUME NEW p \in locked[v]
      PROVE  loaded[v][p].stock + lines[v][p].quantity + sold'[p] >= InitialStock[p]
  BY <1>1, <1>3, AtHand, Quantities DEF CopiesOf
<1> QED
  BY <1>2, <1>3 DEF CopiesOf

\* A step of one request that leaves the stock and the sales alone: it is
\* enough that its own copies stay covered.
LEMMA QuietStep ==
  ASSUME TypeInv, StockInv, NEW w \in Workers, UNCHANGED <<product, sold>>, CopiesOf(w)',
         \A v \in Workers \ {w} :
           /\ pc'[v] = pc[v] /\ lines'[v] = lines[v] /\ current'[v] = current[v]
           /\ loaded'[v] = loaded[v] /\ locked'[v] = locked[v]
  PROVE  StockInv'
<1>1. StockCoversSales'
  BY DEF StockInv, StockCoversSales
<1>2. \A p \in Products : sold'[p] \in Nat /\ sold'[p] >= sold[p]
  BY Quantities
<1>3. \A v \in Workers : CopiesOf(v)'
  BY <1>2, OthersCovered DEF StockInv
<1> QED
  BY <1>1, <1>3 DEF StockInv, CopiesCoverSales

\* A request that ends holds no copies.
LEMMA ForgottenCopies ==
  ASSUME TypeInv, NEW w \in Workers, Forget(w)
  PROVE  /\ CopiesOf(w)'
         /\ \A v \in Workers \ {w} :
              /\ pc'[v] = pc[v] /\ lines'[v] = lines[v] /\ current'[v] = current[v]
              /\ loaded'[v] = loaded[v] /\ locked'[v] = locked[v]
BY DEF Forget, Goto, TypeInv, TypeOK, CopiesOf

LEMMA RollbackStock ==
  ASSUME TypeInv, StockInv, NEW w \in Workers, Rollback(w)
  PROVE  StockInv'
<1>1. Forget(w) /\ UNCHANGED <<product, sold>>
  BY DEF Rollback, storeVars
<1> QED
  BY <1>1, ForgottenCopies, QuietStep

\* Statements that neither copy nor write a row.
LEMMA ReadingStock ==
  ASSUME TypeInv, StockInv, NEW w \in Workers,
         \/ \E u \in Users : Start(w, u)
         \/ CartNotEmpty(w)
         \/ QuoteCart(w)
         \/ \E number \in OrderNumbers : CreateOrder(w, number)
         \/ LastLine(w)
         \/ FinishOrder(w)
  PROVE  StockInv'
<1>1. /\ UNCHANGED <<product, sold, lines, current, loaded, locked>>
      /\ \E step \in Steps \ {"save", "edit"} : Goto(w, step)
  BY DEF Start, CartNotEmpty, QuoteCart, CreateOrder, LastLine, FinishOrder, storeVars, Steps
<1>2. pc'[w] \notin {"save", "edit"} /\ \A v \in Workers \ {w} : pc'[v] = pc[v]
  BY <1>1 DEF Goto, TypeInv, TypeOK
<1>3. CopiesOf(w)'
  BY <1>1, <1>2 DEF StockInv, CopiesCoverSales, CopiesOf
<1> QED
  BY <1>1, <1>2, <1>3, QuietStep

LEMMA ReadItemsStock ==
  ASSUME TypeInv, StockInv, NEW w \in Workers, ReadItems(w)
  PROVE  StockInv'
<1>1. UNCHANGED <<product, sold>>
  BY DEF ReadItems, storeVars
<1>2. CopiesOf(w)'
  BY DEF ReadItems, Goto, TypeInv, TypeOK, RequestOK, HeldBy, CopiesOf
<1>3. \A v \in Workers \ {w} :
        /\ pc'[v] = pc[v] /\ lines'[v] = lines[v] /\ current'[v] = current[v]
        /\ loaded'[v] = loaded[v] /\ locked'[v] = locked[v]
  BY DEF ReadItems, Goto, TypeInv, TypeOK
<1> QED
  BY <1>1, <1>2, <1>3, QuietStep

LEMMA AddLineStock ==
  ASSUME TypeInv, StockInv, NEW w \in Workers, NEW p \in Products, AddLine(w, p)
  PROVE  StockInv'
<1>1. UNCHANGED <<product, sold, loaded, locked>> /\ pc'[w] = "refresh"
  BY DEF AddLine, Goto, storeVars, TypeInv, TypeOK
<1>2. CopiesOf(w)'
  BY <1>1, AddLineTypes, AtHand DEF StockInv, CopiesCoverSales, CopiesOf
<1>3. \A v \in Workers \ {w} :
        /\ pc'[v] = pc[v] /\ lines'[v] = lines[v] /\ current'[v] = current[v]
        /\ loaded'[v] = loaded[v] /\ locked'[v] = locked[v]
  BY DEF AddLine, Goto, TypeInv, TypeOK
<1> QED
  BY <1>1, <1>2, <1>3, QuietStep

\* The stock is read again: the copy is as good as the row it was read from.
LEMMA RefreshStockStock ==
  ASSUME TypeInv, StockInv, NEW w \in Workers, RefreshStock(w)
  PROVE  StockInv'
<1>1. /\ UNCHANGED <<product, sold, lines, current, locked>>
      /\ pc'[w] = "save"
      /\ \A v \in Workers \ {w} : pc'[v] = pc[v]
  BY DEF RefreshStock, Goto, storeVars, TypeInv, TypeOK
<1>2. loaded'[w][current[w]].stock + sold[current[w]] >= InitialStock[current[w]]
  BY RefreshStockTypes DEF StockInv, StockCoversSales
<1>3. \A q \in locked[w] : loaded'[w][q] = loaded[w][q]
  BY RefreshStockTypes
<1>4. CopiesOf(w)'
  BY <1>1, <1>2, <1>3 DEF StockInv, CopiesCoverSales, CopiesOf
<1>5. \A v \in Workers \ {w} : loaded'[v] = loaded[v]
  BY RefreshStockTypes
<1> QED
  BY <1>1, <1>4, <1>5, QuietStep

\* The decrement and the line it is for add up to the copy as it was read.
LEMMA SaveStockStock ==
  ASSUME TypeInv, StockInv, NEW w \in Workers, SaveStock(w)
  PROVE  StockInv'
<1>1. /\ UNCHANGED <<product, sold, lines>>
      /\ pc'[w] = "loop"
      /\ \A v \in Workers \ {w} : pc'[v] = pc[v] /\ current'[v] = current[v]
  BY DEF SaveStock, Goto, storeVars, TypeInv, TypeOK
<1> DEFINE p == current[w]
<1>2. p \in Products
  BY SaveStockTypes
<1>3. loaded[w][p].stock + sold[p] >= InitialStock[p]
  BY DEF SaveStock, StockInv, CopiesCoverSales, CopiesOf
<1>4. loaded'[w][p].stock + lines[w][p].quantity + sold[p] >= InitialStock[p]
  <2>1. loaded'[w][p].stock = loaded[w][p].stock - lines[w][p].quantity
    BY SaveStockTypes
  <2> QED
    BY <2>1, <1>2, <1>3, Quantities
<1>5. CopiesOf(w)'
  <2>1. \A q \in locked[w] :
          loaded'[w][q].stock + lines[w][q].quantity + sold[q] >= InitialStock[q]
    BY SaveStockTypes DEF StockInv, CopiesCoverSales, CopiesOf
  <2>2. locked'[w] = locked[w] \cup {p}
    BY SaveStockTypes
  <2> QED
    BY <2>1, <2>2, <1>1, <1>4 DEF CopiesOf
<1>6. \A v \in Workers \ {w} : loaded'[v] = loaded[v] /\ locked'[v] = locked[v]
  BY SaveStockTypes
<1> QED
  BY <1>1, <1>5, <1>6, QuietStep

\* The rows a commit writes are covered together with the sale it records.
LEMMA CommitStock ==
  ASSUME TypeInv, StockInv, NEW w \in Workers, Commit(w)
  PROVE  StockInv'
<1>1. \A p \in Products :
        /\ sold'[p] = sold[p] + lines[w][p].quantity
        /\ p \in locked[w] => product'[p] = loaded[w][p]
        /\ p \notin locked[w] => product'[p] = product[p]
  BY DEF Commit
<1>2. \A p \in Products : sold'[p] \in Nat /\ sold'[p] >= sold[p]
  BY <1>1, Quantities
<1>3. StockCoversSales'
  <2> SUFFICES ASSUME NEW p \in Products
               PROVE  product'[p].stock + sold'[p] >= InitialStock[p]
    BY DEF StockCoversSales
  <2>1. CASE p \in locked[w]
    <3>1. loaded[w][p].stock + lines[w][p].quantity + sold[p] >= InitialStock[p]
      BY <2>1 DEF StockInv, CopiesCoverSales, CopiesOf
    <3> QED
      BY <2>1, <3>1, <1>1, Quantities
  <2>2. CASE p \notin locked[w]
    BY <2>2, <1>1, <1>2, Quantities DEF StockInv, StockCoversSales
  <2> QED
    BY <2>1, <2>2
<1>4. Forget(w)
  BY DEF Commit
<1>5. \A v \in Workers : CopiesOf(v)'
  BY <1>2, <1>4, ForgottenCopies, OthersCovered DEF StockInv
<1> QED
  BY <1>3, <1>5 DEF StockInv, CopiesCoverSales

LEMMA LoadProductStock ==
  ASSUME TypeInv, StockInv, NEW w \in Workers, NEW p \in Products, LoadProduct(w, p)
  PROVE  StockInv'
<1>1. UNCHANGED <<product, sold>>
  BY DEF LoadProduct, storeVars
<1>2. CopiesOf(w)'
  <2>1. locked'[w] = {} /\ current'[w] = p /\ loaded'[w][p] = product[p]
    BY DEF LoadProduct, TypeInv, TypeOK, RequestOK, HeldBy
  <2> QED
    BY <1>1, <2>1 DEF StockInv, StockCoversSales, CopiesOf
<1>3. \A v \in Workers \ {w} :
        /\ pc'[v] = pc[v] /\ lines'[v] = lines[v] /\ current'[v] = current[v]
        /\ loaded'[v] = loaded[v] /\ locked'[v] = locked[v]
  BY DEF LoadProduct, Goto, TypeInv, TypeOK
<1> QED
  BY <1>1, <1>2, <1>3, QuietStep

LEMMA SaveProductStock ==
  ASSUME TypeInv, StockInv, NEW w \in Workers, NEW price \in Prices, SaveProduct(w, price)
  PROVE  StockInv'
<1>1. Forget(w) /\ UNCHANGED sold
  BY DEF SaveProduct
<1>2. StockCoversSales'
  <2> SUFFICES ASSUME NEW p \in Products
               PROVE  product'[p].stock + sold[p] >= InitialStock[p]
    BY <1>1 DEF StockCoversSales
  <2>1. CASE p = current[w]
    <3>1. loaded[w][p].stock + sold[p] >= InitialStock[p]
      BY <2>1 DEF SaveProduct, StockInv, CopiesCoverSales, CopiesOf
    <3> QED
      BY <2>1, <3>1, SaveProductTypes
  <2>2. CASE p # current[w]
    BY <2>2, SaveProductTypes DEF StockInv, StockCoversSales
  <2> QED
    BY <2>1, <2>2
<1>3. \A p \in Products : sold'[p] \in Nat /\ sold'[p] >= sold[p]
  BY <1>1, Quantities
<1>4. \A v \in Workers : CopiesOf(v)'
  BY <1>1, <1>3, ForgottenCopies, OthersCovered DEF StockInv
<1> QED
  BY <1>2, <1>4 DEF StockInv, CopiesCoverSales

LEMMA NextStock == TypeInv /\ StockInv /\ [Next]_vars => StockInv'
<1> SUFFICES ASSUME TypeInv, StockInv, [Next]_vars PROVE StockInv'
  OBVIOUS
<1>1. ASSUME NEW w \in Workers, NEW u \in Users, Start(w, u)
      PROVE  StockInv'
  BY <1>1, ReadingStock
<1>2. ASSUME NEW w \in Workers, Proceed(w)
      PROVE  StockInv'
  <2>1. CASE CartNotEmpty(w) \/ QuoteCart(w) \/ LastLine(w)
    BY <2>1, ReadingStock
  <2>2. CASE \E number \in OrderNumbers : CreateOrder(w, number)
    BY <2>2, ReadingStock
  <2>3. CASE EmptyCart(w) \/ InsufficientStock(w)
    BY <2>3, RollbackStock DEF EmptyCart, InsufficientStock
  <2>4. CASE ReadItems(w)
    BY <2>4, ReadItemsStock
  <2>5. CASE \E p \in Products : AddLine(w, p)
    BY <2>5, AddLineStock
  <2>6. CASE RefreshStock(w)
    BY <2>6, RefreshStockStock
  <2>7. CASE Commit(w)
    BY <2>7, CommitStock
  <2> QED
    BY <1>2, <2>1, <2>2, <2>3, <2>4, <2>5, <2>6, <2>7 DEF Proceed
<1>3. ASSUME NEW w \in Workers, SaveStock(w)
      PROVE  StockInv'
  BY <1>3, SaveStockStock
<1>4. ASSUME NEW w \in Workers, FinishOrder(w)
      PROVE  StockInv'
  BY <1>4, ReadingStock
<1>5. ASSUME NEW w \in Workers, Fail(w) \/ DeadlockAbort(w)
      PROVE  StockInv'
  BY <1>5, RollbackStock DEF Fail, DeadlockAbort
<1>6. ASSUME NEW w \in Workers, NEW p \in Products, LoadProduct(w, p)
      PROVE  StockInv'
  BY <1>6, LoadProductStock
<1>7. ASSUME NEW w \in Workers, NEW price \in Prices, SaveProduct(w, price)
      PROVE  StockInv'
  BY <1>7, SaveProductStock
<1>8. ASSUME UNCHANGED <<workerVars, product, sold>>
      PROVE  StockInv'
  BY <1>8 DEF workerVars, StockInv, StockCoversSales, CopiesCoverSales, CopiesOf
<1>9. CASE Browse \/ \E x \in Timed : Clock(x)
  BY <1>8, <1>9, OutsideTypes
<1>10. CASE UNCHANGED vars
  BY <1>8, <1>10 DEF vars, storeVars
<1> QED
  BY <1>1, <1>2, <1>3, <1>4, <1>5, <1>6, <1>7, <1>9, <1>10 DEF Next

\* IndInv is an invariant: types, what requests hold, and the cover of the
\* committed stock and of every copy about to be committed.
THEOREM Inductive == Spec => []IndInv
<1>1. Init => TypeInv /\ StockInv
  BY InitTypeInv, InitStockInv
<1>2. TypeInv /\ StockInv /\ [Next]_vars => (TypeInv /\ StockInv)'
  BY NextTypes, NextStock
<1>3. TypeInv /\ StockInv => IndInv
  BY DEF TypeInv, StockInv, IndInv
<1> QED
  BY <1>1, <1>2, <1>3, PTL DEF Spec

\* No unit of a product is lost, however many checkouts, price edits, failures
\* and deadlocks interleave: stock and sales account for the initial stock.
THEOREM StockIsCovered == Spec => []StockCoversSales
<1>1. IndInv => StockCoversSales
  BY DEF IndInv
<1> QED
  BY <1>1, Inductive, PTL

-----------------------------------------------------------------------------
(***************************************************************************)
(* Every order is confirmed, and the uses of a coupon are counted, however *)
(* its increments race.                                                    *)
(***************************************************************************)
\* The request has inserted its order, under a number of its own.
Numbered(w) == pc[w] \in {"items", "loop", "refresh", "save", "finish", "commit"}

\* What a checkout that has inserted its order knows: the number is still its own, the
\* e-mail is queued before the commit, and the counter it read is no more than the orders.
OrderOK(w) ==
  /\ pc[w] = "commit" => form[w].number \in outbox
  /\ Numbered(w) =>
       /\ \A o \in orders : o.number # form[w].number
       /\ \A v \in Workers \ {w} : Numbered(v) => form[v].number # form[w].number
       /\ form[w].coupon # None =>
            form[w].times_used <= Cardinality(OrdersWith(form[w].coupon))

OrderInv ==
  /\ IsFiniteSet(orders)
  /\ OrdersAreConfirmed
  /\ UsesCounted
  /\ \A w \in Workers : OrderOK(w)

LEMMA InitOrderInv == Init => OrderInv
<1> SUFFICES ASSUME Init PROVE OrderInv
  OBVIOUS
<1>1. orders = {} /\ times_used = [c \in Coupons |-> 0]
  BY DEF Init, StoreInit
<1>2. \A c \in Coupons : OrdersWith(c) = {}
  BY <1>1 DEF OrdersWith
<1>3. UsesCounted
  BY <1>1, <1>2, FS_EmptySet DEF UsesCounted
<1>4. \A w \in Workers : OrderOK(w)
  BY DEF Init, OrderOK, Numbered
<1> QED BY <1>1, <1>3, <1>4, FS_EmptySet DEF OrderInv, OrdersAreConfirmed

\* Most steps add no order, and a checkout that has inserted its order keeps its form.
LEMMA OrdersUndisturbed ==
  ASSUME OrderInv, UNCHANGED <<orders, times_used>>, outbox \subseteq outbox',
         \A v \in Workers : Numbered(v)' => Numbered(v) /\ form'[v] = form[v],
         \A v \in Workers : pc'[v] = "commit" => pc[v] = "commit" \/ form[v].number \in outbox'
  PROVE  OrderInv'
<1>1. \A c : OrdersWith(c)' = OrdersWith(c)
  BY DEF OrdersWith
<1>2. OrdersAreConfirmed' /\ IsFiniteSet(orders')
  BY DEF OrderInv, OrdersAreConfirmed
<1>3. UsesCounted'
  BY <1>1 DEF OrderInv, UsesCounted
<1>4. ASSUME NEW w \in Workers PROVE OrderOK(w)'
  <2>1. CASE Numbered(w)'
    <3>1. Numbered(w) /\ form'[w] = form[w] /\ OrderOK(w)
      BY <2>1 DEF OrderInv
    <3>2. pc'[w] = "commit" => form'[w].number \in outbox'
      BY <3>1 DEF OrderOK
    <3>3. \A v \in Workers \ {w} : Numbered(v)' => form'[v].number # form'[w].number
      BY <3>1 DEF OrderOK
    <3> QED BY <1>1, <3>1, <3>2, <3>3 DEF OrderOK
  <2>2. CASE ~ Numbered(w)'
    BY <2>2 DEF OrderOK, Numbered
  <2> QED BY <2>1, <2>2
<1> QED BY <1>2, <1>3, <1>4 DEF OrderInv

\* A step of a request that does not become numbered by it.
LEMMA RequestMovesOn ==
  ASSUME TypeInv, OrderInv, NEW w \in Workers, UNCHANGED <<orders, times_used>>,
         outbox \subseteq outbox', NEW step, pc' = [pc EXCEPT ![w] = step],
         \A v \in Workers \ {w} : form'[v] = form[v],
         step \in {"items", "loop", "refresh", "save", "finish", "commit"} =>
           Numbered(w) /\ form'[w] = form[w],
         step = "commit" => form[w].number \in outbox'
  PROVE  OrderInv'
<1>1. \A v \in Workers : pc'[v] = IF v = w THEN step ELSE pc[v]
  BY DEF TypeInv, TypeOK
<1>2. \A v \in Workers : Numbered(v)' => Numbered(v) /\ form'[v] = form[v]
  BY <1>1 DEF Numbered
<1>3. \A v \in Workers : pc'[v] = "commit" => pc[v] = "commit" \/ form[v].number \in outbox'
  BY <1>1
<1> QED BY <1>2, <1>3, OrdersUndisturbed

LEMMA ForgetOrders ==
  ASSUME TypeInv, OrderInv, NEW w \in Workers, Forget(w), UNCHANGED <<orders, times_used, outbox>>
  PROVE  OrderInv'
<1>1. \A v \in Workers \ {w} : form'[v] = form[v]
  BY DEF Forget, TypeInv, TypeOK
<1>2. pc' = [pc EXCEPT ![w] = "idle"]
  BY DEF Forget, Goto
<1> QED BY <1>1, <1>2, RequestMovesOn

LEMMA RollbackOrders ==
  ASSUME TypeInv, OrderInv, NEW w \in Workers, Rollback(w)
  PROVE  OrderInv'
BY ForgetOrders DEF Rollback, storeVars

\* The statements of a checkout but its INSERT and its commit.
LEMMA StatementOrders ==
  ASSUME TypeInv, OrderInv, NEW w \in Workers,
         \/ \E u \in Users : Start(w, u)
         \/ CartNotEmpty(w) \/ QuoteCart(w) \/ ReadItems(w)
         \/ \E p \in Products : AddLine(w, p)
         \/ RefreshStock(w) \/ SaveStock(w) \/ LastLine(w) \/ FinishOrder(w)
         \/ \E p \in Products : LoadProduct(w, p)
  PROVE  OrderInv'
<1>1. CASE (\E u \in Users : Start(w, u)) \/ QuoteCart(w)
  <2>1. \A v \in Workers \ {w} : form'[v] = form[v]
    BY <1>1 DEF Start, QuoteCart, TypeInv, TypeOK
  <2> QED BY <1>1, <2>1, RequestMovesOn DEF Start, QuoteCart, Goto, storeVars
<1>2. CASE CartNotEmpty(w) \/ ReadItems(w) \/ (\E p \in Products : AddLine(w, p))
           \/ RefreshStock(w) \/ SaveStock(w) \/ LastLine(w)
           \/ \E p \in Products : LoadProduct(w, p)
  <2>1. CASE CartNotEmpty(w)
    BY <2>1, RequestMovesOn DEF CartNotEmpty, Goto, storeVars
  <2>2. CASE ReadItems(w)
    BY <2>2, RequestMovesOn DEF ReadItems, Goto, storeVars, Numbered
  <2>3. CASE \E p \in Products : AddLine(w, p)
    BY <2>3, RequestMovesOn DEF AddLine, Goto, storeVars, Numbered
  <2>4. CASE RefreshStock(w)
    BY <2>4, RequestMovesOn DEF RefreshStock, Goto, storeVars, Numbered
  <2>5. CASE SaveStock(w)
    BY <2>5, RequestMovesOn DEF SaveStock, Goto, storeVars, Numbered
  <2>6. CASE LastLine(w)
    BY <2>6, RequestMovesOn DEF LastLine, Goto, storeVars, Numbered
  <2>7. CASE \E p \in Products : LoadProduct(w, p)
    BY <2>7, RequestMovesOn DEF LoadProduct, Goto, storeVars
  <2> QED BY <1>2, <2>1, <2>2, <2>3, <2>4, <2>5, <2>6, <2>7
<1>3. CASE FinishOrder(w)
  BY <1>3, RequestMovesOn DEF FinishOrder, QueueEmail, Goto, storeVars, Numbered
<1> QED BY <1>1, <1>2, <1>3

-----------------------------------------------------------------------------
\* The number is one that no order and no other request has, and the counter was committed.
LEMMA CreateOrderOrders ==
  ASSUME TypeInv, OrderInv, NEW w \in Workers, NEW number \in OrderNumbers,
         CreateOrder(w, number)
  PROVE  OrderInv'
<1>1. /\ UNCHANGED <<orders, times_used, outbox>>
      /\ \A v \in Workers : pc'[v] = IF v = w THEN "items" ELSE pc[v]
      /\ \A v \in Workers \ {w} : form'[v] = form[v]
  BY DEF CreateOrder, Goto, storeVars, TypeInv, TypeOK
<1>2. form[w].coupon \in Coupons \cup {None} /\ form'[w].number = number
      /\ form'[w].coupon = form[w].coupon
      /\ (form[w].coupon # None => form'[w].times_used = times_used[form[w].coupon])
  BY DEF CreateOrder, TypeInv, TypeOK, Form
<1>3. /\ \A o \in orders : o.number # number
      /\ \A v \in Workers : form[v].number # number
  BY DEF CreateOrder, FreeNumbers
<1>4. \A c : OrdersWith(c)' = OrdersWith(c)
  BY <1>1 DEF OrdersWith
<1>5. OrdersAreConfirmed' /\ IsFiniteSet(orders') /\ UsesCounted'
  BY <1>1, <1>4 DEF OrderInv, OrdersAreConfirmed, UsesCounted
<1>6. OrderOK(w)'
  <2>1. form'[w].coupon # None =>
          form'[w].times_used <= Cardinality(OrdersWith(form'[w].coupon))
    BY <1>2 DEF OrderInv, UsesCounted
  <2> QED BY <1>1, <1>2, <1>3, <1>4, <2>1 DEF OrderOK
<1>7. ASSUME NEW v \in Workers \ {w} PROVE OrderOK(v)'
  <2>1. OrderOK(v) /\ (Numbered(v)' <=> Numbered(v)) /\ form'[v] = form[v]
    BY <1>1 DEF OrderInv, Numbered
  <2>2. Numbered(v) => \A x \in Workers \ {v} : Numbered(x)' => form'[x].number # form'[v].number
    BY <1>1, <1>2, <1>3, <2>1 DEF OrderOK, Numbered
  <2> QED BY <1>1, <1>4, <2>1, <2>2 DEF OrderOK
<1> QED BY <1>5, <1>6, <1>7 DEF OrderInv

\* A commit adds one order to those with its coupon, and the counter becomes what it read
\* and one: at most the orders there are now, and at least one.
LEMMA CommitOrders ==
  ASSUME TypeInv, OrderInv, NEW w \in Workers, Commit(w)
  PROVE  OrderInv'
<1> DEFINE new == [number |-> form[w].number, user |-> form[w].user, coupon |-> form[w].coupon,
                   granted |-> form[w].granted, quoted |-> form[w].quoted, lines |-> lines[w]]
<1> SUFFICES ASSUME NEW o, o = new
             PROVE  OrderInv'
  OBVIOUS
<1>1. /\ orders' = orders \cup {o}
      /\ o.number = form[w].number
      /\ o.coupon = form[w].coupon
      /\ outbox' = outbox
      /\ \A v \in Workers : pc'[v] = IF v = w THEN "idle" ELSE pc[v]
      /\ \A v \in Workers \ {w} : form'[v] = form[v]
  BY DEF Commit, Forget, Goto, TypeInv, TypeOK
<1>2. pc[w] = "commit" /\ Numbered(w) /\ OrderOK(w)
  BY DEF Commit, OrderInv, Numbered
<1>3. o \notin orders /\ o.number \in outbox
  BY <1>1, <1>2 DEF OrderOK
<1>4. /\ form[w].times_used \in Nat
      /\ form[w].coupon \in Coupons \cup {None}
      /\ times_used \in [Coupons -> Nat]
  BY DEF TypeInv, TypeOK, StoreTypeOK, Form
<1>5. \A c : IsFiniteSet(OrdersWith(c)) /\ Cardinality(OrdersWith(c)) \in Nat
  <2>1. \A c : OrdersWith(c) \subseteq orders
    BY DEF OrdersWith
  <2> QED BY <2>1, FS_Subset, FS_CardinalityType DEF OrderInv
<1>6. ASSUME NEW c
      PROVE  /\ OrdersWith(c)' = IF c = o.coupon THEN OrdersWith(c) \cup {o} ELSE OrdersWith(c)
             /\ Cardinality(OrdersWith(c)')
                  = IF c = o.coupon THEN Cardinality(OrdersWith(c)) + 1 ELSE Cardinality(OrdersWith(c))
  <2>1. OrdersWith(c)' = IF c = o.coupon THEN OrdersWith(c) \cup {o} ELSE OrdersWith(c)
    BY <1>1 DEF OrdersWith
  <2>2. o \notin OrdersWith(c)
    BY <1>3 DEF OrdersWith
  <2> QED BY <1>5, <2>1, <2>2, FS_AddElement
<1>7. IsFiniteSet(orders')
  BY <1>1, FS_AddElement DEF OrderInv
<1>8. OrdersAreConfirmed'
  BY <1>1, <1>3 DEF OrdersAreConfirmed, OrderInv
<1>9. UsesCounted'
  <2> SUFFICES ASSUME NEW c \in Coupons
               PROVE  /\ times_used'[c] <= Cardinality(OrdersWith(c)')
                      /\ OrdersWith(c)' # {} => times_used'[c] >= 1
    BY DEF UsesCounted
  <2>1. CASE c = form[w].coupon
    <3>1. times_used'[c] = form[w].times_used + 1
      BY <2>1 DEF Commit, CountedUses
    <3>2. c # None
      BY ConstantTypes
    <3>3. form[w].times_used <= Cardinality(OrdersWith(c))
      BY <1>2, <2>1, <3>2 DEF OrderOK
    <3> QED BY <1>1, <1>4, <1>5, <1>6, <2>1, <3>1, <3>3
  <2>2. CASE c # form[w].coupon
    <3>1. times_used'[c] = times_used[c]
      BY <2>2 DEF Commit
    <3> QED BY <1>1, <1>6, <2>2, <3>1 DEF OrderInv, UsesCounted
  <2> QED BY <2>1, <2>2
<1>10. ASSUME NEW v \in Workers PROVE OrderOK(v)'
  <2>1. CASE v = w
    BY <1>1, <2>1 DEF OrderOK, Numbered
  <2>2. CASE v # w
    <3>1. OrderOK(v) /\ (Numbered(v)' <=> Numbered(v)) /\ form'[v] = form[v]
      BY <1>1, <2>2 DEF OrderInv, Numbered
    <3>2. Numbered(v) => \A x \in orders' : x.number # form[v].number
      BY <1>1, <1>2, <2>2, <3>1 DEF OrderOK
    <3>3. \A x \in Workers \ {v} : Numbered(x)' => x # w /\ Numbered(x) /\ form'[x] = form[x]
      BY <1>1 DEF Numbered
    <3>4. form[v].times_used \in Nat
      BY DEF TypeInv, TypeOK, Form
    <3>5. Numbered(v)' /\ form'[v].coupon # None =>
            form'[v].times_used <= Cardinality(OrdersWith(form[v].coupon))'
      <4> SUFFICES ASSUME NEW c, c = form[v].coupon, Numbered(v), c # None
                   PROVE  form[v].times_used <= Cardinality(OrdersWith(c)')
        BY <3>1
      <4> QED BY <1>5, <1>6, <3>1, <3>4 DEF OrderOK
    <3> QED BY <1>1, <2>2, <3>1, <3>2, <3>3, <3>5 DEF OrderOK
  <2> QED BY <2>1, <2>2
<1> QED BY <1>7, <1>8, <1>9, <1>10 DEF OrderInv

LEMMA NextOrders == TypeInv /\ OrderInv /\ [Next]_vars => OrderInv'
<1> SUFFICES ASSUME TypeInv, OrderInv, [Next]_vars PROVE OrderInv'
  OBVIOUS
<1>1. ASSUME NEW w \in Workers, NEW u \in Users, Start(w, u) PROVE OrderInv'
  BY <1>1, StatementOrders
<1>2. ASSUME NEW w \in Workers, Proceed(w) PROVE OrderInv'
  <2>1. CASE \E number \in OrderNumbers : CreateOrder(w, number)
    BY <2>1, CreateOrderOrders
  <2>2. CASE EmptyCart(w) \/ InsufficientStock(w)
    BY <2>2, RollbackOrders DEF EmptyCart, InsufficientStock
  <2>3. CASE Commit(w)
    BY <2>3, CommitOrders
  <2> QED BY <1>2, <2>1, <2>2, <2>3, StatementOrders DEF Proceed
<1>3. ASSUME NEW w \in Workers, SaveStock(w) \/ FinishOrder(w) PROVE OrderInv'
  BY <1>3, StatementOrders
<1>4. ASSUME NEW w \in Workers, Fail(w) \/ DeadlockAbort(w) PROVE OrderInv'
  BY <1>4, RollbackOrders DEF Fail, DeadlockAbort
<1>5. ASSUME NEW w \in Workers, NEW p \in Products, LoadProduct(w, p) PROVE OrderInv'
  BY <1>5, StatementOrders
<1>6. ASSUME NEW w \in Workers, NEW price \in Prices, SaveProduct(w, price) PROVE OrderInv'
  BY <1>6, ForgetOrders DEF SaveProduct
<1>7. ASSUME UNCHANGED <<pc, form, orders, times_used, outbox>> PROVE OrderInv'
  BY <1>7, OrdersUndisturbed DEF Numbered
<1>8. CASE Browse
  <2>1. UNCHANGED <<orders, times_used>>
    BY <1>8 DEF Browse, CartRequest, AddItem, UpdateItem, RemoveItem, ClearCart, ApplyCoupon,
      RemoveCoupon
  <2> QED BY <1>7, <1>8, <2>1 DEF Browse, workerVars
<1>9. CASE \E x \in Timed : Clock(x)
  BY <1>7, <1>9 DEF Clock, WindowEdge, workerVars
<1>10. CASE UNCHANGED vars
  BY <1>7, <1>10 DEF vars, storeVars, workerVars
<1> QED BY <1>1, <1>2, <1>3, <1>4, <1>5, <1>6, <1>8, <1>9, <1>10 DEF Next

LEMMA OrdersInductive == Spec => [](TypeInv /\ OrderInv)
<1>1. Init => TypeInv /\ OrderInv
  BY InitTypeInv, InitOrderInv
<1>2. TypeInv /\ OrderInv /\ [Next]_vars => (TypeInv /\ OrderInv)'
  BY NextTypes, NextOrders
<1> QED BY <1>1, <1>2, PTL DEF Spec

\* A coupon that any order carries has been counted, and never more often than there are
\* orders that carry it, however the increments of Coupon.times_used race.
THEOREM CouponUsesAreCounted == Spec => []UsesCounted
<1>1. TypeInv /\ OrderInv => UsesCounted
  BY DEF OrderInv
<1> QED BY <1>1, OrdersInductive, PTL

\* No order is committed without its confirmation e-mail in the broker's queue, because
\* the e-mail is queued before the commit.
THEOREM EveryOrderIsConfirmed == Spec => []OrdersAreConfirmed
<1>1. TypeInv /\ OrderInv => OrdersAreConfirmed
  BY DEF OrderInv
<1> QED BY <1>1, OrdersInductive, PTL

-----------------------------------------------------------------------------
(***************************************************************************)
(* Serial requests: one worker, for every set of products, users and       *)
(* coupons.  What a checkout reads is then still so when it commits.       *)
(***************************************************************************)
OneWorker == \A v, w \in Workers : v = w

\* The steps after the loop's query, when the order items exist.
Looping(w) == pc[w] \in {"loop", "refresh", "save", "finish", "commit"}

\* With one worker nobody else touches the cart of a checkout that runs: it has
\* the items and the coupon the request read.
CartKept(w) ==
  LET u == form[w].user IN
  /\ pc[w] \notin {"idle", "edit"} => form[w].coupon = applied[u]
  /\ pc[w] \notin {"idle", "edit", "exists"} => HasItems(u)
  /\ Looping(w) =>
       /\ \A p \in Products : lines[w][p].quantity = items[u][p]
       /\ \A p \in Products : items[u][p] > 0 <=> p \in todo[w] \cup locked[w]
  /\ pc[w] \in {"finish", "commit"} => todo[w] = {}

\* Nor the rows of its products: a copy is the row itself until the request
\* writes it, and then the row without what is in the cart.
RowsKept(w) ==
  LET u == form[w].user IN
  /\ pc[w] = "edit" => loaded[w][current[w]] = product[current[w]]
  /\ Looping(w) =>
       /\ \A p \in todo[w] : loaded[w][p] = product[p]
       /\ \A p \in locked[w] :
            /\ items[u][p] <= product[p].stock
            /\ loaded[w][p] = Decreased(product[p], items[u][p])

KeptInv == \A w \in Workers : CartKept(w) /\ RowsKept(w)

\* The coupon's counter is the one the request read, and a discount was
\* granted only below the limit.
UsesKept(w) ==
  Numbered(w) =>
    /\ form[w].coupon # None => form[w].times_used = times_used[form[w].coupon]
    /\ form[w].granted # None =>
         /\ form[w].granted = form[w].coupon
         /\ form[w].times_used < MaxUses[form[w].granted]

\* The orders that got a coupon's discount.
DiscountedBy(c) == {o \in orders : o.granted = c}

UsesInv ==
  /\ \A w \in Workers : UsesKept(w)
  /\ \A c \in Coupons :
       /\ Cardinality(DiscountedBy(c)) <= times_used[c]
       /\ Cardinality(DiscountedBy(c)) <= MaxUses[c]

\* Unless a window opens or closes, the prices and the coupon's validity are
\* those of the moment the amounts were computed.
AmountsKept(w) ==
  LET u == form[w].user IN
  /\ pc[w] \notin {"idle", "edit", "exists", "totals"} => form[w].quoted = PricedLines(u)
  /\ Numbered(w) => form[w].granted = Granted(form[w].coupon)
  /\ Looping(w) =>
       \A p \in Products :
         p \notin todo[w] \/ (pc[w] \in {"refresh", "save"} /\ p = current[w])
           => lines[w][p] = PricedLines(u)[p]

AmountsInv == (\A w \in Workers : AmountsKept(w)) /\ QuoteMatchesLines

\* With one worker, what holds of the worker that moves holds of all.
LEMMA OnlyWorker ==
  ASSUME OneWorker, NEW w \in Workers
  PROVE  \A v \in Workers : v = w
BY DEF OneWorker

\* A request that ends keeps nothing.
LEMMA ForgetKept ==
  ASSUME OneWorker, TypeInv, NEW w \in Workers, Forget(w)
  PROVE  KeptInv'
<1>1. pc'[w] = "idle"
  BY DEF Forget, Goto, TypeInv, TypeOK
<1>2. CartKept(w)' /\ RowsKept(w)'
  BY <1>1 DEF CartKept, RowsKept, Looping
<1> QED
  BY <1>2, OnlyWorker DEF KeptInv

LEMMA StartKept ==
  ASSUME OneWorker, TypeInv, NEW w \in Workers, NEW u \in Users, Start(w, u)
  PROVE  KeptInv'
<1>1. pc'[w] = "exists" /\ applied' = applied
  BY DEF Start, Goto, TypeInv, TypeOK, storeVars
<1>2. form'[w].user = u /\ form'[w].coupon = applied[u]
  BY DEF Start, TypeInv, TypeOK, Form
<1>3. CartKept(w)' /\ RowsKept(w)'
  BY <1>1, <1>2 DEF CartKept, RowsKept, Looping
<1> QED
  BY <1>3, OnlyWorker DEF KeptInv

\* The amounts are computed from the cart at this moment.
LEMMA QuotedForm ==
  ASSUME TypeInv, NEW w \in Workers, QuoteCart(w)
  PROVE  /\ form'[w].user = form[w].user
         /\ form'[w].coupon = form[w].coupon
         /\ form'[w].quoted = PricedLines(form[w].user)
<1>1. PICK q : q = PricedLines(form[w].user)
  OBVIOUS
<1>2. form' = [form EXCEPT ![w] = [form[w] EXCEPT !.quoted = q]]
  BY <1>1 DEF QuoteCart
<1>3. form \in [Workers -> Form]
  BY DEF TypeInv, TypeOK
<1>4. form'[w] = [form[w] EXCEPT !.quoted = q]
  BY <1>2, <1>3
<1> QED
  BY <1>1, <1>3, <1>4 DEF Form

\* The order is inserted with the coupon's discount and counter of this moment.
LEMMA CreatedForm ==
  ASSUME TypeInv, NEW w \in Workers, NEW number \in OrderNumbers, CreateOrder(w, number)
  PROVE  /\ form'[w].user = form[w].user
         /\ form'[w].coupon = form[w].coupon
         /\ form'[w].quoted = form[w].quoted
         /\ form'[w].number = number
         /\ form'[w].granted = Granted(form[w].coupon)
         /\ form[w].coupon # None => form'[w].times_used = times_used[form[w].coupon]
<1>1. PICK g, k : /\ g = Granted(form[w].coupon)
                 /\ k = IF form[w].coupon = None THEN 0 ELSE times_used[form[w].coupon]
  OBVIOUS
<1>2. form' = [form EXCEPT ![w] =
                [form[w] EXCEPT !.number = number, !.granted = g, !.times_used = k]]
  BY <1>1 DEF CreateOrder
<1>3. form \in [Workers -> Form]
  BY DEF TypeInv, TypeOK
<1>4. form'[w] = [form[w] EXCEPT !.number = number, !.granted = g, !.times_used = k]
  BY <1>2, <1>3
<1> QED
  BY <1>1, <1>3, <1>4 DEF Form

\* The statements before the loop's query, and those that only go on to the
\* next one.
LEMMA GoingOnKept ==
  ASSUME OneWorker, TypeInv, KeptInv, NEW w \in Workers,
         UNCHANGED <<product, items, applied, lines, todo, current, loaded, locked>>,
         form'[w].user = form[w].user, form'[w].coupon = form[w].coupon,
         pc[w] \notin {"idle", "edit"}, pc'[w] \notin {"idle", "edit", "exists"},
         Looping(w)' => Looping(w),
         pc[w] = "exists" => HasItems(form[w].user),
         pc'[w] \in {"finish", "commit"} => todo[w] = {}
  PROVE  KeptInv'
<1>1. CartKept(w) /\ RowsKept(w)
  BY DEF KeptInv
<1>2. HasItems(form[w].user)' = HasItems(form[w].user)
  BY DEF HasItems
<1>3. CartKept(w)'
  BY <1>1, <1>2 DEF CartKept
<1>4. RowsKept(w)'
  BY <1>1 DEF RowsKept
<1> QED
  BY <1>3, <1>4, OnlyWorker DEF KeptInv

LEMMA SimpleStepsKept ==
  ASSUME OneWorker, TypeInv, KeptInv, NEW w \in Workers,
         \/ CartNotEmpty(w) \/ QuoteCart(w)
         \/ \E number \in OrderNumbers : CreateOrder(w, number)
         \/ LastLine(w) \/ FinishOrder(w)
  PROVE  KeptInv'
<1>1. CASE CartNotEmpty(w)
  <2>1. pc'[w] = "totals"
    BY <1>1 DEF CartNotEmpty, Goto, TypeInv, TypeOK
  <2> QED
    BY <1>1, <2>1, GoingOnKept DEF CartNotEmpty, storeVars, Looping
<1>2. CASE QuoteCart(w)
  <2>1. pc'[w] = "create"
    BY <1>2 DEF QuoteCart, Goto, TypeInv, TypeOK
  <2>2. form'[w].user = form[w].user /\ form'[w].coupon = form[w].coupon
    BY <1>2, QuotedForm
  <2> QED
    BY <1>2, <2>1, <2>2, GoingOnKept DEF QuoteCart, storeVars, Looping
<1>3. ASSUME NEW number \in OrderNumbers, CreateOrder(w, number)
      PROVE  KeptInv'
  <2>1. pc'[w] = "items"
    BY <1>3 DEF CreateOrder, Goto, TypeInv, TypeOK
  <2>2. form'[w].user = form[w].user /\ form'[w].coupon = form[w].coupon
    BY <1>3, CreatedForm
  <2> QED
    BY <1>3, <2>1, <2>2, GoingOnKept DEF CreateOrder, storeVars, Looping
<1>4. CASE LastLine(w)
  <2>1. pc'[w] = "finish"
    BY <1>4 DEF LastLine, Goto, TypeInv, TypeOK
  <2> QED
    BY <1>4, <2>1, GoingOnKept DEF LastLine, storeVars, Looping
<1>5. CASE FinishOrder(w)
  <2>1. pc'[w] = "commit"
    BY <1>5 DEF FinishOrder, Goto, TypeInv, TypeOK
  <2>2. todo[w] = {}
    BY <1>5 DEF FinishOrder, KeptInv, CartKept
  <2> QED
    BY <1>5, <2>1, <2>2, GoingOnKept DEF FinishOrder, storeVars, Looping
<1> QED
  BY <1>1, <1>2, <1>3, <1>4, <1>5

\* The loop's query finds the cart that was counted.
LEMMA ReadItemsKept ==
  ASSUME OneWorker, TypeInv, KeptInv, NEW w \in Workers, ReadItems(w)
  PROVE  KeptInv'
<1> DEFINE u == form[w].user
           bought == {p \in Products : items[u][p] > 0}
<1>1. /\ pc[w] = "items" /\ pc'[w] = "loop"
      /\ UNCHANGED <<product, items, applied, form, locked>>
      /\ locked[w] = {} /\ u \in Users
  BY DEF ReadItems, Goto, TypeInv, TypeOK, storeVars, RequestOK, HeldBy
<1>2. /\ \A p \in Products : lines'[w][p].quantity = items[u][p]
      /\ todo'[w] = bought
      /\ \A p \in bought : loaded'[w][p] = product[p]
  BY DEF ReadItems, TypeInv, TypeOK
<1>3. CartKept(w)
  BY DEF KeptInv
<1>4. HasItems(form[w].user)' = HasItems(form[w].user)
  BY <1>1 DEF HasItems
<1>5. CartKept(w)'
  BY <1>1, <1>2, <1>3, <1>4 DEF CartKept, Looping
<1>6. RowsKept(w)'
  BY <1>1, <1>2 DEF RowsKept, Looping
<1> QED
  BY <1>5, <1>6, OnlyWorker DEF KeptInv

LEMMA AddLineKept ==
  ASSUME OneWorker, TypeInv, KeptInv, NEW w \in Workers, NEW p \in Products, AddLine(w, p)
  PROVE  KeptInv'
<1>1. /\ pc[w] = "loop" /\ pc'[w] = "refresh"
      /\ UNCHANGED <<product, items, applied, form, locked, todo, loaded>>
  BY DEF AddLine, Goto, TypeInv, TypeOK, storeVars
<1>2. \A q \in Products : lines'[w][q].quantity = lines[w][q].quantity
  BY AddLineTypes
<1>3. CartKept(w) /\ RowsKept(w)
  BY DEF KeptInv
<1>4. HasItems(form[w].user)' = HasItems(form[w].user)
  BY <1>1 DEF HasItems
<1>5. CartKept(w)'
  BY <1>1, <1>2, <1>3, <1>4 DEF CartKept, Looping
<1>6. RowsKept(w)'
  BY <1>1, <1>3 DEF RowsKept, Looping
<1> QED
  BY <1>5, <1>6, OnlyWorker DEF KeptInv

LEMMA SameStock ==
  ASSUME NEW r \in ProductRow
  PROVE  [r EXCEPT !.stock = r.stock] = r
BY DEF ProductRow

\* The stock is read again, and is what it was.
LEMMA RefreshStockKept ==
  ASSUME OneWorker, TypeInv, KeptInv, NEW w \in Workers, RefreshStock(w)
  PROVE  KeptInv' /\ loaded' = loaded
<1> DEFINE p == current[w]
<1>1. /\ pc[w] = "refresh" /\ pc'[w] = "save"
      /\ UNCHANGED <<product, items, applied, form, locked, todo, lines, current>>
      /\ p \in todo[w] /\ p \in Products
  BY DEF RefreshStock, Goto, TypeInv, TypeOK, storeVars, RequestOK, HeldBy
<1>2. CartKept(w) /\ RowsKept(w)
  BY DEF KeptInv
<1>3. loaded[w][p] = product[p] /\ product[p] \in ProductRow
  BY <1>1, <1>2 DEF RowsKept, Looping, TypeInv, TypeOK, StoreTypeOK
<1>4. loaded' = loaded
  <2>1. loaded' = [loaded EXCEPT ![w] = [loaded[w] EXCEPT ![p] =
                     [loaded[w][p] EXCEPT !.stock = product[p].stock]]]
    BY DEF RefreshStock
  <2>2. [loaded[w][p] EXCEPT !.stock = product[p].stock] = loaded[w][p]
    BY <1>3, SameStock
  <2>3. loaded \in [Workers -> [Products -> ProductRow]]
    BY DEF TypeInv, TypeOK
  <2> QED
    BY <2>1, <2>2, <2>3
<1>5. HasItems(form[w].user)' = HasItems(form[w].user)
  BY <1>1 DEF HasItems
<1>6. CartKept(w)'
  BY <1>1, <1>2, <1>5 DEF CartKept, Looping
<1>7. RowsKept(w)'
  BY <1>1, <1>2, <1>4 DEF RowsKept, Looping
<1> QED
  BY <1>4, <1>6, <1>7, OnlyWorker DEF KeptInv

\* The row that is written is the row in the table, decreased by what is in
\* the cart and was found to be there.
LEMMA SaveStockKept ==
  ASSUME OneWorker, TypeInv, KeptInv, NEW w \in Workers, SaveStock(w)
  PROVE  KeptInv'
<1> DEFINE p == current[w]
<1>1. /\ pc[w] = "save" /\ pc'[w] = "loop"
      /\ UNCHANGED <<product, items, applied, form, lines>>
      /\ p \in todo[w] /\ p \in Products
      /\ loaded[w][p].stock >= lines[w][p].quantity
      /\ todo[w] \subseteq Products /\ locked[w] \subseteq Products
      /\ todo[w] \cap locked[w] = {}
  BY DEF SaveStock, Goto, TypeInv, TypeOK, storeVars, RequestOK, HeldBy
<1>2. CartKept(w) /\ RowsKept(w)
  BY DEF KeptInv
<1>3. loaded[w][p] = product[p] /\ lines[w][p].quantity = items[form[w].user][p]
  BY <1>1, <1>2 DEF CartKept, RowsKept, Looping
<1>4. /\ todo'[w] = todo[w] \ {p}
      /\ locked'[w] = locked[w] \cup {p}
      /\ loaded'[w][p] = Decreased(loaded[w][p], lines[w][p].quantity)
      /\ \A q \in Products \ {p} : loaded'[w][q] = loaded[w][q]
  BY <1>1 DEF SaveStock, TypeInv, TypeOK
<1>5. HasItems(form[w].user)' = HasItems(form[w].user)
  BY <1>1 DEF HasItems
<1>6. CartKept(w)'
  BY <1>1, <1>2, <1>4, <1>5 DEF CartKept, Looping
<1>7. items[form[w].user][p] <= product[p].stock
  <2>1. loaded[w][p].stock \in Nat /\ lines[w][p].quantity \in Nat
    BY <1>1, Quantities
  <2> QED
    BY <2>1, <1>1, <1>3
<1>8. RowsKept(w)'
  BY <1>1, <1>2, <1>3, <1>4, <1>7 DEF RowsKept, Looping
<1> QED
  BY <1>6, <1>8, OnlyWorker DEF KeptInv

LEMMA LoadProductKept ==
  ASSUME OneWorker, TypeInv, NEW w \in Workers, NEW p \in Products, LoadProduct(w, p)
  PROVE  KeptInv'
<1>1. /\ pc'[w] = "edit" /\ product' = product
      /\ current'[w] = p /\ loaded'[w][p] = product[p]
  BY DEF LoadProduct, Goto, TypeInv, TypeOK, storeVars
<1>2. CartKept(w)' /\ RowsKept(w)'
  BY <1>1 DEF CartKept, RowsKept, Looping
<1> QED
  BY <1>2, OnlyWorker DEF KeptInv

\* While the only worker is idle there is nothing to keep.
LEMMA BrowseKept ==
  ASSUME OneWorker, Browse
  PROVE  KeptInv'
<1>1. PICK w \in Workers : pc'[w] = "idle"
  BY DEF Browse, workerVars
<1>2. CartKept(w)' /\ RowsKept(w)'
  BY <1>1 DEF CartKept, RowsKept, Looping
<1> QED
  BY <1>2, OnlyWorker DEF KeptInv

LEMMA UnchangedKept ==
  ASSUME KeptInv, UNCHANGED <<workerVars, product, items, applied>>
  PROVE  KeptInv'
BY DEF KeptInv, CartKept, RowsKept, Looping, HasItems, workerVars

LEMMA NextKept == OneWorker /\ TypeInv /\ KeptInv /\ [Next]_vars => KeptInv'
<1> SUFFICES ASSUME OneWorker, TypeInv, KeptInv, [Next]_vars PROVE KeptInv'
  OBVIOUS
<1>1. ASSUME NEW w \in Workers, NEW u \in Users, Start(w, u) PROVE KeptInv'
  BY <1>1, StartKept
<1>2. ASSUME NEW w \in Workers, Proceed(w) PROVE KeptInv'
  <2>1. CASE EmptyCart(w) \/ InsufficientStock(w) \/ Commit(w)
    BY <2>1, ForgetKept DEF EmptyCart, InsufficientStock, Commit, Rollback
  <2>2. CASE ReadItems(w)
    BY <2>2, ReadItemsKept
  <2>3. CASE \E p \in Products : AddLine(w, p)
    BY <2>3, AddLineKept
  <2>4. CASE RefreshStock(w)
    BY <2>4, RefreshStockKept
  <2> QED BY <1>2, <2>1, <2>2, <2>3, <2>4, SimpleStepsKept DEF Proceed
<1>3. ASSUME NEW w \in Workers, SaveStock(w) PROVE KeptInv'
  BY <1>3, SaveStockKept
<1>4. ASSUME NEW w \in Workers, FinishOrder(w) PROVE KeptInv'
  BY <1>4, SimpleStepsKept
<1>5. ASSUME NEW w \in Workers, Fail(w) \/ DeadlockAbort(w) PROVE KeptInv'
  BY <1>5, ForgetKept DEF Fail, DeadlockAbort, Rollback
<1>6. ASSUME NEW w \in Workers, NEW p \in Products, LoadProduct(w, p) PROVE KeptInv'
  BY <1>6, LoadProductKept
<1>7. ASSUME NEW w \in Workers, NEW price \in Prices, SaveProduct(w, price) PROVE KeptInv'
  BY <1>7, ForgetKept DEF SaveProduct
<1>8. CASE Browse
  BY <1>8, BrowseKept
<1>9. CASE \E x \in Timed : Clock(x)
  BY <1>9, UnchangedKept DEF Clock, WindowEdge
<1>10. CASE UNCHANGED vars
  BY <1>10, UnchangedKept DEF vars, storeVars
<1> QED BY <1>1, <1>2, <1>3, <1>4, <1>5, <1>6, <1>7, <1>8, <1>9, <1>10 DEF Next

-----------------------------------------------------------------------------
LEMMA InitKept == Init => KeptInv
BY DEF Init, KeptInv, CartKept, RowsKept, Looping

LEMMA DecreasedRow ==
  ASSUME NEW r \in ProductRow, NEW n \in Nat, n <= r.stock
  PROVE  Decreased(r, n).stock = r.stock - n
<1>1. r.stock - n \in Nat
  BY DEF ProductRow
<1>2. /\ [r EXCEPT !.stock = r.stock - n] \in ProductRow
      /\ [r EXCEPT !.stock = r.stock - n].stock = r.stock - n
  BY <1>1, RowWithStock
<1> QED
  BY <1>2, SavedType DEF Decreased

\* A checkout writes each of its rows once, with what is in the cart, and
\* that is what it records as sold.
LEMMA CommitExact ==
  ASSUME TypeInv, KeptInv, ExactStock, NEW w \in Workers, Commit(w)
  PROVE  ExactStock'
<1> SUFFICES ASSUME NEW p \in Products
             PROVE  product'[p].stock + sold'[p] = InitialStock[p]
  BY DEF ExactStock
<1>1. /\ Looping(w) /\ pc[w] = "commit"
      /\ sold'[p] = sold[p] + lines[w][p].quantity
      /\ p \in locked[w] => product'[p] = loaded[w][p]
      /\ p \notin locked[w] => product'[p] = product[p]
  BY DEF Commit, Looping
<1>2. CartKept(w) /\ RowsKept(w) /\ product[p].stock + sold[p] = InitialStock[p]
  BY DEF KeptInv, ExactStock
<1> DEFINE n == items[form[w].user][p]
<1>3. /\ todo[w] = {} /\ lines[w][p].quantity = n
      /\ n > 0 <=> p \in locked[w]
  BY <1>1, <1>2 DEF CartKept
<1>4. product[p].stock \in Nat /\ lines[w][p].quantity \in Nat /\ sold[p] \in Nat
  BY Quantities
<1>5. CASE p \in locked[w]
  <2>1. loaded[w][p] = Decreased(product[p], n) /\ n <= product[p].stock
    BY <1>1, <1>2, <1>5 DEF RowsKept
  <2>2. product[p] \in ProductRow
    BY DEF TypeInv, TypeOK, StoreTypeOK
  <2>3. Decreased(product[p], n).stock = product[p].stock - n
    BY <2>1, <2>2, <1>3, <1>4, DecreasedRow
  <2> QED
    BY <2>1, <2>3, <1>1, <1>2, <1>3, <1>4, <1>5
<1>6. CASE p \notin locked[w]
  BY <1>1, <1>2, <1>3, <1>4, <1>6
<1> QED
  BY <1>5, <1>6

\* A staff edit writes back the stock it read, which is the stock.
LEMMA SaveProductExact ==
  ASSUME TypeInv, KeptInv, ExactStock, NEW w \in Workers, NEW price \in Prices,
         SaveProduct(w, price)
  PROVE  ExactStock'
<1>1. sold' = sold /\ pc[w] = "edit"
  BY DEF SaveProduct
<1>2. loaded[w][current[w]] = product[current[w]]
  BY <1>1 DEF KeptInv, RowsKept
<1> QED
  BY <1>1, <1>2, SaveProductTypes DEF ExactStock

\* Only a commit and a staff edit change the stock.
LEMMA StockSteps ==
  ASSUME [Next]_vars
  PROVE  \/ \E w \in Workers : Commit(w)
         \/ \E w \in Workers, price \in Prices : SaveProduct(w, price)
         \/ UNCHANGED <<product, sold, orders>> /\ (times_used' = times_used)
<1> DEFINE Same == UNCHANGED <<product, sold, orders>> /\ (times_used' = times_used)
<1>1. ASSUME NEW w \in Workers,
             \/ \E u \in Users : Start(w, u)
             \/ SaveStock(w) \/ FinishOrder(w) \/ Fail(w) \/ DeadlockAbort(w)
             \/ \E p \in Products : LoadProduct(w, p)
      PROVE  Same
  BY <1>1 DEF Start, SaveStock, FinishOrder, Fail, DeadlockAbort, LoadProduct, Rollback, storeVars
<1>2. ASSUME NEW w \in Workers, Proceed(w)
      PROVE  Same \/ Commit(w)
  BY <1>2 DEF Proceed, CartNotEmpty, EmptyCart, QuoteCart, CreateOrder, ReadItems, AddLine,
              RefreshStock, InsufficientStock, LastLine, Rollback, storeVars
<1>3. CASE Browse
  BY <1>3 DEF Browse, CartRequest, AddItem, UpdateItem, RemoveItem, ClearCart, ApplyCoupon,
              RemoveCoupon
<1>4. CASE \E x \in Timed : Clock(x)
  BY <1>4 DEF Clock, WindowEdge
<1>5. CASE UNCHANGED vars
  BY <1>5 DEF vars, storeVars
<1> QED
  BY <1>1, <1>2, <1>3, <1>4, <1>5 DEF Next

LEMMA NextExact == TypeInv /\ KeptInv /\ ExactStock /\ [Next]_vars => ExactStock'
<1> SUFFICES ASSUME TypeInv, KeptInv, ExactStock, [Next]_vars PROVE ExactStock'
  OBVIOUS
<1>1. CASE UNCHANGED <<product, sold, orders>>
  BY <1>1 DEF ExactStock
<1> QED
  BY <1>1, StockSteps, CommitExact, SaveProductExact

LEMMA InitExact == Init => ExactStock
BY ConstantTypes DEF Init, StoreInit, ExactStock

\* With one worker, whatever windows open and close: KeptInv is an invariant.
LEMMA KeptInductive ==
  ASSUME OneWorker
  PROVE  Spec => [](TypeInv /\ KeptInv)
<1>1. Init => TypeInv /\ KeptInv
  BY InitTypeInv, InitKept
<1>2. TypeInv /\ KeptInv /\ [Next]_vars => (TypeInv /\ KeptInv)'
  BY NextTypes, NextKept
<1> QED
  BY <1>1, <1>2, PTL DEF Spec

\* When requests are served one at a time the stock is exact: what is left and
\* what was sold add up to what there was, for every product.
THEOREM SerialStockIsExact ==
  ASSUME OneWorker
  PROVE  Spec => []ExactStock
<1>1. Init => ExactStock
  BY InitExact
<1>2. TypeInv /\ KeptInv /\ ExactStock /\ [Next]_vars => ExactStock'
  BY NextExact
<1> QED
  BY <1>1, <1>2, KeptInductive, PTL DEF Spec

-----------------------------------------------------------------------------
LEMMA InitUses == Init => UsesInv
<1> SUFFICES ASSUME Init PROVE UsesInv
  OBVIOUS
<1>1. \A c : DiscountedBy(c) = {}
  BY DEF Init, StoreInit, DiscountedBy
<1>2. \A c \in Coupons : times_used[c] = 0 /\ MaxUses[c] \in Nat
  BY CartAssumption DEF Init, StoreInit
<1>3. \A w \in Workers : UsesKept(w)
  BY DEF Init, UsesKept, Numbered
<1> QED
  BY <1>1, <1>2, <1>3, FS_EmptySet DEF UsesInv

\* A request that inserts its order reads the counter, and gets a discount
\* only below the limit.
LEMMA CreateOrderUses ==
  ASSUME OneWorker, TypeInv, UsesInv, NEW w \in Workers, NEW number \in OrderNumbers,
         CreateOrder(w, number)
  PROVE  UsesInv'
<1>1. UNCHANGED <<times_used, orders>>
  BY DEF CreateOrder, storeVars
<1>2. UsesKept(w)'
  BY <1>1, CreatedForm DEF UsesKept, Granted, IsValidNow
<1>3. \A c : DiscountedBy(c)' = DiscountedBy(c)
  BY <1>1 DEF DiscountedBy
<1> QED
  BY <1>1, <1>2, <1>3, OnlyWorker DEF UsesInv

\* Steps that neither number a request nor commit.
LEMMA QuietUses ==
  ASSUME UsesInv, UNCHANGED <<times_used, orders>>,
         \A w \in Workers : Numbered(w)' => Numbered(w) /\ form'[w] = form[w]
  PROVE  UsesInv'
<1>1. \A c : DiscountedBy(c)' = DiscountedBy(c)
  BY DEF DiscountedBy
<1>2. \A w \in Workers : UsesKept(w)'
  BY DEF UsesInv, UsesKept
<1> QED
  BY <1>1, <1>2 DEF UsesInv

\* The commit writes the counter it read and one, and so stays above the
\* discounts, and a discount it adds was below the limit.
LEMMA CommitUses ==
  ASSUME OneWorker, TypeInv, OrderInv, UsesInv, NEW w \in Workers, Commit(w)
  PROVE  UsesInv'
<1> DEFINE new == [number |-> form[w].number, user |-> form[w].user, coupon |-> form[w].coupon,
                   granted |-> form[w].granted, quoted |-> form[w].quoted, lines |-> lines[w]]
<1> SUFFICES ASSUME NEW o, o = new
             PROVE  UsesInv'
  OBVIOUS
<1>1. /\ orders' = orders \cup {o}
      /\ o.granted = form[w].granted /\ o.coupon = form[w].coupon /\ o.number = form[w].number
      /\ pc'[w] = "idle"
  BY DEF Commit, Forget, Goto, TypeInv, TypeOK
<1>2. Numbered(w) /\ UsesKept(w) /\ OrderOK(w)
  BY DEF Commit, Numbered, UsesInv, OrderInv
<1>3. o \notin orders
  BY <1>1, <1>2 DEF OrderOK
<1>4. /\ form[w].times_used \in Nat
      /\ times_used \in [Coupons -> Nat]
      /\ MaxUses \in [Coupons -> Nat]
  BY CartAssumption DEF TypeInv, TypeOK, StoreTypeOK, Form
<1>5. \A c : IsFiniteSet(DiscountedBy(c)) /\ Cardinality(DiscountedBy(c)) \in Nat
  <2>1. \A c : DiscountedBy(c) \subseteq orders
    BY DEF DiscountedBy
  <2> QED
    BY <2>1, FS_Subset, FS_CardinalityType DEF OrderInv
<1>6. ASSUME NEW c
      PROVE  Cardinality(DiscountedBy(c)')
               = IF c = form[w].granted THEN Cardinality(DiscountedBy(c)) + 1
                                        ELSE Cardinality(DiscountedBy(c))
  <2>1. DiscountedBy(c)' = IF c = form[w].granted THEN DiscountedBy(c) \cup {o}
                                                  ELSE DiscountedBy(c)
    BY <1>1 DEF DiscountedBy
  <2>2. o \notin DiscountedBy(c)
    BY <1>3 DEF DiscountedBy
  <2> QED
    BY <1>5, <2>1, <2>2, FS_AddElement
<1>7. ASSUME NEW c \in Coupons
      PROVE  /\ Cardinality(DiscountedBy(c)') <= times_used'[c]
             /\ Cardinality(DiscountedBy(c)') <= MaxUses[c]
  <2>1. /\ Cardinality(DiscountedBy(c)) <= times_used[c]
        /\ Cardinality(DiscountedBy(c)) <= MaxUses[c]
    BY DEF UsesInv
  <2>2. c # None
    BY ConstantTypes
  <2>3. CASE c = form[w].coupon
    <3>1. times_used'[c] = form[w].times_used + 1
      BY <2>3 DEF Commit, CountedUses
    <3>2. form[w].times_used = times_used[c]
      BY <1>2, <2>2, <2>3 DEF UsesKept
    <3>3. c = form[w].granted => times_used[c] < MaxUses[c]
      BY <1>2, <2>2, <3>2 DEF UsesKept
    <3>4. times_used[c] \in Nat /\ MaxUses[c] \in Nat
      BY <1>4
    <3> QED
      BY <1>5, <1>6, <2>1, <3>1, <3>2, <3>3, <3>4
  <2>4. CASE c # form[w].coupon
    <3>1. times_used'[c] = times_used[c]
      BY <2>4 DEF Commit
    <3>2. c # form[w].granted
      BY <1>2, <2>2, <2>4 DEF UsesKept
    <3> QED
      BY <1>6, <2>1, <3>1, <3>2
  <2> QED
    BY <2>3, <2>4
<1>8. UsesKept(w)'
  BY <1>1 DEF UsesKept, Numbered
<1> QED
  BY <1>7, <1>8, OnlyWorker DEF UsesInv

\* What the steps other than the INSERT and the commit do to a request that
\* has a number.
LEMMA NumberedKept ==
  ASSUME TypeInv, [Next]_vars
  PROVE  \/ \E w \in Workers, number \in OrderNumbers : CreateOrder(w, number)
         \/ \E w \in Workers : Commit(w)
         \/ UNCHANGED <<times_used, orders>>
            /\ \A v \in Workers : Numbered(v)' => Numbered(v) /\ form'[v] = form[v]
<1> DEFINE Keep == \A v \in Workers : Numbered(v)' => Numbered(v) /\ form'[v] = form[v]
<1> USE DEF Numbered
<1>1. ASSUME NEW w \in Workers, NEW step, NEW f,
             pc' = [pc EXCEPT ![w] = step], form' = [form EXCEPT ![w] = f],
             step \in {"items", "loop", "refresh", "save", "finish", "commit"} =>
               Numbered(w) /\ f = form[w]
      PROVE  Keep
  BY <1>1 DEF TypeInv, TypeOK
<1>2. ASSUME NEW w \in Workers, Forget(w)
      PROVE  Keep
  BY <1>1, <1>2 DEF Forget, Goto
<1>3. ASSUME NEW w \in Workers, NEW step, Goto(w, step), form' = form,
             step \in {"items", "loop", "refresh", "save", "finish", "commit"} => Numbered(w)
      PROVE  Keep
  BY <1>3 DEF TypeInv, TypeOK, Goto
<1>4. ASSUME NEW w \in Workers, NEW u \in Users, Start(w, u)
      PROVE  Keep
  BY <1>4 DEF TypeInv, TypeOK, Start, Goto
<1>5. ASSUME NEW w \in Workers, Proceed(w)
      PROVE  Keep \/ Commit(w) \/ \E number \in OrderNumbers : CreateOrder(w, number)
  <2>1. CASE CartNotEmpty(w)
    BY <2>1, <1>3 DEF CartNotEmpty
  <2>2. CASE EmptyCart(w) \/ InsufficientStock(w)
    BY <2>2, <1>2 DEF EmptyCart, InsufficientStock, Rollback
  <2>3. CASE QuoteCart(w)
    BY <2>3 DEF TypeInv, TypeOK, QuoteCart, Goto
  <2>4. CASE ReadItems(w)
    BY <2>4, <1>3 DEF ReadItems
  <2>5. ASSUME NEW p \in Products, AddLine(w, p)
        PROVE  Keep
    BY <2>5, <1>3 DEF AddLine
  <2>6. CASE RefreshStock(w)
    BY <2>6, <1>3 DEF RefreshStock
  <2>7. CASE LastLine(w)
    BY <2>7, <1>3 DEF LastLine
  <2> QED
    BY <1>5, <2>1, <2>2, <2>3, <2>4, <2>5, <2>6, <2>7 DEF Proceed
<1>6. ASSUME NEW w \in Workers, SaveStock(w) PROVE Keep
  BY <1>6, <1>3 DEF SaveStock
<1>7. ASSUME NEW w \in Workers, FinishOrder(w) PROVE Keep
  BY <1>7, <1>3 DEF FinishOrder
<1>8. ASSUME NEW w \in Workers, NEW p \in Products, LoadProduct(w, p) PROVE Keep
  BY <1>8, <1>3 DEF LoadProduct
<1>9. ASSUME NEW w \in Workers, NEW price \in Prices, SaveProduct(w, price)
      PROVE  Keep /\ UNCHANGED <<times_used, orders>>
  BY <1>9, <1>2 DEF SaveProduct
<1>10. ASSUME NEW w \in Workers, Fail(w) \/ DeadlockAbort(w) PROVE Keep
  BY <1>10, <1>2 DEF Fail, DeadlockAbort, Rollback
<1>11. ASSUME UNCHANGED workerVars PROVE Keep
  BY <1>11 DEF workerVars
<1>12. ASSUME Browse \/ (\E x \in Timed : Clock(x)) \/ UNCHANGED vars PROVE Keep
  <2>1. UNCHANGED workerVars
    BY <1>12 DEF Browse, Clock, vars
  <2> QED
    BY <2>1, <1>11
<1>13. \/ \E w \in Workers, number \in OrderNumbers : CreateOrder(w, number)
       \/ \E w \in Workers : Commit(w)
       \/ Keep
  BY <1>4, <1>5, <1>6, <1>7, <1>8, <1>9, <1>10, <1>12 DEF Next
<1> HIDE DEF Keep
<1> QED
  BY <1>9, <1>13, StockSteps DEF Keep

LEMMA NextUses ==
  OneWorker /\ TypeInv /\ OrderInv /\ UsesInv /\ [Next]_vars => UsesInv'
BY NumberedKept, CreateOrderUses, CommitUses, QuietUses

LEMMA UsesInductive ==
  ASSUME OneWorker
  PROVE  Spec => []UsesInv
<1>1. Init => UsesInv
  BY InitUses
<1>2. TypeInv /\ OrderInv /\ UsesInv /\ [Next]_vars => UsesInv'
  BY NextUses
<1> QED
  BY <1>1, <1>2, OrdersInductive, PTL DEF Spec

\* When requests are served one at a time no more orders than Coupon.max_uses
\* get a coupon's discount, whatever windows open and close.
THEOREM SerialDiscountsAreLimited ==
  ASSUME OneWorker
  PROVE  Spec => []DiscountsWithinLimit
<1>1. UsesInv => DiscountsWithinLimit
  BY DEF UsesInv, DiscountsWithinLimit, DiscountedBy
<1> QED
  BY <1>1, UsesInductive, PTL

-----------------------------------------------------------------------------
\* No discount's and no coupon's window opens or closes.
NoEdges == Timed = {}

\* The prices of a cart and the coupon's validity depend on these rows alone.
LEMMA SamePrices ==
  ASSUME UNCHANGED <<product, items, open>>, NEW u
  PROVE  PricedLines(u)' = PricedLines(u)
BY DEF PricedLines, UnitPrice

LEMMA SameGrant ==
  ASSUME UNCHANGED <<times_used, open>>, NEW c
  PROVE  Granted(c)' = Granted(c)
BY DEF Granted, IsValidNow

LEMMA OutsideOrders ==
  ASSUME Browse
  PROVE  UNCHANGED <<product, orders, open>> /\ (times_used' = times_used)
BY DEF Browse, CartRequest, AddItem, UpdateItem, RemoveItem, ClearCart, ApplyCoupon, RemoveCoupon

LEMMA InitAmounts == Init => AmountsInv
BY DEF Init, StoreInit, AmountsInv, AmountsKept, QuoteMatchesLines, Numbered, Looping

\* A step of the only worker that adds no order.
LEMMA AmountsStep ==
  ASSUME OneWorker, AmountsInv, NEW w \in Workers, orders' = orders, AmountsKept(w)'
  PROVE  AmountsInv'
BY OnlyWorker DEF AmountsInv, QuoteMatchesLines

LEMMA EarlyAmounts ==
  ASSUME OneWorker, AmountsInv, NEW w \in Workers, orders' = orders,
         pc'[w] \in {"idle", "edit", "exists", "totals"}
  PROVE  AmountsInv'
<1>1. AmountsKept(w)'
  BY DEF AmountsKept, Numbered, Looping
<1> QED
  BY <1>1, AmountsStep

\* Statements that leave the amounts, the coupon and the lines as they are.
LEMMA GoingOnAmounts ==
  ASSUME OneWorker, AmountsInv, NEW w \in Workers,
         UNCHANGED <<product, items, times_used, orders, open, form, lines>>,
         pc[w] \in {"items", "loop", "refresh", "save", "finish", "commit"},
         Looping(w)' => Looping(w),
         \A p \in Products :
           p \notin todo'[w] \/ (pc'[w] \in {"refresh", "save"} /\ p = current'[w])
             => p \notin todo[w] \/ (pc[w] \in {"refresh", "save"} /\ p = current[w])
  PROVE  AmountsInv'
<1>1. AmountsKept(w)
  BY DEF AmountsInv
<1>2. PricedLines(form[w].user)' = PricedLines(form[w].user)
  BY SamePrices
<1>3. Granted(form[w].coupon)' = Granted(form[w].coupon)
  BY SameGrant
<1>4. AmountsKept(w)'
  BY <1>1, <1>2, <1>3 DEF AmountsKept, Numbered
<1> QED
  BY <1>4, AmountsStep

LEMMA QuoteCartAmounts ==
  ASSUME OneWorker, TypeInv, AmountsInv, NEW w \in Workers, QuoteCart(w)
  PROVE  AmountsInv'
<1>1. UNCHANGED <<product, items, open, orders>> /\ pc'[w] = "create"
  BY DEF QuoteCart, Goto, TypeInv, TypeOK, storeVars
<1>2. form'[w].quoted = PricedLines(form[w].user) /\ form'[w].user = form[w].user
  BY QuotedForm
<1>3. PricedLines(form[w].user)' = PricedLines(form[w].user)
  BY <1>1, <1>2 DEF PricedLines, UnitPrice
<1>4. AmountsKept(w)'
  BY <1>1, <1>2, <1>3 DEF AmountsKept, Numbered, Looping
<1> QED
  BY <1>1, <1>4, AmountsStep

LEMMA CreateOrderAmounts ==
  ASSUME OneWorker, TypeInv, AmountsInv, NEW w \in Workers, NEW number \in OrderNumbers,
         CreateOrder(w, number)
  PROVE  AmountsInv'
<1>1. /\ UNCHANGED <<product, items, open, orders, times_used>>
      /\ pc[w] = "create" /\ pc'[w] = "items"
  BY DEF CreateOrder, Goto, TypeInv, TypeOK, storeVars
<1>2. /\ form'[w].quoted = form[w].quoted /\ form'[w].user = form[w].user
      /\ form'[w].granted = Granted(form[w].coupon) /\ form'[w].coupon = form[w].coupon
  BY CreatedForm
<1>3. form[w].quoted = PricedLines(form[w].user)
  BY <1>1 DEF AmountsInv, AmountsKept
<1>4. PricedLines(form[w].user)' = PricedLines(form[w].user)
  BY <1>1, <1>2 DEF PricedLines, UnitPrice
<1>5. Granted(form[w].coupon)' = Granted(form[w].coupon)
  BY <1>1, <1>2 DEF Granted, IsValidNow
<1>6. AmountsKept(w)'
  BY <1>1, <1>2, <1>3, <1>4, <1>5 DEF AmountsKept, Looping
<1> QED
  BY <1>1, <1>6, AmountsStep

\* The lines of what is not in the cart are blank, in the order as in the quote.
LEMMA ReadItemsAmounts ==
  ASSUME OneWorker, TypeInv, AmountsInv, NEW w \in Workers, ReadItems(w)
  PROVE  AmountsInv'
<1> DEFINE u == form[w].user
<1>1. /\ UNCHANGED <<product, items, open, orders, times_used, form>>
      /\ pc[w] = "items" /\ pc'[w] = "loop" /\ u \in Users
  BY DEF ReadItems, Goto, TypeInv, TypeOK, storeVars, RequestOK, HeldBy
<1>2. /\ \A p \in Products : lines'[w][p] = [quantity |-> items[u][p], unit_price |-> 0]
      /\ todo'[w] = {p \in Products : items[u][p] > 0}
  BY DEF ReadItems, TypeInv, TypeOK
<1>3. AmountsKept(w)
  BY DEF AmountsInv
<1>4. PricedLines(u)' = PricedLines(u) /\ Granted(form[w].coupon)' = Granted(form[w].coupon)
  BY <1>1, SamePrices, SameGrant
<1>5. ASSUME NEW p \in Products, p \notin todo'[w]
      PROVE  lines'[w][p] = PricedLines(u)[p]
  <2>1. items[u][p] \in Nat /\ ~ (items[u][p] > 0)
    BY <1>1, <1>2, <1>5, ConstantTypes DEF TypeInv, TypeOK, StoreTypeOK
  <2> QED
    BY <1>2, <2>1 DEF PricedLines, NoLines
<1>6. AmountsKept(w)'
  BY <1>1, <1>3, <1>4, <1>5 DEF AmountsKept, Numbered
<1> QED
  BY <1>1, <1>6, AmountsStep

LEMMA PricedLine ==
  ASSUME NEW l \in Line, NEW price
  PROVE  [l EXCEPT !.unit_price = price] = [quantity |-> l.quantity, unit_price |-> price]
BY DEF Line

\* A line is priced from the row the loop's query read, which is the row the
\* amounts were computed from.
LEMMA AddLineAmounts ==
  ASSUME OneWorker, TypeInv, KeptInv, AmountsInv, NEW w \in Workers, NEW p \in Products,
         AddLine(w, p)
  PROVE  AmountsInv'
<1> DEFINE u == form[w].user
<1>1. /\ UNCHANGED <<product, items, open, orders, times_used, form, todo>>
      /\ pc[w] = "loop" /\ pc'[w] = "refresh" /\ current'[w] = p /\ p \in todo[w]
  BY DEF AddLine, Goto, TypeInv, TypeOK, storeVars
<1>2. AmountsKept(w) /\ CartKept(w) /\ RowsKept(w)
  BY DEF AmountsInv, KeptInv
<1>3. PricedLines(u)' = PricedLines(u) /\ Granted(form[w].coupon)' = Granted(form[w].coupon)
  BY <1>1, SamePrices, SameGrant
<1>4. PICK x : x = LinePrice(w, p)
  OBVIOUS
<1>5. /\ lines'[w][p] = [lines[w][p] EXCEPT !.unit_price = x]
      /\ \A q \in Products \ {p} : lines'[w][q] = lines[w][q]
  BY <1>4 DEF AddLine, TypeInv, TypeOK
<1>6. lines'[w][p] = PricedLines(u)[p]
  <2>1. /\ lines[w][p].quantity = items[u][p] /\ items[u][p] > 0
        /\ loaded[w][p] = product[p]
    BY <1>1, <1>2 DEF CartKept, RowsKept, Looping
  <2>2. lines[w][p] \in Line
    BY DEF TypeInv, TypeOK
  <2>3. x = UnitPrice(p, product[p].price)
    BY <1>4, <2>1 DEF LinePrice
  <2> QED
    BY <1>5, <2>1, <2>2, <2>3, PricedLine DEF PricedLines
<1>7. ASSUME NEW q \in Products, q \notin todo[w]
      PROVE  lines'[w][q] = PricedLines(u)[q]
  BY <1>1, <1>2, <1>5, <1>7 DEF AmountsKept, Looping
<1>8. AmountsKept(w)'
  BY <1>1, <1>2, <1>3, <1>6, <1>7 DEF AmountsKept, Numbered
<1> QED
  BY <1>1, <1>8, AmountsStep

LEMMA LaterAmounts ==
  ASSUME OneWorker, TypeInv, KeptInv, AmountsInv, NEW w \in Workers,
         RefreshStock(w) \/ SaveStock(w) \/ LastLine(w) \/ FinishOrder(w)
  PROVE  AmountsInv'
<1>1. CASE RefreshStock(w)
  <2>1. pc[w] = "refresh" /\ pc'[w] = "save"
    BY <1>1 DEF RefreshStock, Goto, TypeInv, TypeOK
  <2> QED
    BY <1>1, <2>1, GoingOnAmounts DEF RefreshStock, storeVars, Looping
<1>2. CASE SaveStock(w)
  <2>1. /\ pc[w] = "save" /\ pc'[w] = "loop"
        /\ todo'[w] = todo[w] \ {current[w]}
    BY <1>2 DEF SaveStock, Goto, TypeInv, TypeOK
  <2> QED
    BY <1>2, <2>1, GoingOnAmounts DEF SaveStock, storeVars, Looping
<1>3. CASE LastLine(w)
  <2>1. pc[w] = "loop" /\ pc'[w] = "finish"
    BY <1>3 DEF LastLine, Goto, TypeInv, TypeOK
  <2> QED
    BY <1>3, <2>1, GoingOnAmounts DEF LastLine, storeVars, Looping
<1>4. CASE FinishOrder(w)
  <2>1. pc[w] = "finish" /\ pc'[w] = "commit"
    BY <1>4 DEF FinishOrder, Goto, TypeInv, TypeOK
  <2> QED
    BY <1>4, <2>1, GoingOnAmounts DEF FinishOrder, storeVars, Looping
<1> QED
  BY <1>1, <1>2, <1>3, <1>4

\* At the commit every line is as it was quoted.
LEMMA LinesAsQuoted ==
  ASSUME TypeInv, KeptInv, AmountsInv, NEW w \in Workers, pc[w] = "commit"
  PROVE  /\ lines[w] = PricedLines(form[w].user)
         /\ form[w].quoted = PricedLines(form[w].user)
         /\ lines[w] # NoLines
<1> DEFINE u == form[w].user
<1>1. AmountsKept(w) /\ CartKept(w) /\ Looping(w)
  BY DEF AmountsInv, KeptInv, Looping
<1>2. todo[w] = {} /\ HasItems(u) /\ form[w].quoted = PricedLines(u)
  BY <1>1 DEF CartKept, AmountsKept
<1>3. \A p \in Products : lines[w][p] = PricedLines(u)[p] /\ lines[w][p].quantity = items[u][p]
  BY <1>1, <1>2 DEF AmountsKept, CartKept
<1>4. lines[w] \in [Products -> Line] /\ u \in Users
  BY DEF TypeInv, TypeOK, RequestOK, HeldBy
<1>5. lines[w] = PricedLines(u)
  BY <1>3, <1>4 DEF PricedLines
<1>6. lines[w] # NoLines
  <2>1. PICK p \in Products : items[u][p] > 0
    BY <1>2 DEF HasItems
  <2>2. lines[w][p].quantity > 0
    BY <2>1, <1>3
  <2>3. NoLines[p].quantity = 0
    BY DEF NoLines
  <2> QED
    BY <2>2, <2>3
<1> QED
  BY <1>2, <1>5, <1>6

LEMMA CommitAmounts ==
  ASSUME OneWorker, TypeInv, KeptInv, AmountsInv, NEW w \in Workers, Commit(w)
  PROVE  AmountsInv'
<1>1. pc[w] = "commit" /\ pc'[w] = "idle"
  BY DEF Commit, Forget, Goto, TypeInv, TypeOK
<1>2. QuoteMatchesLines'
  <2>1. lines[w] # NoLines /\ form[w].quoted = lines[w]
    BY <1>1, LinesAsQuoted
  <2>2. ASSUME NEW o \in orders'
        PROVE  o.quoted = o.lines /\ o.lines # NoLines
    <3>1. o \in orders \/ (o.quoted = form[w].quoted /\ o.lines = lines[w])
      BY DEF Commit
    <3> QED
      BY <2>1, <3>1 DEF AmountsInv, QuoteMatchesLines
  <2> QED
    BY <2>2 DEF QuoteMatchesLines, NoLines
<1>3. AmountsKept(w)'
  BY <1>1 DEF AmountsKept, Numbered, Looping
<1> QED
  BY <1>2, <1>3, OnlyWorker DEF AmountsInv

LEMMA ForgetAmounts ==
  ASSUME OneWorker, TypeInv, AmountsInv, NEW w \in Workers, Forget(w), orders' = orders
  PROVE  AmountsInv'
<1>1. pc'[w] = "idle"
  BY DEF Forget, Goto, TypeInv, TypeOK
<1> QED
  BY <1>1, EarlyAmounts

LEMMA NextAmounts ==
  OneWorker /\ NoEdges /\ TypeInv /\ KeptInv /\ AmountsInv /\ [Next]_vars => AmountsInv'
<1> SUFFICES ASSUME OneWorker, NoEdges, TypeInv, KeptInv, AmountsInv, [Next]_vars
             PROVE  AmountsInv'
  OBVIOUS
<1>1. ASSUME NEW w \in Workers, NEW u \in Users, Start(w, u) PROVE AmountsInv'
  <2>1. pc'[w] = "exists" /\ orders' = orders
    BY <1>1 DEF Start, Goto, TypeInv, TypeOK, storeVars
  <2> QED
    BY <2>1, EarlyAmounts
<1>2. ASSUME NEW w \in Workers, Proceed(w) PROVE AmountsInv'
  <2>1. CASE CartNotEmpty(w)
    <3>1. pc'[w] = "totals" /\ orders' = orders
      BY <2>1 DEF CartNotEmpty, Goto, TypeInv, TypeOK, storeVars
    <3> QED
      BY <3>1, EarlyAmounts
  <2>2. CASE EmptyCart(w) \/ InsufficientStock(w)
    BY <2>2, ForgetAmounts DEF EmptyCart, InsufficientStock, Rollback, storeVars
  <2>3. CASE QuoteCart(w)
    BY <2>3, QuoteCartAmounts
  <2>4. CASE \E number \in OrderNumbers : CreateOrder(w, number)
    BY <2>4, CreateOrderAmounts
  <2>5. CASE ReadItems(w)
    BY <2>5, ReadItemsAmounts
  <2>6. CASE \E p \in Products : AddLine(w, p)
    BY <2>6, AddLineAmounts
  <2>7. CASE RefreshStock(w) \/ LastLine(w)
    BY <2>7, LaterAmounts
  <2>8. CASE Commit(w)
    BY <2>8, CommitAmounts
  <2> QED
    BY <1>2, <2>1, <2>2, <2>3, <2>4, <2>5, <2>6, <2>7, <2>8 DEF Proceed
<1>3. ASSUME NEW w \in Workers, SaveStock(w) \/ FinishOrder(w) PROVE AmountsInv'
  BY <1>3, LaterAmounts
<1>4. ASSUME NEW w \in Workers, Fail(w) \/ DeadlockAbort(w) PROVE AmountsInv'
  BY <1>4, ForgetAmounts DEF Fail, DeadlockAbort, Rollback, storeVars
<1>5. ASSUME NEW w \in Workers, NEW p \in Products, LoadProduct(w, p) PROVE AmountsInv'
  <2>1. pc'[w] = "edit" /\ orders' = orders
    BY <1>5 DEF LoadProduct, Goto, TypeInv, TypeOK, storeVars
  <2> QED
    BY <2>1, EarlyAmounts
<1>6. ASSUME NEW w \in Workers, NEW price \in Prices, SaveProduct(w, price) PROVE AmountsInv'
  BY <1>6, ForgetAmounts DEF SaveProduct
<1>7. CASE Browse
  <2>1. PICK w \in Workers : pc'[w] = "idle"
    BY <1>7 DEF Browse, workerVars
  <2>2. orders' = orders
    BY <1>7, OutsideOrders
  <2> QED
    BY <2>1, <2>2, EarlyAmounts
<1>8. CASE UNCHANGED vars
  BY <1>8 DEF vars, storeVars, workerVars, AmountsInv, AmountsKept, QuoteMatchesLines, Numbered,
              Looping, PricedLines, UnitPrice, Granted, IsValidNow
<1> QED
  BY <1>1, <1>2, <1>3, <1>4, <1>5, <1>6, <1>7, <1>8 DEF Next, NoEdges

LEMMA AmountsInductive ==
  ASSUME OneWorker, NoEdges
  PROVE  Spec => [](TypeInv /\ OrderInv /\ KeptInv /\ AmountsInv)
<1>1. Init => TypeInv /\ KeptInv /\ AmountsInv
  BY InitTypeInv, InitKept, InitAmounts
<1>2. TypeInv /\ KeptInv /\ AmountsInv /\ [Next]_vars => AmountsInv'
  BY NextAmounts
<1> QED
  BY <1>1, <1>2, KeptInductive, OrdersInductive, PTL DEF Spec

\* When requests are served one at a time and no window opens or closes, the
\* amounts of an order are those of its own items, and it has some.
THEOREM SerialQuotesMatch ==
  ASSUME OneWorker, NoEdges
  PROVE  Spec => []QuoteMatchesLines
<1>1. TypeInv /\ OrderInv /\ KeptInv /\ AmountsInv => QuoteMatchesLines
  BY DEF AmountsInv
<1> QED
  BY <1>1, AmountsInductive, PTL

-----------------------------------------------------------------------------
(***************************************************************************)
(* Serial checkouts implement the abstract one, which is a single step.    *)
(***************************************************************************)
\* The abstract module's copies of the operators they share.
LEMMA SameOperators ==
  /\ \A u : Atomic!HasItems(u) <=> HasItems(u)
  /\ \A c : Atomic!Granted(c) = Granted(c)
  /\ \A r, n : Atomic!Decreased(r, n) = Decreased(r, n)
  /\ \A r : Atomic!Saved(r) = Saved(r)
  /\ \A u : Atomic!PricedLines(u) = PricedLines(u)
<1>1. \A u : Atomic!HasItems(u) <=> HasItems(u)
  BY DEF Atomic!HasItems, HasItems
<1>2. \A c : Atomic!Granted(c) = Granted(c)
  BY DEF Atomic!Granted, Granted, Atomic!IsValidNow, IsValidNow
<1>3. \A r : Atomic!Saved(r) = Saved(r)
  BY DEF Atomic!Saved, Saved
<1>4. \A r, n : Atomic!Decreased(r, n) = Decreased(r, n)
  BY <1>3 DEF Atomic!Decreased, Decreased
<1>5. \A u : Atomic!PricedLines(u) = PricedLines(u)
  <2>1. \A n : Atomic!Quantize(n) = Quantize(n)
    BY DEF Atomic!Quantize, Quantize, Atomic!Scale, Scale
  <2>2. \A price, percentage :
          Atomic!EffectivePrice(price, percentage) = EffectivePrice(price, percentage)
    BY <2>1 DEF Atomic!EffectivePrice, EffectivePrice, Atomic!Scale, Scale
  <2>3. \A p, price : Atomic!UnitPrice(p, price) = UnitPrice(p, price)
    BY <2>2 DEF Atomic!UnitPrice, UnitPrice
  <2> QED
    BY <2>3 DEF Atomic!PricedLines, PricedLines, Atomic!NoLines, NoLines
<1> QED
  BY <1>1, <1>2, <1>3, <1>4, <1>5

\* A commit does to the rows what the abstract checkout does in one step.
LEMMA CommitPlacesOrder ==
  ASSUME TypeInv, OrderInv, UsesInv, KeptInv, AmountsInv, NEW w \in Workers, Commit(w)
  PROVE  Atomic!PlaceOrder(form[w].user, form[w].number)
<1> PICK u, n, c : u = form[w].user /\ n = form[w].number /\ c = form[w].coupon
  OBVIOUS
<1>1. /\ pc[w] = "commit" /\ Looping(w) /\ Numbered(w)
      /\ CartKept(w) /\ RowsKept(w) /\ AmountsKept(w) /\ OrderOK(w)
  BY DEF Commit, Looping, Numbered, KeptInv, AmountsInv, OrderInv
<1>2. HasItems(u) /\ applied[u] = c /\ form[w].granted = Granted(c)
  BY <1>1 DEF CartKept, AmountsKept
<1>3. \A p \in Products : lines[w][p].quantity = items[u][p] /\ (items[u][p] > 0 <=> p \in locked[w])
  BY <1>1 DEF CartKept
<1>4. \A p \in locked[w] : items[u][p] <= product[p].stock
                         /\ loaded[w][p] = Decreased(product[p], items[u][p])
  BY <1>1 DEF RowsKept
<1>5. \A p \in Products : items[u][p] <= product[p].stock
  <2> SUFFICES ASSUME NEW p \in Products, ~ (items[u][p] > 0)
               PROVE  items[u][p] <= product[p].stock
    BY <1>3, <1>4
  <2>1. lines[w][p].quantity \in Nat /\ product[p].stock \in Nat
    BY Quantities
  <2> QED
    BY <2>1, <1>3
<1>6. n \notin {o.number : o \in orders}
  BY <1>1 DEF OrderOK
<1>7. orders' = orders \cup
        {[number |-> n, user |-> u, coupon |-> applied[u], granted |-> Granted(applied[u]),
          quoted |-> PricedLines(u), lines |-> PricedLines(u)]}
  <2>1. lines[w] = PricedLines(u) /\ form[w].quoted = PricedLines(u)
    BY <1>1, LinesAsQuoted
  <2>2. orders' = orders \cup
          {[number |-> form[w].number, user |-> form[w].user, coupon |-> form[w].coupon,
            granted |-> form[w].granted, quoted |-> form[w].quoted, lines |-> lines[w]]}
    BY DEF Commit
  <2> QED
    BY <2>1, <2>2, <1>2
<1>8. product' = [p \in Products |->
        IF items[u][p] > 0 THEN Decreased(product[p], items[u][p]) ELSE product[p]]
  <2>1. product' = [p \in Products |-> IF p \in locked[w] THEN loaded[w][p] ELSE product[p]]
    BY DEF Commit
  <2>2. \A p \in Products :
          (IF p \in locked[w] THEN loaded[w][p] ELSE product[p])
            = IF items[u][p] > 0 THEN Decreased(product[p], items[u][p]) ELSE product[p]
    BY <1>3, <1>4
  <2> QED
    BY <2>1, <2>2
<1>9. times_used' = [x \in Coupons |->
        IF x = applied[u] THEN times_used[x] + 1 ELSE times_used[x]]
  <2>1. times_used' = [x \in Coupons |-> IF x = c THEN form[w].times_used + 1 ELSE times_used[x]]
    BY DEF Commit, CountedUses
  <2>2. c \in Coupons => form[w].times_used = times_used[c]
    BY <1>1, ConstantTypes DEF UsesInv, UsesKept
  <2> QED
    BY <2>1, <2>2, <1>2
<1>10. /\ items' = [items EXCEPT ![u] = [p \in Products |-> 0]]
       /\ applied' = [applied EXCEPT ![u] = None]
       /\ open' = open
  BY DEF Commit
<1> QED
  BY <1>2, <1>5, <1>6, <1>7, <1>8, <1>9, <1>10, SameOperators DEF Atomic!PlaceOrder

\* A staff edit writes back the row it read, with the new price.
LEMMA SaveProductSetsPrice ==
  ASSUME TypeInv, KeptInv, NEW w \in Workers, NEW price \in Prices, SaveProduct(w, price)
  PROVE  \E p \in Products : Atomic!SetPrice(p, price)
<1>1. loaded[w][current[w]] = product[current[w]] /\ current[w] \in Products
  BY DEF SaveProduct, KeptInv, RowsKept, TypeInv, RequestOK, HeldBy
<1>2. Atomic!SetPrice(current[w], price)
  BY <1>1, SameOperators DEF SaveProduct, Atomic!SetPrice
<1> QED
  BY <1>1, <1>2

LEMMA BrowseRequests ==
  ASSUME Browse
  PROVE  Atomic!CartRequest
<1>1. CartRequest
  BY DEF Browse
<1>2. \A c : Atomic!IsValidNow(c) <=> IsValidNow(c)
  BY DEF Atomic!IsValidNow, IsValidNow
<1> QED
  BY <1>1, <1>2
     DEF CartRequest, AddItem, UpdateItem, RemoveItem, ClearCart, ApplyCoupon, RemoveCoupon,
         Atomic!CartRequest, Atomic!AddItem, Atomic!UpdateItem, Atomic!RemoveItem,
         Atomic!ClearCart, Atomic!ApplyCoupon, Atomic!RemoveCoupon

\* The other statements change no committed row.
LEMMA StatementsStutter ==
  ASSUME [Next]_vars
  PROVE  \/ \E w \in Workers : Commit(w)
         \/ \E w \in Workers, price \in Prices : SaveProduct(w, price)
         \/ Browse
         \/ \E x \in Timed : Clock(x)
         \/ UNCHANGED storeVars
<1>1. ASSUME NEW w \in Workers,
             \/ \E u \in Users : Start(w, u)
             \/ SaveStock(w) \/ FinishOrder(w) \/ Fail(w) \/ DeadlockAbort(w)
             \/ \E p \in Products : LoadProduct(w, p)
      PROVE  UNCHANGED storeVars
  BY <1>1 DEF Start, SaveStock, FinishOrder, Fail, DeadlockAbort, LoadProduct, Rollback
<1>2. ASSUME NEW w \in Workers, Proceed(w)
      PROVE  UNCHANGED storeVars \/ Commit(w)
  BY <1>2 DEF Proceed, CartNotEmpty, EmptyCart, QuoteCart, CreateOrder, ReadItems, AddLine,
              RefreshStock, InsufficientStock, LastLine, Rollback
<1> QED
  BY <1>1, <1>2 DEF Next, vars

LEMMA StepImplements ==
  ASSUME NoEdges, TypeInv, OrderInv, UsesInv, KeptInv, AmountsInv, [Next]_vars
  PROVE  [Atomic!Next]_(Atomic!storeVars)
<1>1. ASSUME NEW w \in Workers, Commit(w)
      PROVE  Atomic!Next
  <2>1. form[w].user \in Users /\ form[w].number \in OrderNumbers
    BY <1>1 DEF Commit, TypeInv, RequestOK, HeldBy
  <2> QED
    BY <1>1, <2>1, CommitPlacesOrder DEF Atomic!Next
<1>2. ASSUME NEW w \in Workers, NEW price \in Prices, SaveProduct(w, price)
      PROVE  Atomic!Next
  BY <1>2, SaveProductSetsPrice DEF Atomic!Next
<1>3. CASE Browse
  BY <1>3, BrowseRequests DEF Atomic!Next
<1>4. CASE UNCHANGED storeVars
  BY <1>4 DEF storeVars, Atomic!storeVars
<1> QED
  BY <1>1, <1>2, <1>3, <1>4, StatementsStutter DEF NoEdges

\* When requests are served one at a time and no window opens or closes, the
\* statements of OrderService.checkout amount to the single atomic step its
\* documentation promises.
THEOREM SerialCheckoutIsAtomic ==
  ASSUME OneWorker, NoEdges
  PROVE  Spec => AtomicSpec
<1>1. Init => Atomic!StoreInit
  BY DEF Init, StoreInit, Atomic!StoreInit
<1>2. TypeInv /\ OrderInv /\ UsesInv /\ KeptInv /\ AmountsInv /\ [Next]_vars
        => [Atomic!Next]_(Atomic!storeVars)
  BY StepImplements
<1>3. Spec => []UsesInv
  BY UsesInductive
<1> QED
  BY <1>1, <1>2, <1>3, AmountsInductive, PTL DEF Spec, AtomicSpec, Atomic!Spec
=============================================================================
