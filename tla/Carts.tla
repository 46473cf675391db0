------------------------------- MODULE Carts -------------------------------
(***************************************************************************)
(* The cart API statement by statement: _resolve_cart finds or creates the *)
(* owner's cart in a transaction of its own, then the service changes an   *)
(* item of it in another.  Requests run on workers, under READ COMMITTED   *)
(* as in Checkout.  The table of carts has no unique constraint on its     *)
(* owner; the table of items has one on cart and product.                  *)
(***************************************************************************)
EXTENDS Naturals, FiniteSets

CONSTANTS
  Users, Sessions, Products,
  CartIds,      \* ids of cart rows: a bound
  ItemIds,      \* ids of item rows: a bound
  Workers,      \* one worker makes the requests serial
  MaxQuantity,  \* the largest quantity of an item: a bound
  None

ASSUME NoneIsNew == None \notin Users \cup Sessions \cup CartIds \cup ItemIds
ASSUME OwnersDiffer == Users \cap Sessions = {}
ASSUME QuantityIsNat == MaxQuantity \in Nat
ASSUME ProductsExist == Products # {}

Owners == Users \cup Sessions

VARIABLES
  cart,  \* [CartIds -> Owners \cup {None}], the owner of each row; None: no row
  item,  \* [ItemIds -> Item], the cart items; of cart None: no row
  job    \* [Workers -> Job], the request each worker serves

vars == <<cart, item, job>>

Item == [cart : CartIds \cup {None}, product : Products, quantity : 0 .. MaxQuantity]

NoItem == [cart |-> None, product |-> CHOOSE p \in Products : TRUE, quantity |-> 0]

\* `found` and `old` are the item row the service read and its quantity.
Job ==
  [step : {"idle", "resolve", "create", "act", "save"},
   op : {"add", "update", "remove", "clear", "none"},
   owner : Owners \cup {None}, product : Products, quantity : 0 .. MaxQuantity,
   cart : CartIds \cup {None}, found : ItemIds \cup {None}, old : 0 .. MaxQuantity]

Idle ==
  [step |-> "idle", op |-> "none", owner |-> None, product |-> NoItem.product,
   quantity |-> 0, cart |-> None, found |-> None, old |-> 0]

ItemsOf(c) == {i \in ItemIds : item[i].cart = c}

CartsOf(o) == {c \in CartIds : cart[c] = o}

\* An item is of a cart that exists, a cart has one item per product, and
\* an item is of at least one unit.
TypeOK ==
  /\ cart \in [CartIds -> Owners \cup {None}]
  /\ item \in [ItemIds -> Item]
  /\ job \in [Workers -> Job]
  /\ \A i \in ItemIds :
       IF item[i].cart = None
       THEN item[i] = NoItem
       ELSE cart[item[i].cart] # None /\ item[i].quantity > 0
  /\ \A c \in CartIds : \A i, j \in ItemsOf(c) : item[i].product = item[j].product => i = j

Init ==
  /\ cart = [c \in CartIds |-> None]
  /\ item = [i \in ItemIds |-> NoItem]
  /\ job = [w \in Workers |-> Idle]

\* Ids are not used again while a request holds them.
FreshCarts == {c \in CartsOf(None) : \A w \in Workers : job[w].cart # c}
FreshItems == {i \in ItemsOf(None) : \A w \in Workers : job[w].found # i}

-----------------------------------------------------------------------------
(***************************************************************************)
(* _resolve_cart: get_or_create_cart.                                      *)
(***************************************************************************)
Begin(w, o, op, p, q) ==
  /\ job[w] = Idle
  /\ op \in {"remove", "clear"} <=> q = 0
  /\ op = "clear" => p = NoItem.product
  /\ job' = [job EXCEPT ![w] =
       [Idle EXCEPT !.step = "resolve", !.op = op, !.owner = o, !.product = p, !.quantity = q]]
  /\ UNCHANGED <<cart, item>>

Finish(w) == job' = [job EXCEPT ![w] = Idle]

FindCart(w) ==
  /\ job[w].step = "resolve"
  /\ \E c \in CartIds :
       /\ CartsOf(job[w].owner) = {c}
       /\ job' = [job EXCEPT ![w].step = "act", ![w].cart = c]
  /\ UNCHANGED <<cart, item>>

\* A mutant of MissCart: the cart is created without a look at those there are.
MissAnyway(w) ==
  /\ job[w].step = "resolve"
  /\ job' = [job EXCEPT ![w].step = "create"]
  /\ UNCHANGED <<cart, item>>

MissCart(w) ==
  /\ job[w].step = "resolve"
  /\ CartsOf(job[w].owner) = {}
  /\ job' = [job EXCEPT ![w].step = "create"]
  /\ UNCHANGED <<cart, item>>

\* MultipleObjectsReturned.
TooManyCarts(w) ==
  /\ job[w].step = "resolve"
  /\ Cardinality(CartsOf(job[w].owner)) > 1
  /\ Finish(w)
  /\ UNCHANGED <<cart, item>>

CreateCart(w, c) ==
  /\ job[w].step = "create"
  /\ c \in FreshCarts
  /\ cart' = [cart EXCEPT ![c] = job[w].owner]
  /\ job' = [job EXCEPT ![w].step = "act", ![w].cart = c]
  /\ UNCHANGED item

-----------------------------------------------------------------------------
(***************************************************************************)
(* add_item, update_item, remove_item and clear.                           *)
(***************************************************************************)
ReadItem(w) ==
  LET j == job[w] IN
  /\ j.step = "act"
  /\ j.op \in {"add", "update"}
  /\ IF \E i \in ItemsOf(j.cart) : item[i].product = j.product
     THEN \E i \in ItemsOf(j.cart) :
            /\ item[i].product = j.product
            /\ job' = [job EXCEPT ![w].step = "save", ![w].found = i,
                                  ![w].old = item[i].quantity]
     ELSE /\ j.op = "add"
          /\ job' = [job EXCEPT ![w].step = "save"]
  /\ UNCHANGED <<cart, item>>

SavedQuantity(j) == IF j.op = "add" THEN j.old + j.quantity ELSE j.quantity

\* A mutant of SaveItem: save() without update_fields, which inserts a row that is gone.
SaveWholeItem(w) ==
  LET j == job[w] IN
  /\ j.step = "save"
  /\ j.found # None
  /\ cart[j.cart] = j.owner
  /\ SavedQuantity(j) <= MaxQuantity
  /\ item' = [item EXCEPT ![j.found] =
       [cart |-> j.cart, product |-> j.product, quantity |-> SavedQuantity(j)]]
  /\ Finish(w)
  /\ UNCHANGED cart

\* item.save(update_fields=...) is by id: it fails when the row is gone, and not when
\* a merge has moved it to another cart.
SaveItem(w) ==
  LET j == job[w] IN
  /\ j.step = "save"
  /\ j.found # None
  /\ item[j.found].cart # None
  /\ SavedQuantity(j) <= MaxQuantity
  /\ item' = [item EXCEPT ![j.found].quantity = SavedQuantity(j)]
  /\ Finish(w)
  /\ UNCHANGED cart

\* CartItem.objects.create, which fails when the product has got an item.
CreateItem(w, i) ==
  LET j == job[w] IN
  /\ j.step = "save"
  /\ j.found = None
  /\ i \in FreshItems
  /\ cart[j.cart] = j.owner
  /\ \A k \in ItemsOf(j.cart) : item[k].product # j.product
  /\ item' = [item EXCEPT ![i] =
       [cart |-> j.cart, product |-> j.product, quantity |-> j.quantity]]
  /\ Finish(w)
  /\ UNCHANGED cart

RemoveItem(w) ==
  LET j == job[w] IN
  /\ j.step = "act"
  /\ j.op = "remove"
  /\ \E i \in ItemsOf(j.cart) :
       /\ item[i].product = j.product
       /\ item' = [item EXCEPT ![i] = NoItem]
  /\ Finish(w)
  /\ UNCHANGED cart

Clear(w) ==
  LET j == job[w] IN
  /\ j.step = "act"
  /\ j.op = "clear"
  /\ cart[j.cart] = j.owner
  /\ item' = [i \in ItemIds |-> IF item[i].cart = j.cart THEN NoItem ELSE item[i]]
  /\ Finish(w)
  /\ UNCHANGED cart

\* An exception: "Product not found.", "This product is out of stock.", "Cart item
\* not found.", a constraint of the database, a lost connection; or a GET, which
\* only resolves.  What _resolve_cart committed stays.
Fail(w) ==
  /\ job[w] # Idle
  /\ Finish(w)
  /\ UNCHANGED <<cart, item>>

-----------------------------------------------------------------------------
(***************************************************************************)
(* merge_carts, one transaction.  Nothing in the repository calls it: it   *)
(* is one step here, between requests.                                     *)
(***************************************************************************)
\* The quantity that cart c has of p.
QuantityIn(c, p) ==
  IF \E i \in ItemsOf(c) : item[i].product = p
  THEN item[CHOOSE i \in ItemsOf(c) : item[i].product = p].quantity
  ELSE 0

\* A mutant of MergedItem: an item the user has already is not touched.
KeptItem(i, anon, authed) ==
  CASE item[i].cart = anon /\ QuantityIn(authed, item[i].product) = 0 ->
         [item[i] EXCEPT !.cart = authed]
    [] item[i].cart = anon /\ QuantityIn(authed, item[i].product) > 0 -> NoItem
    [] OTHER -> item[i]

\* A mutant of MergedItem: an item moves to the user's cart whatever is there.
MovedItem(i, anon, authed) ==
  IF item[i].cart = anon THEN [item[i] EXCEPT !.cart = authed] ELSE item[i]

\* An item of the session's cart moves to the user's, or adds its quantity to
\* the item there and is deleted with the cart.
MergedItem(i, anon, authed) ==
  LET p == item[i].product IN
  CASE item[i].cart = anon /\ QuantityIn(authed, p) = 0 -> [item[i] EXCEPT !.cart = authed]
    [] item[i].cart = anon /\ QuantityIn(authed, p) > 0 -> NoItem
    [] item[i].cart = authed -> [item[i] EXCEPT !.quantity = @ + QuantityIn(anon, p)]
    [] OTHER -> item[i]

Merge(s, u, authed) ==
  /\ \E w \in Workers : job[w] = Idle
  /\ IF CartsOf(u) = {} THEN authed \in FreshCarts ELSE CartsOf(u) = {authed}
  /\ \/ /\ \A c \in CartsOf(s) : ItemsOf(c) = {}
        /\ cart' = [cart EXCEPT ![authed] = u]
        /\ UNCHANGED item
     \/ \E anon \in CartsOf(s) :
          /\ ItemsOf(anon) # {}
          /\ \A p \in Products : QuantityIn(authed, p) + QuantityIn(anon, p) <= MaxQuantity
          /\ item' = [i \in ItemIds |-> MergedItem(i, anon, authed)]
          /\ cart' = [cart EXCEPT ![authed] = u, ![anon] = None]
  /\ UNCHANGED job

Next ==
  \/ \E w \in Workers :
       \/ \E o \in Owners, op \in {"add", "update", "remove", "clear"}, p \in Products,
             q \in 0 .. MaxQuantity : Begin(w, o, op, p, q)
       \/ FindCart(w) \/ MissCart(w) \/ TooManyCarts(w)
       \/ \E c \in CartIds : CreateCart(w, c)
       \/ ReadItem(w) \/ SaveItem(w)
       \/ \E i \in ItemIds : CreateItem(w, i)
       \/ RemoveItem(w) \/ Clear(w) \/ Fail(w)
  \/ \E s \in Sessions, u \in Users, authed \in CartIds : Merge(s, u, authed)

Spec == Init /\ [][Next]_vars

-----------------------------------------------------------------------------
(***************************************************************************)
(* Properties.                                                             *)
(***************************************************************************)
\* "Return the cart for the current request" (apps/cart/views.py): an owner
\* has one cart, or every request of theirs ends in an error.
OneCartEach == \A o \in Owners : Cardinality(CartsOf(o)) <= 1

\* What was removed stays removed: an item that appears holds what one request
\* asked for, and nothing of a row that a request read before it was deleted.
RemovedStaysRemoved ==
  [][\A i \in ItemIds : item[i] = NoItem /\ item'[i] # NoItem =>
       \E w \in Workers :
         /\ job[w].op = "add"
         /\ job[w].found = None
         /\ item'[i].quantity = job[w].quantity]_vars

\* Serial requests implement AtomicCarts: an owner's bag is what is in the
\* owner's cart.
QuantityFor(o, p) ==
  IF CartsOf(o) = {} THEN 0 ELSE QuantityIn(CHOOSE c \in CartsOf(o) : TRUE, p)
Bag == [o \in Owners |-> [p \in Products |-> QuantityFor(o, p)]]
Atomic == INSTANCE AtomicCarts WITH bag <- Bag
AtomicSpec == Atomic!Spec
=============================================================================
