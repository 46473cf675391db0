----------------------------- MODULE CartProofs -----------------------------
(***************************************************************************)
(* Proofs about Carts, for any owners, products, ids and workers: the rows *)
(* of carts and items stay whole when racing requests save what they read  *)
(* and a merge moves items under them, and requests served one at a time   *)
(* implement AtomicCarts.                                                  *)
(***************************************************************************)
EXTENDS SerialCarts, FiniteSetTheorems, TLAPS

-----------------------------------------------------------------------------
(***************************************************************************)
(* The inductive invariant.                                                *)
(***************************************************************************)
\* What a request knows at each step: whose it is, that an add or an update is of at least
\* one unit, and its cart; a save without a row that was found is an add's.
JobOK(j) ==
  /\ j.step # "idle" => j.owner \in Owners
  /\ j.step # "idle" /\ j.op \in {"add", "update"} => j.quantity > 0
  /\ j.step = "save" => j.op \in {"add", "update"}
  /\ j.step = "save" /\ j.found = None => j.op = "add"
  /\ j.step \in {"resolve", "create", "act"} => j.found = None
  /\ j.step \in {"act", "save"} => j.cart \in CartIds

IInv == TypeOK /\ \A w \in Workers : JobOK(job[w])

-----------------------------------------------------------------------------
(***************************************************************************)
(* Types.                                                                  *)
(***************************************************************************)
LEMMA NoItemType == NoItem \in Item /\ NoItem.cart = None /\ NoItem.quantity = 0
<1>1. (CHOOSE p \in Products : TRUE) \in Products
  BY ProductsExist
<1> QED BY <1>1, QuantityIsNat DEF NoItem, Item

LEMMA IdleType == Idle \in Job /\ Idle.step = "idle" /\ Idle.found = None /\ JobOK(Idle)
<1>1. NoItem.product \in Products
  BY NoItemType DEF Item
<1>2. Idle \in Job
  BY <1>1, QuantityIsNat DEF Idle, Job
<1>3. Idle.step = "idle" /\ Idle.found = None
  BY DEF Idle
<1> QED BY <1>2, <1>3 DEF JobOK

LEMMA ItemFields ==
  ASSUME NEW i \in Item
  PROVE  i.cart \in CartIds \cup {None} /\ i.product \in Products /\ i.quantity \in 0 .. MaxQuantity
BY DEF Item

LEMMA JobFields ==
  ASSUME NEW j \in Job
  PROVE  /\ j.owner \in Owners \cup {None}
         /\ j.product \in Products
         /\ j.quantity \in 0 .. MaxQuantity
         /\ j.old \in 0 .. MaxQuantity
         /\ j.cart \in CartIds \cup {None}
         /\ j.found \in ItemIds \cup {None}
BY DEF Job

LEMMA NoneIsNobody == None \notin Owners /\ None \notin CartIds /\ None \notin ItemIds
BY NoneIsNew DEF Owners

\* The rows' part of TypeOK, and the requests' part of IInv.
Whole ==
  /\ cart \in [CartIds -> Owners \cup {None}]
  /\ item \in [ItemIds -> Item]
  /\ \A i \in ItemIds :
       IF item[i].cart = None
       THEN item[i] = NoItem
       ELSE cart[item[i].cart] # None /\ item[i].quantity > 0
  /\ \A c \in CartIds : \A i, j \in ItemsOf(c) : item[i].product = item[j].product => i = j

Serving == job \in [Workers -> Job] /\ \A w \in Workers : JobOK(job[w])

LEMMA Halves == (IInv <=> Whole /\ Serving) /\ (Whole' /\ Serving' => IInv')
BY DEF IInv, TypeOK, Whole, Serving

LEMMA RowsUnchanged == Whole /\ UNCHANGED <<cart, item>> => Whole'
BY DEF Whole, ItemsOf

LEMMA JobsUnchanged == Serving /\ UNCHANGED job => Serving'
BY DEF Serving, JobOK

LEMMA ServingKeeps ==
  ASSUME Serving, NEW w \in Workers, NEW j \in Job, JobOK(j), job' = [job EXCEPT ![w] = j]
  PROVE  Serving'
<1>1. job' \in [Workers -> Job]
  BY DEF Serving
<1>2. ASSUME NEW v \in Workers
      PROVE  JobOK(job[v])'
  <2>1. job'[v] = j \/ job'[v] = job[v]
    BY <1>2 DEF Serving
  <2> SUFFICES ASSUME NEW k, k = job'[v], JobOK(k)
               PROVE  JobOK(job[v])'
    BY <1>2, <2>1 DEF Serving
  <2> QED BY DEF JobOK
<1> QED BY <1>1, <1>2 DEF Serving

LEMMA FinishKeeps ==
  ASSUME Serving, NEW w \in Workers, Finish(w)
  PROVE  Serving'
BY ServingKeeps, IdleType DEF Finish

LEMMA InitIInv == Init => IInv
<1> SUFFICES ASSUME Init PROVE IInv
  OBVIOUS
<1>1. Whole
  BY NoItemType, NoneIsNobody DEF Init, Whole, ItemsOf
<1>2. Serving
  BY IdleType DEF Init, Serving
<1> QED BY <1>1, <1>2, Halves

-----------------------------------------------------------------------------
(***************************************************************************)
(* Requests that change no row.                                            *)
(***************************************************************************)
LEMMA BeginKeeps ==
  ASSUME IInv, NEW w \in Workers, NEW o \in Owners, NEW p \in Products, NEW q \in 0 .. MaxQuantity,
         NEW op \in {"add", "update", "remove", "clear"}, Begin(w, o, op, p, q)
  PROVE  IInv'
<1> DEFINE j == [Idle EXCEPT !.step = "resolve", !.op = op, !.owner = o, !.product = p,
                             !.quantity = q]
<1>1. j \in Job
  BY IdleType DEF Job
<1>2. /\ j.step = "resolve" /\ j.op = op /\ j.owner = o /\ j.quantity = q /\ j.found = None
  BY IdleType DEF Job
<1>3. op \in {"add", "update"} => q > 0
  BY QuantityIsNat DEF Begin
<1>4. job' = [job EXCEPT ![w] = j] /\ UNCHANGED <<cart, item>>
  BY DEF Begin
<1> HIDE DEF j
<1>5. JobOK(j)
  BY <1>2, <1>3 DEF JobOK
<1> QED BY <1>1, <1>4, <1>5, ServingKeeps, RowsUnchanged, Halves

LEMMA FindCartKeeps ==
  ASSUME IInv, NEW w \in Workers, FindCart(w)
  PROVE  IInv'
<1>1. PICK c \in CartIds : job' = [job EXCEPT ![w].step = "act", ![w].cart = c]
  BY DEF FindCart
<1> DEFINE j == [job[w] EXCEPT !.step = "act", !.cart = c]
<1>2. job[w] \in Job /\ JobOK(job[w]) /\ job[w].step = "resolve"
  BY DEF FindCart, IInv, TypeOK
<1>3. j \in Job
  BY <1>2 DEF Job
<1>4. /\ j.step = "act" /\ j.op = job[w].op /\ j.owner = job[w].owner
      /\ j.quantity = job[w].quantity /\ j.found = job[w].found
      /\ j.cart = c
  BY <1>2 DEF Job
<1>5. job' = [job EXCEPT ![w] = j]
  BY <1>1 DEF IInv, TypeOK
<1> HIDE DEF j
<1>6. JobOK(j)
  BY <1>2, <1>4 DEF JobOK
<1> QED BY <1>3, <1>5, <1>6, ServingKeeps, RowsUnchanged, Halves DEF FindCart

LEMMA MissCartKeeps ==
  ASSUME IInv, NEW w \in Workers, MissCart(w)
  PROVE  IInv'
<1> DEFINE j == [job[w] EXCEPT !.step = "create"]
<1>2. job[w] \in Job /\ JobOK(job[w]) /\ job[w].step = "resolve"
  BY DEF MissCart, IInv, TypeOK
<1>3. j \in Job
  BY <1>2 DEF Job
<1>4. /\ j.step = "create" /\ j.op = job[w].op /\ j.owner = job[w].owner
      /\ j.quantity = job[w].quantity /\ j.found = job[w].found
  BY <1>2 DEF Job
<1>5. job' = [job EXCEPT ![w] = j]
  BY DEF MissCart
<1> HIDE DEF j
<1>6. JobOK(j)
  BY <1>2, <1>4 DEF JobOK
<1> QED BY <1>3, <1>5, <1>6, ServingKeeps, RowsUnchanged, Halves DEF MissCart

LEMMA ReadItemKeeps ==
  ASSUME IInv, NEW w \in Workers, ReadItem(w)
  PROVE  IInv'
<1>1. job[w] \in Job /\ JobOK(job[w]) /\ job[w].step = "act" /\ job[w].op \in {"add", "update"}
  BY DEF ReadItem, IInv, TypeOK
<1>2. ASSUME NEW i \in ItemIds,
             job' = [job EXCEPT ![w].step = "save", ![w].found = i, ![w].old = item[i].quantity]
      PROVE  Serving'
  <2> DEFINE j == [job[w] EXCEPT !.step = "save", !.found = i, !.old = item[i].quantity]
  <2>1. item[i].quantity \in 0 .. MaxQuantity
    BY ItemFields DEF IInv, TypeOK
  <2>2. j \in Job
    BY <1>1, <2>1 DEF Job
  <2>3. /\ j.step = "save" /\ j.op = job[w].op /\ j.owner = job[w].owner /\ j.cart = job[w].cart
        /\ j.quantity = job[w].quantity /\ j.found = i
    BY <1>1 DEF Job
  <2>4. job' = [job EXCEPT ![w] = j]
    BY <1>2 DEF IInv, TypeOK
  <2> HIDE DEF j
  <2>5. JobOK(j)
    BY <1>1, <2>3, NoneIsNobody DEF JobOK
  <2> QED BY <2>2, <2>4, <2>5, ServingKeeps, Halves
<1>3. ASSUME job' = [job EXCEPT ![w].step = "save"], job[w].op = "add"
      PROVE  Serving'
  <2> DEFINE j == [job[w] EXCEPT !.step = "save"]
  <2>2. j \in Job
    BY <1>1 DEF Job
  <2>3. /\ j.step = "save" /\ j.op = job[w].op /\ j.owner = job[w].owner /\ j.cart = job[w].cart
        /\ j.quantity = job[w].quantity
    BY <1>1 DEF Job
  <2>4. job' = [job EXCEPT ![w] = j]
    BY <1>3
  <2> HIDE DEF j
  <2>5. JobOK(j)
    BY <1>1, <1>3, <2>3 DEF JobOK
  <2> QED BY <2>2, <2>4, <2>5, ServingKeeps, Halves
<1>4. Serving'
  BY <1>2, <1>3 DEF ReadItem, ItemsOf
<1> QED BY <1>4, RowsUnchanged, Halves DEF ReadItem

\* Requests that end with an error.
LEMMA ErrorKeeps ==
  ASSUME IInv, NEW w \in Workers, TooManyCarts(w) \/ Fail(w)
  PROVE  IInv'
BY FinishKeeps, RowsUnchanged, Halves DEF TooManyCarts, Fail

-----------------------------------------------------------------------------
(***************************************************************************)
(* Requests that write rows.                                               *)
(***************************************************************************)
LEMMA CreateCartKeeps ==
  ASSUME IInv, NEW w \in Workers, NEW c \in CartIds, CreateCart(w, c)
  PROVE  IInv'
<1> DEFINE j == [job[w] EXCEPT !.step = "act", !.cart = c]
<1>1. job[w] \in Job /\ JobOK(job[w]) /\ job[w].step = "create"
  BY DEF CreateCart, IInv, TypeOK
<1>2. j \in Job
  BY <1>1 DEF Job
<1>3. /\ j.step = "act" /\ j.op = job[w].op /\ j.owner = job[w].owner
      /\ j.quantity = job[w].quantity /\ j.found = job[w].found
      /\ j.cart = c
  BY <1>1 DEF Job
<1>4. job' = [job EXCEPT ![w] = j]
  BY DEF CreateCart, IInv, TypeOK
<1>5. job[w].owner \in Owners
  BY <1>1 DEF JobOK
<1> HIDE DEF j
<1>6. JobOK(j)
  BY <1>1, <1>3 DEF JobOK
<1>7. Serving'
  BY <1>2, <1>4, <1>6, ServingKeeps, Halves
<1>8. cart' = [cart EXCEPT ![c] = job[w].owner] /\ item' = item
  BY DEF CreateCart
<1>9. Whole'
  BY <1>5, <1>8, NoneIsNobody DEF IInv, TypeOK, Whole, ItemsOf
<1> QED BY <1>7, <1>9, Halves

\* One item row is written: of its kind, of a cart that exists, and of a product that the
\* cart has no other item for; or it is deleted.
LEMMA WriteItem ==
  ASSUME Whole, NEW i \in ItemIds, NEW row \in Item,
         \/ row = NoItem
         \/ /\ row.cart \in CartIds
            /\ cart[row.cart] # None
            /\ row.quantity > 0
            /\ \A k \in ItemIds \ {i} :
                 item[k].cart = row.cart => item[k].product # row.product,
         item' = [item EXCEPT ![i] = row], cart' = cart
  PROVE  Whole'
<1>1. item' \in [ItemIds -> Item] /\ \A k \in ItemIds : item'[k] = IF k = i THEN row ELSE item[k]
  BY DEF Whole
<1>2. cart' \in [CartIds -> Owners \cup {None}]
  BY DEF Whole
<1>3. ASSUME NEW k \in ItemIds
      PROVE  IF item'[k].cart = None
             THEN item'[k] = NoItem
             ELSE cart'[item'[k].cart] # None /\ item'[k].quantity > 0
  <2>1. CASE k = i
    BY <1>1, <2>1, NoItemType, NoneIsNobody
  <2>2. CASE k # i
    BY <1>1, <2>2 DEF Whole
  <2> QED BY <2>1, <2>2
<1>4. ASSUME NEW c \in CartIds, NEW k \in ItemIds, NEW l \in ItemIds,
             item'[k].cart = c, item'[l].cart = c, item'[k].product = item'[l].product
      PROVE  k = l
  <2>1. c # None
    BY NoneIsNobody
  <2>2. CASE k = i \/ l = i
    BY <1>1, <1>4, <2>1, <2>2, NoItemType
  <2>3. CASE k # i /\ l # i
    BY <1>1, <1>4, <2>3 DEF Whole, ItemsOf
  <2> QED BY <2>2, <2>3
<1> QED BY <1>1, <1>2, <1>3, <1>4 DEF Whole, ItemsOf

\* What a save writes: at least one unit.
LEMMA SavedIsPositive ==
  ASSUME NEW j \in Job, JobOK(j), j.step = "save"
  PROVE  SavedQuantity(j) \in Nat /\ SavedQuantity(j) > 0 /\ j.quantity > 0
<1>1. j.op \in {"add", "update"} /\ j.quantity > 0
  BY DEF JobOK
<1>2. j.quantity \in Nat /\ j.old \in Nat
  BY JobFields, QuantityIsNat
<1> QED BY <1>1, <1>2 DEF SavedQuantity

LEMMA SaveItemKeeps ==
  ASSUME IInv, NEW w \in Workers, SaveItem(w)
  PROVE  IInv'
<1>1. PICK i, q : i = job[w].found /\ q = SavedQuantity(job[w])
  OBVIOUS
<1>2. job[w] \in Job /\ JobOK(job[w]) /\ job[w].step = "save"
  BY DEF SaveItem, IInv, TypeOK
<1>3. i \in ItemIds /\ item[i].cart # None /\ q <= MaxQuantity
  BY <1>1, <1>2, JobFields DEF SaveItem
<1>4. q \in 0 .. MaxQuantity /\ q > 0
  BY <1>1, <1>2, <1>3, SavedIsPositive, QuantityIsNat
<1>5. Whole
  BY Halves
<1>6. item[i] \in Item
  BY <1>3, <1>5 DEF Whole
<1> DEFINE row == [item[i] EXCEPT !.quantity = q]
<1>7. row \in Item /\ row.cart = item[i].cart /\ row.product = item[i].product /\ row.quantity = q
  BY <1>4, <1>6 DEF Item
<1>8. item' = [item EXCEPT ![i] = row] /\ cart' = cart
  BY <1>1 DEF SaveItem
<1> HIDE DEF row
<1>9. row.cart \in CartIds /\ cart[row.cart] # None
  BY <1>3, <1>5, <1>6, <1>7, ItemFields DEF Whole
<1>10. \A k \in ItemIds \ {i} : item[k].cart = row.cart => item[k].product # row.product
  BY <1>3, <1>5, <1>7, <1>9 DEF Whole, ItemsOf
<1>11. Whole'
  BY <1>3, <1>4, <1>5, <1>7, <1>8, <1>9, <1>10, WriteItem
<1> QED BY <1>11, FinishKeeps, Halves DEF SaveItem

LEMMA CreateItemKeeps ==
  ASSUME IInv, NEW w \in Workers, NEW i \in ItemIds, CreateItem(w, i)
  PROVE  IInv'
<1>1. PICK c, p, q : c = job[w].cart /\ p = job[w].product /\ q = job[w].quantity
  OBVIOUS
<1>2. job[w] \in Job /\ JobOK(job[w]) /\ job[w].step = "save"
  BY DEF CreateItem, IInv, TypeOK
<1>3. p \in Products /\ q \in 0 .. MaxQuantity /\ q > 0
  BY <1>1, <1>2, JobFields, SavedIsPositive
<1>4. cart[c] \in Owners
  BY <1>1, <1>2 DEF CreateItem, JobOK
<1>5. Whole
  BY Halves
<1> DEFINE row == [cart |-> c, product |-> p, quantity |-> q]
<1>6. row.cart = c /\ row.product = p /\ row.quantity = q /\ (c \in CartIds => row \in Item)
  BY <1>3 DEF Item
<1>7. item' = [item EXCEPT ![i] = row] /\ cart' = cart
  BY <1>1 DEF CreateItem
<1>8. \A k \in ItemsOf(c) : item[k].product # p
  BY <1>1 DEF CreateItem
<1> HIDE DEF row
<1>9. c \in CartIds => Whole'
  BY <1>3, <1>4, <1>5, <1>6, <1>7, <1>8, NoneIsNobody, WriteItem DEF ItemsOf
<1>10. c \in CartIds
  BY <1>1, <1>2 DEF JobOK
<1> QED BY <1>9, <1>10, FinishKeeps, Halves DEF CreateItem

\* Deleted rows leave the others whole.
LEMMA DeleteItems ==
  ASSUME Whole, NEW S \in SUBSET ItemIds,
         item' = [i \in ItemIds |-> IF i \in S THEN NoItem ELSE item[i]], cart' = cart
  PROVE  Whole'
<1>1. item' \in [ItemIds -> Item] /\ cart' \in [CartIds -> Owners \cup {None}]
  BY NoItemType DEF Whole
<1>2. \A i \in ItemIds : item'[i] = NoItem \/ item'[i] = item[i]
  OBVIOUS
<1>3. ASSUME NEW i \in ItemIds
      PROVE  IF item'[i].cart = None
             THEN item'[i] = NoItem
             ELSE cart'[item'[i].cart] # None /\ item'[i].quantity > 0
  BY <1>2, NoItemType DEF Whole
<1>4. ASSUME NEW c \in CartIds, NEW k \in ItemIds, NEW l \in ItemIds,
             item'[k].cart = c, item'[l].cart = c, item'[k].product = item'[l].product
      PROVE  k = l
  <2>1. c # None
    BY NoneIsNobody
  <2>2. item'[k] = item[k] /\ item'[l] = item[l]
    BY <1>2, <1>4, <2>1, NoItemType
  <2> QED BY <1>4, <2>2 DEF Whole, ItemsOf
<1> QED BY <1>1, <1>3, <1>4 DEF Whole, ItemsOf

LEMMA RemoveItemKeeps ==
  ASSUME IInv, NEW w \in Workers, RemoveItem(w)
  PROVE  IInv'
<1>1. PICK i \in ItemIds : item' = [item EXCEPT ![i] = NoItem]
  BY DEF RemoveItem, ItemsOf
<1>2. Whole'
  BY <1>1, NoItemType, WriteItem, Halves DEF RemoveItem
<1> QED BY <1>2, FinishKeeps, Halves DEF RemoveItem

LEMMA ClearKeeps ==
  ASSUME IInv, NEW w \in Workers, Clear(w)
  PROVE  IInv'
<1> DEFINE S == ItemsOf(job[w].cart)
<1>1. item' = [i \in ItemIds |-> IF i \in S THEN NoItem ELSE item[i]] /\ S \in SUBSET ItemIds
  BY DEF Clear, ItemsOf
<1> HIDE DEF S
<1>2. Whole'
  BY <1>1, DeleteItems, Halves DEF Clear
<1> QED BY <1>2, FinishKeeps, Halves DEF Clear

-----------------------------------------------------------------------------
(***************************************************************************)
(* The merge.                                                              *)
(***************************************************************************)
\* A cart has the quantity of its one item for the product, or none.
LEMMA QuantityOfItem ==
  ASSUME Whole, NEW c \in CartIds, NEW i \in ItemIds, item[i].cart = c
  PROVE  /\ QuantityIn(c, item[i].product) = item[i].quantity
         /\ item[i].quantity \in Nat
         /\ item[i].quantity > 0
<1> DEFINE p == item[i].product
<1>1. i \in ItemsOf(c)
  BY DEF ItemsOf
<1>2. PICK k : k = CHOOSE m \in ItemsOf(c) : item[m].product = p
  OBVIOUS
<1>3. k \in ItemsOf(c) /\ item[k].product = p
  BY <1>1, <1>2
<1>4. k = i
  BY <1>1, <1>3 DEF Whole
<1>5. QuantityIn(c, p) = item[k].quantity
  BY <1>1, <1>2 DEF QuantityIn
<1>6. item[i] \in Item /\ item[i].cart # None
  BY NoneIsNobody DEF Whole
<1> QED BY <1>4, <1>5, <1>6, ItemFields, QuantityIsNat DEF Whole

LEMMA QuantityOfNothing ==
  ASSUME NEW c, NEW p, \A i \in ItemIds : item[i].cart = c => item[i].product # p
  PROVE  QuantityIn(c, p) = 0
BY DEF QuantityIn, ItemsOf

LEMMA QuantityIsNatural ==
  ASSUME Whole, NEW c \in CartIds, NEW p
  PROVE  QuantityIn(c, p) \in Nat
<1>1. CASE \E i \in ItemIds : item[i].cart = c /\ item[i].product = p
  BY <1>1, QuantityOfItem
<1>2. CASE ~ \E i \in ItemIds : item[i].cart = c /\ item[i].product = p
  BY <1>2, QuantityOfNothing
<1> QED BY <1>1, <1>2

\* What becomes of each item.
LEMMA ItemsAreMerged ==
  ASSUME Whole, NEW anon \in CartIds, NEW authed \in CartIds, anon # authed,
         \A p \in Products : QuantityIn(authed, p) + QuantityIn(anon, p) <= MaxQuantity,
         NEW i \in ItemIds, NEW row, row = MergedItem(i, anon, authed)
  PROVE  /\ row \in Item
         /\ row.cart # anon
         /\ row = NoItem \/ (row.product = item[i].product /\ row.quantity > 0 /\ row.cart # None)
         /\ row.cart = item[i].cart \/ row = NoItem \/
              (row.cart = authed /\ item[i].cart = anon /\ QuantityIn(authed, item[i].product) = 0)
<1>1. item[i] \in Item
  BY DEF Whole
<1>2. PICK p : p = item[i].product
  OBVIOUS
<1>3. /\ p \in Products /\ item[i].cart \in CartIds \cup {None}
      /\ item[i].quantity \in 0 .. MaxQuantity
  BY <1>1, <1>2, ItemFields
<1>4. QuantityIn(authed, p) \in Nat /\ QuantityIn(anon, p) \in Nat
  BY QuantityIsNatural
<1>5. anon # None /\ authed # None
  BY NoneIsNobody
<1>6. CASE item[i].cart = anon /\ QuantityIn(authed, p) = 0
  <2>1. row = [item[i] EXCEPT !.cart = authed]
    BY <1>2, <1>6 DEF MergedItem
  <2>2. row \in Item /\ row.cart = authed /\ row.product = p /\ row.quantity = item[i].quantity
    BY <1>1, <1>2, <2>1 DEF Item
  <2> QED BY <1>2, <1>5, <1>6, <2>2, QuantityOfItem
<1>7. CASE item[i].cart = anon /\ QuantityIn(authed, p) > 0
  <2>1. row = NoItem
    BY <1>2, <1>4, <1>7 DEF MergedItem
  <2> QED BY <1>5, <2>1, NoItemType
<1>8. CASE item[i].cart = authed
  <2>1. row = [item[i] EXCEPT !.quantity = item[i].quantity + QuantityIn(anon, p)]
    BY <1>2, <1>8 DEF MergedItem
  <2>2. QuantityIn(authed, p) = item[i].quantity /\ item[i].quantity \in Nat /\ item[i].quantity > 0
    BY <1>2, <1>8, QuantityOfItem
  <2>3. item[i].quantity + QuantityIn(anon, p) \in 0 .. MaxQuantity
    BY <1>3, <1>4, <2>2, QuantityIsNat
  <2>4. /\ row \in Item /\ row.cart = authed /\ row.product = p
        /\ row.quantity = item[i].quantity + QuantityIn(anon, p)
    BY <1>1, <1>2, <1>8, <2>1, <2>3 DEF Item
  <2> QED BY <1>2, <1>4, <1>5, <1>8, <2>2, <2>4
<1>9. CASE item[i].cart # anon /\ item[i].cart # authed
  <2>1. row = item[i]
    BY <1>9 DEF MergedItem
  <2> QED BY <1>1, <1>9, <2>1 DEF Whole
<1>10. QuantityIn(authed, p) = 0 \/ QuantityIn(authed, p) > 0
  BY <1>4
<1> QED BY <1>6, <1>7, <1>8, <1>9, <1>10

LEMMA MergeKeeps ==
  ASSUME IInv, NEW s \in Sessions, NEW u \in Users, NEW authed \in CartIds, Merge(s, u, authed)
  PROVE  IInv'
<1>1. Whole /\ Serving' /\ u \in Owners
  BY Halves, JobsUnchanged DEF Merge, Owners
<1>2. cart[authed] \in {u, None}
  BY DEF Merge, FreshCarts, CartsOf
<1>3. CASE cart' = [cart EXCEPT ![authed] = u] /\ item' = item
  <2>1. Whole'
    BY <1>1, <1>3, NoneIsNobody DEF Whole, ItemsOf
  <2> QED BY <1>1, <2>1, Halves
<1>4. ASSUME NEW anon \in CartsOf(s),
             \A p \in Products : QuantityIn(authed, p) + QuantityIn(anon, p) <= MaxQuantity,
             item' = [i \in ItemIds |-> MergedItem(i, anon, authed)],
             cart' = [cart EXCEPT ![authed] = u, ![anon] = None]
      PROVE  IInv'
  <2>1. anon \in CartIds /\ anon # authed
    BY <1>2, OwnersDiffer, NoneIsNew DEF CartsOf
  <2>2. ASSUME NEW i \in ItemIds
        PROVE  /\ item'[i] \in Item
               /\ item'[i].cart # anon
               /\ item'[i] = NoItem \/ /\ item'[i].product = item[i].product
                                       /\ item'[i].quantity > 0
                                       /\ item'[i].cart # None
               /\ item'[i].cart = item[i].cart \/ item'[i] = NoItem \/
                    /\ item'[i].cart = authed
                    /\ item[i].cart = anon
                    /\ QuantityIn(authed, item[i].product) = 0
    <3>1. item'[i] = MergedItem(i, anon, authed)
      BY <1>4
    <3> QED BY <1>1, <1>4, <2>1, <3>1, ItemsAreMerged
  <2>3. item' \in [ItemIds -> Item]
    BY <1>4, <2>2
  <2>4. cart' \in [CartIds -> Owners \cup {None}]
        /\ \A c \in CartIds : c # anon /\ (cart[c] # None \/ c = authed) => cart'[c] # None
    BY <1>1, <1>4, <2>1, NoneIsNobody DEF Whole
  <2>5. ASSUME NEW i \in ItemIds
        PROVE  IF item'[i].cart = None
               THEN item'[i] = NoItem
               ELSE cart'[item'[i].cart] # None /\ item'[i].quantity > 0
    <3>1. CASE item'[i] = NoItem
      BY <3>1, NoItemType
    <3>2. CASE item'[i] # NoItem
      <4>1. item'[i].cart # None /\ item'[i].quantity > 0 /\ item'[i].cart # anon
        BY <2>2, <3>2
      <4>2. item'[i].cart = authed \/ (item'[i].cart = item[i].cart /\ cart[item[i].cart] # None)
        BY <1>1, <2>2, <3>2, <4>1 DEF Whole
      <4>3. item'[i].cart \in CartIds
        BY <2>2, <4>1, ItemFields
      <4> QED BY <2>4, <4>1, <4>2, <4>3
    <3> QED BY <3>1, <3>2
  <2>6. ASSUME NEW c \in CartIds, NEW k \in ItemIds, NEW l \in ItemIds,
               item'[k].cart = c, item'[l].cart = c, item'[k].product = item'[l].product
        PROVE  k = l
    <3>1. item'[k] # NoItem /\ item'[l] # NoItem
      BY <2>6, NoItemType, NoneIsNobody
    <3>2. item[k].product = item[l].product
      BY <2>2, <2>6, <3>1
    <3>3. CASE item[k].cart = item[l].cart
      <4>1. item[k].cart = c \/ item[k].cart = anon
        BY <2>2, <2>6, <3>1
      <4> QED BY <1>1, <2>1, <3>2, <3>3, <4>1 DEF Whole, ItemsOf
    <3>4. ASSUME NEW m \in ItemIds, NEW n \in ItemIds, item[m].cart = authed,
                 QuantityIn(authed, item[n].product) = 0, item[m].product = item[n].product
          PROVE  FALSE
      BY <1>1, <3>4, QuantityOfItem
    <3>5. CASE item[k].cart # item[l].cart
      BY <2>2, <2>6, <3>1, <3>2, <3>4, <3>5
    <3> QED BY <3>3, <3>5
  <2>7. Whole'
    BY <2>3, <2>4, <2>5, <2>6 DEF Whole, ItemsOf
  <2> QED BY <1>1, <2>7, Halves
<1> QED BY <1>3, <1>4 DEF Merge

-----------------------------------------------------------------------------
(***************************************************************************)
(* The theorems.                                                           *)
(***************************************************************************)
LEMMA NextIInv == IInv /\ [Next]_vars => IInv'
<1> SUFFICES ASSUME IInv, [Next]_vars PROVE IInv'
  OBVIOUS
<1>1. ASSUME NEW w \in Workers, NEW o \in Owners, NEW op \in {"add", "update", "remove", "clear"},
             NEW p \in Products, NEW q \in 0 .. MaxQuantity, Begin(w, o, op, p, q)
      PROVE  IInv'
  BY <1>1, BeginKeeps
<1>2. ASSUME NEW w \in Workers,
             FindCart(w) \/ MissCart(w) \/ TooManyCarts(w) \/ ReadItem(w) \/ SaveItem(w)
               \/ RemoveItem(w) \/ Clear(w) \/ Fail(w)
      PROVE  IInv'
  BY <1>2, FindCartKeeps, MissCartKeeps, ErrorKeeps, ReadItemKeeps, SaveItemKeeps,
     RemoveItemKeeps, ClearKeeps
<1>3. ASSUME NEW w \in Workers, NEW c \in CartIds, CreateCart(w, c)
      PROVE  IInv'
  BY <1>3, CreateCartKeeps
<1>4. ASSUME NEW w \in Workers, NEW i \in ItemIds, CreateItem(w, i)
      PROVE  IInv'
  BY <1>4, CreateItemKeeps
<1>5. ASSUME NEW s \in Sessions, NEW u \in Users, NEW authed \in CartIds, Merge(s, u, authed)
      PROVE  IInv'
  BY <1>5, MergeKeeps
<1>6. CASE UNCHANGED vars
  BY <1>6, RowsUnchanged, JobsUnchanged, Halves DEF vars
<1> QED BY <1>1, <1>2, <1>3, <1>4, <1>5, <1>6 DEF Next

\* IInv holds in every state, whatever requests and merges race or fail.
THEOREM Inductive == Spec => []IInv
BY InitIInv, NextIInv, PTL DEF Spec

\* Items are of carts that exist, one for each product of a cart and of at least one unit:
\* update_fields and the unique constraint suffice for that, and no lock is needed.
THEOREM TypeCorrect == Spec => []TypeOK
<1>1. IInv => TypeOK
  BY DEF IInv
<1> QED BY <1>1, Inductive, PTL

\* Only an add that found no row makes one appear: a save of a row that was removed since it
\* was read fails, and a merge moves rows and makes none.
THEOREM NothingComesBack == Spec => RemovedStaysRemoved
<1> DEFINE Stays ==
      \A i \in ItemIds : item[i] = NoItem /\ item'[i] # NoItem =>
        \E w \in Workers :
          /\ job[w].op = "add"
          /\ job[w].found = None
          /\ item'[i].quantity = job[w].quantity
<1>1. IInv /\ [Next]_vars => Stays
  <2> SUFFICES ASSUME IInv, [Next]_vars, NEW i \in ItemIds, item[i] = NoItem, item'[i] # NoItem
               PROVE  \E w \in Workers :
                        /\ job[w].op = "add"
                        /\ job[w].found = None
                        /\ item'[i].quantity = job[w].quantity
    OBVIOUS
  <2>1. item \in [ItemIds -> Item] /\ item[i].cart = None
    BY NoItemType DEF IInv, TypeOK
  <2>2. ASSUME NEW w \in Workers, NEW k \in ItemIds, CreateItem(w, k)
        PROVE  /\ job[w].op = "add"
               /\ job[w].found = None
               /\ item'[i].quantity = job[w].quantity
    BY <2>1, <2>2 DEF CreateItem, IInv, JobOK
  <2>3. ASSUME NEW w \in Workers, SaveItem(w) \/ RemoveItem(w) \/ Clear(w)
        PROVE  FALSE
    BY <2>1, <2>3 DEF SaveItem, RemoveItem, Clear
  <2>4. ASSUME NEW s \in Sessions, NEW u \in Users, NEW authed \in CartIds, Merge(s, u, authed)
        PROVE  FALSE
    <3>1. \A anon \in CartIds : MergedItem(i, anon, authed) = item[i]
      BY <2>1, NoneIsNobody DEF MergedItem
    <3> QED BY <2>4, <3>1 DEF Merge, CartsOf
  <2>5. ASSUME NEW w \in Workers,
               \/ \E o \in Owners, op \in {"add", "update", "remove", "clear"}, p \in Products,
                     q \in 0 .. MaxQuantity : Begin(w, o, op, p, q)
               \/ FindCart(w) \/ MissCart(w) \/ TooManyCarts(w) \/ ReadItem(w) \/ Fail(w)
               \/ \E c \in CartIds : CreateCart(w, c)
        PROVE  FALSE
    BY <2>5 DEF Begin, FindCart, MissCart, TooManyCarts, ReadItem, Fail, CreateCart
  <2>6. ~ UNCHANGED vars
    BY DEF vars
  <2> QED BY <2>2, <2>3, <2>4, <2>5, <2>6 DEF Next
<1> HIDE DEF Stays
<1>2. Spec => [][Stays]_vars
  BY <1>1, Inductive, PTL DEF Spec
<1> QED BY <1>2 DEF RemovedStaysRemoved, Stays

-----------------------------------------------------------------------------
(***************************************************************************)
(* Serial requests.  An owner has one cart, and what a request has read    *)
(* still holds when it writes, for nothing moves in between.               *)
(***************************************************************************)
UniqueCarts == \A c, d \in CartIds : cart[c] = cart[d] /\ cart[c] # None => c = d

\* What a request has seen of the rows: no cart of its owner's before it creates one, then the
\* owner's cart, and the item of its product or none.
Follows(j) ==
  /\ j.step = "create" => \A c \in CartIds : cart[c] # j.owner
  /\ j.step \in {"act", "save"} => cart[j.cart] = j.owner
  /\ j.step = "save" /\ j.found # None =>
       /\ item[j.found].cart = j.cart
       /\ item[j.found].product = j.product
       /\ item[j.found].quantity = j.old
  /\ j.step = "save" /\ j.found = None =>
       \A i \in ItemIds : item[i].cart = j.cart => item[i].product # j.product

SerialInv ==
  /\ \A v, w \in Workers : job[v] # Idle /\ job[w] # Idle => v = w
  /\ UniqueCarts
  /\ \A w \in Workers : Follows(job[w])

\* An idle worker has seen nothing.
LEMMA IdleFollows == Follows(Idle) /\ Follows(Idle)'
<1>1. Idle.step = "idle"
  BY IdleType
<1>3. Follows(Idle)
  BY <1>1 DEF Follows
<1>4. Follows(Idle)'
  BY <1>1 DEF Follows
<1> QED BY <1>3, <1>4

\* A request that is served is the only one.
LEMMA OthersIdle ==
  ASSUME SerialInv, NEW w \in Workers, job[w].step # "idle" \/ job[w] # Idle
  PROVE  \A v \in Workers \ {w} : job[v] = Idle
<1>1. job[w] # Idle
  BY IdleType
<1> QED BY <1>1 DEF SerialInv

\* A step of the only request keeps the invariant if the carts stay unique and it has seen
\* the rows as they are.
LEMMA SerialKeeps ==
  ASSUME Serving, NEW w \in Workers, NEW j, job' = [job EXCEPT ![w] = j],
         \A v \in Workers \ {w} : job[v] = Idle,
         UniqueCarts', Follows(j)'
  PROVE  SerialInv'
<1>1. \A v \in Workers : job'[v] = IF v = w THEN j ELSE Idle
  BY DEF Serving
<1>2. ASSUME NEW v \in Workers PROVE Follows(job[v])'
  <2>1. CASE v = w
    <3>1. job'[v] = j
      BY <1>1, <2>1
    <3> QED BY <3>1 DEF Follows
  <2>2. CASE v # w
    <3>1. job'[v] = Idle
      BY <1>1, <2>2
    <3> QED BY <3>1, IdleFollows DEF Follows
  <2> QED BY <2>1, <2>2
<1> QED BY <1>1, <1>2 DEF SerialInv

LEMMA FinishSerial ==
  ASSUME Serving, NEW w \in Workers, Finish(w), \A v \in Workers \ {w} : job[v] = Idle, UniqueCarts'
  PROVE  SerialInv'
BY SerialKeeps, IdleFollows DEF Finish

LEMMA BeginSerial ==
  ASSUME IInv, SerialInv, OneAtATime, NEW w \in Workers, NEW o, NEW op, NEW p, NEW q,
         Begin(w, o, op, p, q)
  PROVE  SerialInv'
<1> DEFINE j == [Idle EXCEPT !.step = "resolve", !.op = op, !.owner = o, !.product = p,
                             !.quantity = q]
<1>1. j.step = "resolve" /\ Idle.step = "idle"
  BY DEF Idle
<1>2. job' = [job EXCEPT ![w] = j] /\ UNCHANGED <<cart, item>>
  BY DEF Begin
<1> HIDE DEF j
<1>3. job'[w] # Idle
  BY <1>1, <1>2 DEF IInv, TypeOK
<1>4. \A v \in Workers \ {w} : job[v] = Idle
  BY <1>2, <1>3 DEF OneAtATime, IInv, TypeOK
<1>5. Follows(j)'
  BY <1>1 DEF Follows
<1>6. UniqueCarts'
  BY <1>2 DEF SerialInv, UniqueCarts
<1> QED BY <1>2, <1>4, <1>5, <1>6, SerialKeeps, Halves

LEMMA FindCartSerial ==
  ASSUME IInv, SerialInv, NEW w \in Workers, FindCart(w)
  PROVE  SerialInv'
<1>1. PICK c \in CartIds : /\ CartsOf(job[w].owner) = {c}
                           /\ job' = [job EXCEPT ![w].step = "act", ![w].cart = c]
  BY DEF FindCart
<1>0. PICK j : j = [job[w] EXCEPT !.step = "act", !.cart = c]
  OBVIOUS
<1>2. job[w] \in Job /\ JobOK(job[w]) /\ job[w].step = "resolve"
  BY DEF FindCart, IInv, TypeOK
<1>3. j.step = "act" /\ j.owner = job[w].owner /\ j.cart = c
  BY <1>0, <1>2 DEF Job
<1>4. job' = [job EXCEPT ![w] = j] /\ UNCHANGED <<cart, item>>
  BY <1>0, <1>1 DEF IInv, TypeOK, FindCart
<1>5. cart[c] = job[w].owner
  BY <1>1 DEF CartsOf
<1>6. Follows(j)'
  BY <1>3, <1>4, <1>5 DEF Follows
<1>7. UniqueCarts'
  BY <1>4 DEF SerialInv, UniqueCarts
<1> QED BY <1>2, <1>4, <1>6, <1>7, SerialKeeps, OthersIdle, Halves

LEMMA MissCartSerial ==
  ASSUME IInv, SerialInv, NEW w \in Workers, MissCart(w)
  PROVE  SerialInv'
<1>0. PICK j : j = [job[w] EXCEPT !.step = "create"]
  OBVIOUS
<1>1. job[w] \in Job /\ job[w].step = "resolve"
  BY DEF MissCart, IInv, TypeOK
<1>2. j.step = "create" /\ j.owner = job[w].owner
  BY <1>0, <1>1 DEF Job
<1>3. job' = [job EXCEPT ![w] = j] /\ UNCHANGED <<cart, item>>
  BY <1>0 DEF MissCart
<1>4. \A c \in CartIds : cart[c] # job[w].owner
  BY DEF MissCart, CartsOf
<1>5. Follows(j)'
  BY <1>2, <1>3, <1>4 DEF Follows
<1>6. UniqueCarts'
  BY <1>3 DEF SerialInv, UniqueCarts
<1> QED BY <1>1, <1>3, <1>5, <1>6, SerialKeeps, OthersIdle, Halves

LEMMA CreateCartSerial ==
  ASSUME IInv, SerialInv, NEW w \in Workers, NEW c \in CartIds, CreateCart(w, c)
  PROVE  SerialInv'
<1>0. PICK j : j = [job[w] EXCEPT !.step = "act", !.cart = c]
  OBVIOUS
<1>1. job[w] \in Job /\ JobOK(job[w]) /\ job[w].step = "create"
  BY DEF CreateCart, IInv, TypeOK
<1>2. j.step = "act" /\ j.owner = job[w].owner /\ j.cart = c
  BY <1>0, <1>1 DEF Job
<1>3. job' = [job EXCEPT ![w] = j] /\ cart' = [cart EXCEPT ![c] = job[w].owner]
  BY <1>0 DEF CreateCart, IInv, TypeOK
<1>4. /\ \A d \in CartIds : cart'[d] = IF d = c THEN job[w].owner ELSE cart[d]
      /\ \A d \in CartIds : cart[d] # job[w].owner
  BY <1>1, <1>3 DEF IInv, TypeOK, SerialInv, Follows
<1>5. UniqueCarts'
  BY <1>4 DEF SerialInv, UniqueCarts
<1>6. Follows(j)'
  BY <1>2, <1>4 DEF Follows
<1> QED BY <1>1, <1>3, <1>5, <1>6, SerialKeeps, OthersIdle, Halves

LEMMA ReadItemSerial ==
  ASSUME IInv, SerialInv, NEW w \in Workers, ReadItem(w)
  PROVE  SerialInv'
<1>1. job[w] \in Job /\ JobOK(job[w]) /\ job[w].step = "act" /\ UNCHANGED <<cart, item>>
  <2>1. job[w].step = "act" /\ UNCHANGED <<cart, item>>
    BY Zenon DEF ReadItem
  <2> QED BY <2>1 DEF IInv, TypeOK
<1>2. cart[job[w].cart] = job[w].owner
  BY <1>1 DEF SerialInv, Follows
<1>3. UniqueCarts'
  BY <1>1 DEF SerialInv, UniqueCarts
<1>4. ASSUME NEW i \in ItemsOf(job[w].cart), item[i].product = job[w].product,
             job' = [job EXCEPT ![w].step = "save", ![w].found = i, ![w].old = item[i].quantity]
      PROVE  SerialInv'
  <2>1. PICK j : j = [job[w] EXCEPT !.step = "save", !.found = i, !.old = item[i].quantity]
    OBVIOUS
  <2>2. /\ j.step = "save" /\ j.owner = job[w].owner /\ j.cart = job[w].cart
        /\ j.product = job[w].product /\ j.found = i /\ j.old = item[i].quantity
    BY <1>1, <2>1 DEF Job
  <2>3. job' = [job EXCEPT ![w] = j]
    BY <1>4, <2>1 DEF IInv, TypeOK
  <2>4. i \in ItemIds /\ item[i].cart = job[w].cart /\ i # None
    BY NoneIsNobody DEF ItemsOf
  <2>5. Follows(j)'
    BY <1>1, <1>2, <1>4, <2>2, <2>4 DEF Follows
  <2> QED BY <1>1, <1>3, <2>3, <2>5, SerialKeeps, OthersIdle, Halves
<1>5. ASSUME job' = [job EXCEPT ![w].step = "save"],
             \A i \in ItemsOf(job[w].cart) : item[i].product # job[w].product
      PROVE  SerialInv'
  <2>1. PICK j : j = [job[w] EXCEPT !.step = "save"]
    OBVIOUS
  <2>2. /\ j.step = "save" /\ j.owner = job[w].owner /\ j.cart = job[w].cart
        /\ j.product = job[w].product /\ j.found = job[w].found
    BY <1>1, <2>1 DEF Job
  <2>3. job' = [job EXCEPT ![w] = j]
    BY <1>5, <2>1
  <2>4. job[w].found = None
    BY <1>1 DEF JobOK
  <2>5. \A i \in ItemIds : item[i].cart = j.cart => item[i].product # j.product
    BY <1>5, <2>2 DEF ItemsOf
  <2>6. Follows(j)'
    BY <1>1, <1>2, <2>2, <2>4, <2>5 DEF Follows
  <2> QED BY <1>1, <1>3, <2>3, <2>6, SerialKeeps, OthersIdle, Halves
<1>6. CASE \E i \in ItemsOf(job[w].cart) : item[i].product = job[w].product
  BY <1>4, <1>6, Zenon DEF ReadItem
<1>7. CASE ~ \E i \in ItemsOf(job[w].cart) : item[i].product = job[w].product
  BY <1>5, <1>7, Zenon DEF ReadItem
<1> QED BY <1>6, <1>7

\* A request that ends, with the carts as they were.
LEMMA EndSerial ==
  ASSUME IInv, SerialInv, NEW w \in Workers, job[w].step # "idle" \/ job[w] # Idle, Finish(w),
         cart' = cart
  PROVE  SerialInv'
<1>1. UniqueCarts'
  BY DEF SerialInv, UniqueCarts
<1> QED BY <1>1, OthersIdle, FinishSerial, Halves

LEMMA MergeSerial ==
  ASSUME IInv, SerialInv, OneAtATime, NEW s \in Sessions, NEW u \in Users, NEW authed \in CartIds,
         Merge(s, u, authed)
  PROVE  SerialInv'
<1>1. job' = job /\ AllIdle
  BY DEF Merge, OneAtATime
<1>2. \A c \in CartIds : cart[c] = u => c = authed
  BY DEF Merge, CartsOf
<1>3. \/ \A c \in CartIds : cart'[c] = IF c = authed THEN u ELSE cart[c]
      \/ \E anon \in CartIds : \A c \in CartIds :
           cart'[c] = IF c = anon THEN None ELSE IF c = authed THEN u ELSE cart[c]
  BY DEF Merge, CartsOf, IInv, TypeOK
<1>4. UniqueCarts'
  BY <1>2, <1>3 DEF UniqueCarts, SerialInv
<1>5. ASSUME NEW w \in Workers PROVE Follows(job[w])'
  <2>1. job'[w] = Idle
    BY <1>1 DEF AllIdle
  <2> QED BY <2>1, IdleFollows DEF Follows
<1> QED BY <1>1, <1>4, <1>5 DEF SerialInv

\* Every action, of requests served one at a time.
LEMMA NextSerial ==
  ASSUME IInv, SerialInv, OneAtATime, Next
  PROVE  SerialInv'
<1>1. ASSUME NEW w \in Workers, NEW o \in Owners, NEW op \in {"add", "update", "remove", "clear"},
             NEW p \in Products, NEW q \in 0 .. MaxQuantity, Begin(w, o, op, p, q)
      PROVE  SerialInv'
  BY <1>1, BeginSerial
<1>2. ASSUME NEW w \in Workers, FindCart(w) \/ MissCart(w) \/ ReadItem(w)
      PROVE  SerialInv'
  BY <1>2, FindCartSerial, MissCartSerial, ReadItemSerial
<1>3. ASSUME NEW w \in Workers, NEW c \in CartIds, CreateCart(w, c)
      PROVE  SerialInv'
  BY <1>3, CreateCartSerial
<1>4. ASSUME NEW w \in Workers,
             \/ TooManyCarts(w) \/ SaveItem(w) \/ RemoveItem(w) \/ Clear(w) \/ Fail(w)
             \/ \E i \in ItemIds : CreateItem(w, i)
      PROVE  SerialInv'
  <2>1. job[w].step # "idle" \/ job[w] # Idle
    BY <1>4 DEF TooManyCarts, SaveItem, RemoveItem, Clear, Fail, CreateItem
  <2>2. Finish(w) /\ cart' = cart
    BY <1>4 DEF TooManyCarts, SaveItem, RemoveItem, Clear, Fail, CreateItem
  <2> QED BY <2>1, <2>2, EndSerial
<1>5. ASSUME NEW s \in Sessions, NEW u \in Users, NEW authed \in CartIds, Merge(s, u, authed)
      PROVE  SerialInv'
  BY <1>5, MergeSerial
<1> QED BY <1>1, <1>2, <1>3, <1>4, <1>5 DEF Next

SInv == IInv /\ (serial => SerialInv)

\* What the theorems on serial requests rest on.
LEMMA ServedInv == ServedSpec => []SInv
<1>1. ServedInit => SInv
  <2>1. Init => SerialInv
    BY IdleFollows, NoneIsNobody DEF Init, SerialInv, UniqueCarts
  <2> QED BY <2>1, InitIInv DEF ServedInit, SInv
<1>2. SInv /\ [ServedNext]_<<vars, serial>> => SInv'
  <2> SUFFICES ASSUME SInv, [ServedNext]_<<vars, serial>> PROVE SInv'
    OBVIOUS
  <2>1. IInv'
    BY NextIInv DEF SInv, ServedNext
  <2>2. CASE ServedNext
    BY <2>1, <2>2, NextSerial DEF SInv, ServedNext
  <2>3. CASE UNCHANGED <<vars, serial>>
    BY <2>1, <2>3 DEF SInv, vars, SerialInv, UniqueCarts, Follows
  <2> QED BY <2>2, <2>3
<1> QED BY <1>1, <1>2, PTL DEF ServedSpec

\* One cart each (get_or_create_cart in apps/cart/services.py): when requests are served one
\* at a time, whatever they do and wherever they fail, none finds two carts of its owner.
THEOREM SerialRequestsShareOneCart == ServedSpec => []SerialOneCart
<1>1. SInv => SerialOneCart
  <2> SUFFICES ASSUME SerialInv, NEW o \in Owners PROVE Cardinality(CartsOf(o)) <= 1
    BY DEF SInv, SerialOneCart, OneCartEach
  <2>1. \A c, d \in CartsOf(o) : c = d
    BY NoneIsNobody DEF SerialInv, UniqueCarts, CartsOf
  <2>2. CartsOf(o) = {} \/ \E c : CartsOf(o) = {c}
    BY <2>1
  <2>3. Cardinality(CartsOf(o)) = 0 \/ Cardinality(CartsOf(o)) = 1
    BY <2>2, FS_EmptySet, FS_Singleton
  <2> QED BY <2>3
<1> QED BY <1>1, ServedInv, PTL

-----------------------------------------------------------------------------
(***************************************************************************)
(* Bags.  QuantityIn and QuantityFor, of any two tables: so that they can  *)
(* be stated of the rows before and after a step.                          *)
(***************************************************************************)
RowsOf(it, c) == {i \in ItemIds : it[i].cart = c}

QuantityAt(it, c, p) ==
  IF \E i \in RowsOf(it, c) : it[i].product = p
  THEN it[CHOOSE i \in RowsOf(it, c) : it[i].product = p].quantity
  ELSE 0

Owned(ca, o) == {c \in CartIds : ca[c] = o}

QuantityOf(ca, it, o, p) ==
  IF Owned(ca, o) = {} THEN 0 ELSE QuantityAt(it, CHOOSE c \in Owned(ca, o) : TRUE, p)

\* One item for each product of a cart, and one cart for each owner.
OneRow(it) ==
  \A i, k \in ItemIds :
    it[i].cart = it[k].cart /\ it[i].cart \in CartIds /\ it[i].product = it[k].product => i = k

OneCart(ca) == \A c, d \in CartIds : ca[c] = ca[d] /\ ca[c] # None => c = d

\* The bags of Carts, before and after a step.
LEMMA BagIs ==
  /\ Bag = [o \in Owners |-> [p \in Products |-> QuantityOf(cart, item, o, p)]]
  /\ Bag' = [o \in Owners |-> [p \in Products |-> QuantityOf(cart', item', o, p)]]
BY DEF Bag, QuantityFor, QuantityIn, QuantityOf, QuantityAt, CartsOf, ItemsOf, Owned, RowsOf

LEMMA QuantityInIs ==
  \A c, p : QuantityIn(c, p) = QuantityAt(item, c, p)
BY DEF QuantityIn, QuantityAt, ItemsOf, RowsOf

\* What the invariants say of the tables, before and after a step.
LEMMA RowsAreOne ==
  /\ Whole => OneRow(item)
  /\ Whole' => OneRow(item')
  /\ SerialInv => OneCart(cart)
  /\ SerialInv' => OneCart(cart')
BY DEF Whole, OneRow, ItemsOf, SerialInv, UniqueCarts, OneCart

\* A product with an item in the owner's cart, with none, and an owner without a cart.
LEMMA QuantityOfRow ==
  ASSUME NEW it, OneRow(it), NEW i \in ItemIds, it[i].cart \in CartIds
  PROVE  QuantityAt(it, it[i].cart, it[i].product) = it[i].quantity
<1>1. PICK c, p : c = it[i].cart /\ p = it[i].product
  OBVIOUS
<1>2. PICK k : k = CHOOSE m \in RowsOf(it, c) : it[m].product = p
  OBVIOUS
<1>3. i \in RowsOf(it, c) /\ it[i].product = p
  BY <1>1 DEF RowsOf
<1>4. k \in RowsOf(it, c) /\ it[k].product = p
  BY <1>2, <1>3
<1>5. k = i
  BY <1>1, <1>4 DEF OneRow, RowsOf
<1>6. QuantityAt(it, c, p) = it[k].quantity
  BY <1>2, <1>3 DEF QuantityAt
<1> QED BY <1>1, <1>5, <1>6

LEMMA QuantityOfNoRow ==
  ASSUME NEW it, NEW c, NEW p, \A i \in ItemIds : it[i].cart = c => it[i].product # p
  PROVE  QuantityAt(it, c, p) = 0
BY DEF QuantityAt, RowsOf

LEMMA QuantityOfOwner ==
  ASSUME NEW ca, OneCart(ca), NEW c \in CartIds, ca[c] # None, NEW it, NEW p
  PROVE  QuantityOf(ca, it, ca[c], p) = QuantityAt(it, c, p)
<1>1. PICK o : o = ca[c]
  OBVIOUS
<1>2. c \in Owned(ca, o) /\ \A d \in Owned(ca, o) : d = c
  BY <1>1 DEF Owned, OneCart
<1>3. (CHOOSE d \in Owned(ca, o) : TRUE) = c
  BY <1>2
<1> QED BY <1>1, <1>2, <1>3 DEF QuantityOf

LEMMA QuantityWithoutCart ==
  ASSUME NEW ca, NEW it, NEW o, NEW p, \A c \in CartIds : ca[c] # o
  PROVE  QuantityOf(ca, it, o, p) = 0
BY DEF QuantityOf, Owned

\* Bags are bags.
LEMMA QuantitiesAreNat ==
  ASSUME NEW it \in [ItemIds -> Item], OneRow(it), NEW c \in CartIds, NEW p
  PROVE  QuantityAt(it, c, p) \in Nat
<1>1. CASE \E i \in ItemIds : it[i].cart = c /\ it[i].product = p
  <2>1. PICK i \in ItemIds : it[i].cart = c /\ it[i].product = p
    BY <1>1
  <2>2. QuantityAt(it, c, p) = it[i].quantity
    BY <2>1, QuantityOfRow
  <2>3. it[i].quantity \in 0 .. MaxQuantity
    BY ItemFields
  <2> QED BY <2>2, <2>3, QuantityIsNat
<1>2. CASE ~ \E i \in ItemIds : it[i].cart = c /\ it[i].product = p
  <2>1. QuantityAt(it, c, p) = 0
    BY <1>2, QuantityOfNoRow
  <2> QED BY <2>1
<1> QED BY <1>1, <1>2

\* A cart has as much of a product if no row of the two has changed.
LEMMA SameQuantity ==
  ASSUME NEW it, OneRow(it), NEW jt, OneRow(jt), NEW c \in CartIds, NEW p,
         \A k \in ItemIds :
           \/ jt[k] = it[k]
           \/ /\ it[k].cart = c => it[k].product # p
              /\ jt[k].cart = c => jt[k].product # p
  PROVE  QuantityAt(jt, c, p) = QuantityAt(it, c, p)
<1>1. CASE \E k \in ItemIds : it[k].cart = c /\ it[k].product = p
  <2>1. PICK k \in ItemIds : it[k].cart = c /\ it[k].product = p
    BY <1>1
  <2>2. jt[k] = it[k]
    BY <2>1
  <2>3. QuantityAt(it, c, p) = it[k].quantity
    BY <2>1, QuantityOfRow
  <2>4. QuantityAt(jt, c, p) = jt[k].quantity
    BY <2>1, <2>2, QuantityOfRow
  <2> QED BY <2>2, <2>3, <2>4
<1>2. CASE ~ \E k \in ItemIds : it[k].cart = c /\ it[k].product = p
  <2>1. ~ \E k \in ItemIds : jt[k].cart = c /\ jt[k].product = p
    BY <1>2
  <2> QED BY <1>2, <2>1, QuantityOfNoRow
<1> QED BY <1>1, <1>2

\* Two bags are the same if they hold as much of each product.
LEMMA SameQuantityOf ==
  ASSUME NEW ca, OneCart(ca), NEW it, NEW jt, NEW o \in Owners, NEW p,
         \A c \in CartIds : ca[c] = o => QuantityAt(jt, c, p) = QuantityAt(it, c, p)
  PROVE  QuantityOf(ca, jt, o, p) = QuantityOf(ca, it, o, p)
<1>1. CASE \E c \in CartIds : ca[c] = o
  <2>1. PICK c \in CartIds : ca[c] = o
    BY <1>1
  <2>2. ca[c] # None
    BY <2>1, NoneIsNobody
  <2> QED BY <2>1, <2>2, QuantityOfOwner
<1>2. CASE ~ \E c \in CartIds : ca[c] = o
  BY <1>2, QuantityWithoutCart
<1> QED BY <1>1, <1>2

\* What a cart's owner has of a product.
LEMMA BagOfCart ==
  ASSUME SerialInv, NEW c \in CartIds, cart[c] \in Owners, NEW p \in Products
  PROVE  Bag[cart[c]][p] = QuantityAt(item, c, p)
<1>1. Bag[cart[c]][p] = QuantityOf(cart, item, cart[c], p)
  BY BagIs
<1> QED BY <1>1, QuantityOfOwner, RowsAreOne, NoneIsNobody

\* Writing the one row that a cart has, or gets, for a product changes the owner's bag there.
LEMMA BagAfterRow ==
  ASSUME IInv, IInv', SerialInv, cart' = cart,
         NEW i \in ItemIds, NEW row, \A k \in ItemIds : item'[k] = IF k = i THEN row ELSE item[k],
         NEW c \in CartIds, NEW p \in Products, NEW o \in Owners, cart[c] = o,
         item[i].cart # None => item[i].cart = c /\ item[i].product = p,
         row = NoItem \/ (row.cart = c /\ row.product = p),
         \A k \in ItemIds \ {i} : item[k].cart = c => item[k].product # p,
         NEW n, row.quantity = n
  PROVE  Bag' = [Bag EXCEPT ![o][p] = n]
<1>1. OneRow(item) /\ OneRow(item') /\ OneCart(cart)
  <2>1. Whole /\ Whole'
    BY DEF IInv, TypeOK, Whole
  <2> QED BY <2>1, RowsAreOne
<1>2. \A k \in ItemIds : item'[k] = IF k = i THEN row ELSE item[k]
  OBVIOUS
<1>3. QuantityAt(item', c, p) = n
  <2>1. CASE row = NoItem
    <3>1. \A k \in ItemIds : item'[k].cart = c => item'[k].product # p
      BY <1>2, <2>1, NoItemType, NoneIsNobody
    <3> QED BY <2>1, <3>1, NoItemType, QuantityOfNoRow
  <2>2. CASE row.cart = c /\ row.product = p
    <3>1. item'[i] = row
      BY <1>2
    <3> QED BY <1>1, <2>2, <3>1, QuantityOfRow
  <2> QED BY <2>1, <2>2
<1>4. ASSUME NEW a \in Owners, NEW r \in Products, a # o \/ r # p
      PROVE  QuantityOf(cart, item', a, r) = QuantityOf(cart, item, a, r)
  <2>1. ASSUME NEW d \in CartIds, cart[d] = a
        PROVE  QuantityAt(item', d, r) = QuantityAt(item, d, r)
    <3>1. d # c \/ r # p
      BY <1>4, <2>1
    <3>2. item[i].cart = d => item[i].product # r
      BY <3>1, NoneIsNobody
    <3>3. item'[i].cart = d => item'[i].product # r
      BY <1>2, <3>1, NoItemType, NoneIsNobody
    <3> QED BY <1>1, <1>2, <3>2, <3>3, SameQuantity
  <2> QED BY <1>1, <2>1, SameQuantityOf
<1>5. QuantityOf(cart, item', o, p) = n
  BY <1>1, <1>3, QuantityOfOwner, NoneIsNobody
<1>6. ASSUME NEW a \in Owners, NEW r \in Products
      PROVE  QuantityOf(cart', item', a, r)
               = IF a = o /\ r = p THEN n ELSE QuantityOf(cart, item, a, r)
  BY <1>4, <1>5
<1>7. Bag' = [a \in Owners |-> [r \in Products |->
                IF a = o /\ r = p THEN n ELSE QuantityOf(cart, item, a, r)]]
  BY <1>6, BagIs
<1>8. Bag = [a \in Owners |-> [r \in Products |-> QuantityOf(cart, item, a, r)]]
  BY BagIs
<1>9. [Bag EXCEPT ![o][p] = n]
        = [a \in Owners |-> [r \in Products |->
             IF a = o /\ r = p THEN n ELSE QuantityOf(cart, item, a, r)]]
  BY <1>8
<1> QED BY <1>7, <1>9

\* The steps of AtomicCarts.
LEMMA AddStep ==
  ASSUME NEW o \in Owners, NEW p \in Products, NEW q \in 1 .. MaxQuantity,
         Bag' = [Bag EXCEPT ![o][p] = Bag[o][p] + q]
  PROVE  Atomic!Next
BY DEF Atomic!Next, Atomic!Add, Atomic!Put, Atomic!Owners, Owners

LEMMA ChangeStep ==
  ASSUME NEW o \in Owners, NEW p \in Products, NEW q \in 0 .. MaxQuantity, Bag[o][p] > 0,
         Bag' = [Bag EXCEPT ![o][p] = q]
  PROVE  Atomic!Next
<1>1. q = 0 \/ q \in 1 .. MaxQuantity
  BY QuantityIsNat
<1>2. Atomic!Change(o, p, q)
  BY DEF Atomic!Change, Atomic!Put
<1>3. o \in Atomic!Owners
  BY DEF Atomic!Owners, Owners
<1> QED BY <1>1, <1>2, <1>3 DEF Atomic!Next

\* An item that is saved is an add to the bag or a change of it, for what was read still holds.
LEMMA SaveItemStep ==
  ASSUME IInv, IInv', SerialInv, NEW w \in Workers, SaveItem(w)
  PROVE  Atomic!Next
<1>1. PICK i, q, c, p, o : /\ i = job[w].found /\ q = SavedQuantity(job[w])
                           /\ c = job[w].cart /\ p = job[w].product /\ o = job[w].owner
  OBVIOUS
<1>2. job[w] \in Job /\ JobOK(job[w]) /\ Follows(job[w]) /\ job[w].step = "save"
  BY DEF SaveItem, IInv, TypeOK, SerialInv
<1>3. i \in ItemIds /\ item[i].cart # None /\ q <= MaxQuantity
  BY <1>1, <1>2, JobFields DEF SaveItem
<1>4. /\ item[i].cart = c /\ item[i].product = p /\ item[i].quantity = job[w].old
      /\ c \in CartIds /\ p \in Products /\ cart[c] = o /\ o \in Owners
  BY <1>1, <1>2, JobFields DEF SaveItem, Follows, JobOK
<1>5. q \in 0 .. MaxQuantity /\ q > 0
  BY <1>1, <1>2, <1>3, SavedIsPositive, QuantityIsNat
<1>6. item[i] \in Item /\ Whole
  BY <1>3, Halves DEF Whole
<1>7. PICK row : row = [item[i] EXCEPT !.quantity = q]
  OBVIOUS
<1>8. row.cart = c /\ row.product = p /\ row.quantity = q
  BY <1>4, <1>6, <1>7 DEF Item
<1>9. (\A k \in ItemIds : item'[k] = IF k = i THEN row ELSE item[k]) /\ cart' = cart
  BY <1>1, <1>3, <1>7 DEF SaveItem, IInv, TypeOK
<1>10. \A k \in ItemIds \ {i} : item[k].cart = c => item[k].product # p
  BY <1>3, <1>4, <1>6 DEF Whole, ItemsOf
<1>11. Bag' = [Bag EXCEPT ![o][p] = q]
  BY <1>3, <1>4, <1>8, <1>9, <1>10, BagAfterRow
<1>12. Bag[o][p] = job[w].old /\ job[w].old > 0 /\ job[w].old \in Nat
  <2>1. Bag[o][p] = item[i].quantity
    BY <1>3, <1>4, <1>6, BagOfCart, QuantityOfRow, RowsAreOne
  <2> QED BY <1>2, <1>3, <1>4, <1>6, <2>1, JobFields, QuantityIsNat DEF Whole
<1>13. CASE job[w].op = "add"
  <2>1. q = Bag[o][p] + job[w].quantity /\ job[w].quantity \in 1 .. MaxQuantity
    BY <1>1, <1>2, <1>12, <1>13, JobFields, SavedIsPositive, QuantityIsNat DEF SavedQuantity
  <2> QED BY <1>4, <1>11, <2>1, AddStep
<1>14. CASE job[w].op # "add"
  BY <1>4, <1>5, <1>11, <1>12, ChangeStep
<1> QED BY <1>13, <1>14

\* A new item is an add to a bag that has none of the product.
LEMMA CreateItemStep ==
  ASSUME IInv, IInv', SerialInv, NEW w \in Workers, NEW i \in ItemIds, CreateItem(w, i)
  PROVE  Atomic!Next
<1>1. PICK q, c, p, o : /\ q = job[w].quantity
                        /\ c = job[w].cart /\ p = job[w].product /\ o = job[w].owner
  OBVIOUS
<1>2. job[w] \in Job /\ JobOK(job[w]) /\ job[w].step = "save" /\ job[w].op = "add"
  BY DEF CreateItem, IInv, TypeOK, JobOK
<1>3. c \in CartIds /\ p \in Products /\ cart[c] = o /\ o \in Owners /\ q \in 1 .. MaxQuantity
  BY <1>1, <1>2, JobFields, SavedIsPositive, QuantityIsNat DEF CreateItem, JobOK
<1>4. PICK row : row = [cart |-> c, product |-> p, quantity |-> q]
  OBVIOUS
<1>5. row.cart = c /\ row.product = p /\ row.quantity = q
  BY <1>4
<1>6. /\ \A k \in ItemIds : item'[k] = IF k = i THEN row ELSE item[k]
      /\ cart' = cart /\ item[i].cart = None
  BY <1>1, <1>4 DEF CreateItem, FreshItems, ItemsOf, IInv, TypeOK
<1>7. \A k \in ItemIds : item[k].cart = c => item[k].product # p
  BY <1>1 DEF CreateItem, ItemsOf
<1>8. Bag' = [Bag EXCEPT ![o][p] = q]
  BY <1>3, <1>5, <1>6, <1>7, BagAfterRow
<1>9. Bag[o][p] = 0
  BY <1>3, <1>7, BagOfCart, QuantityOfNoRow
<1>10. Bag[o][p] + q = q
  BY <1>3, <1>9
<1> QED BY <1>3, <1>8, <1>10, AddStep

\* A removal is a change of the bag to none.
LEMMA RemoveItemStep ==
  ASSUME IInv, IInv', SerialInv, NEW w \in Workers, RemoveItem(w)
  PROVE  Atomic!Next
<1>1. PICK c, p, o : c = job[w].cart /\ p = job[w].product /\ o = job[w].owner
  OBVIOUS
<1>2. job[w] \in Job /\ JobOK(job[w]) /\ Follows(job[w]) /\ job[w].step = "act"
  BY DEF RemoveItem, IInv, TypeOK, SerialInv
<1>3. c \in CartIds /\ p \in Products /\ cart[c] = o /\ o \in Owners
  BY <1>1, <1>2, JobFields DEF Follows, JobOK
<1>4. PICK i \in ItemIds : /\ item[i].cart = c /\ item[i].product = p
                          /\ \A k \in ItemIds : item'[k] = IF k = i THEN NoItem ELSE item[k]
  BY <1>1 DEF RemoveItem, ItemsOf, IInv, TypeOK
<1>5. cart' = cart /\ Whole
  BY Halves DEF RemoveItem
<1>6. \A k \in ItemIds \ {i} : item[k].cart = c => item[k].product # p
  BY <1>3, <1>4, <1>5 DEF Whole, ItemsOf
<1>7. Bag' = [Bag EXCEPT ![o][p] = 0]
  BY <1>3, <1>4, <1>5, <1>6, BagAfterRow, NoItemType
<1>8. Bag[o][p] = item[i].quantity /\ item[i].quantity \in Nat /\ item[i].quantity > 0
  <2>1. item[i] \in Item /\ item[i].cart # None
    BY <1>3, <1>4, <1>5, NoneIsNobody DEF Whole
  <2> QED BY <1>3, <1>4, <1>5, <2>1, BagOfCart, QuantityOfRow, RowsAreOne, ItemFields,
             QuantityIsNat DEF Whole
<1>9. 0 \in 0 .. MaxQuantity
  BY QuantityIsNat
<1> QED BY <1>3, <1>7, <1>8, <1>9, ChangeStep

\* Clearing a cart empties its owner's bag, and no other.
LEMMA ClearStep ==
  ASSUME IInv, IInv', SerialInv, NEW w \in Workers, Clear(w)
  PROVE  Atomic!Next
<1>1. PICK c, o : c = job[w].cart /\ o = job[w].owner
  OBVIOUS
<1>2. job[w] \in Job /\ JobOK(job[w]) /\ job[w].step = "act" /\ cart[c] = o
  BY <1>1 DEF Clear, IInv, TypeOK
<1>3. c \in CartIds /\ o \in Owners
  BY <1>1, <1>2 DEF JobOK
<1>4. /\ \A k \in ItemIds : item'[k] = IF item[k].cart = c THEN NoItem ELSE item[k]
      /\ cart' = cart
  BY <1>1 DEF Clear
<1>5. OneRow(item) /\ OneRow(item') /\ OneCart(cart)
  <2>1. Whole /\ Whole'
    BY DEF IInv, TypeOK, Whole
  <2> QED BY <2>1, RowsAreOne
<1>6. ASSUME NEW a \in Owners, NEW r \in Products
      PROVE  QuantityOf(cart, item', a, r) = IF a = o THEN 0 ELSE QuantityOf(cart, item, a, r)
  <2>1. CASE a = o
    <3>1. \A k \in ItemIds : item'[k].cart # c
      BY <1>3, <1>4, NoItemType, NoneIsNobody
    <3>2. QuantityAt(item', c, r) = 0
      BY <3>1, QuantityOfNoRow
    <3> QED BY <1>2, <1>3, <1>5, <2>1, <3>2, QuantityOfOwner, NoneIsNobody
  <2>2. CASE a # o
    <3>1. ASSUME NEW d \in CartIds, cart[d] = a
          PROVE  QuantityAt(item', d, r) = QuantityAt(item, d, r)
      <4>1. d # c /\ d # None
        BY <1>2, <2>2, <3>1, NoneIsNobody
      <4>2. \A k \in ItemIds : item'[k] = item[k] \/ (item[k].cart # d /\ item'[k].cart # d)
        BY <1>4, <4>1, NoItemType
      <4> QED BY <1>5, <4>2, SameQuantity
    <3> QED BY <1>5, <2>2, <3>1, SameQuantityOf
  <2> QED BY <2>1, <2>2
<1>7. Bag' = [a \in Owners |-> [r \in Products |->
                IF a = o THEN 0 ELSE QuantityOf(cart, item, a, r)]]
  BY <1>4, <1>6, BagIs
<1>8. Bag = [a \in Owners |-> [r \in Products |-> QuantityOf(cart, item, a, r)]]
  BY BagIs
<1>9. [Bag EXCEPT ![o] = [r \in Products |-> 0]]
        = [a \in Owners |-> [r \in Products |-> IF a = o THEN 0 ELSE QuantityOf(cart, item, a, r)]]
  BY <1>8
<1>10. Bag' = [Bag EXCEPT ![o] = [r \in Products |-> 0]]
  BY <1>7, <1>9
<1> QED BY <1>3, <1>10 DEF Atomic!Next, Atomic!Clear, Atomic!EmptyBag, Atomic!Owners, Owners

\* A new cart is empty: it does not change its owner's bag.
LEMMA NewCart ==
  ASSUME IInv, IInv', SerialInv, SerialInv', NEW c \in CartIds, NEW o \in Owners,
         \A d \in CartIds : cart[d] # o \/ d = c,
         cart[c] \in {None, o},
         \A d \in CartIds : cart'[d] = IF d = c THEN o ELSE cart[d], item' = item
  PROVE  Bag' = Bag
<1>1. OneRow(item) /\ OneCart(cart) /\ OneCart(cart')
  BY RowsAreOne, Halves
<1>2. CASE cart[c] = None
  <2>1. \A k \in ItemIds : item[k].cart # c
    BY <1>2, NoneIsNobody DEF IInv, TypeOK
  <2>2. \A r \in Products : QuantityAt(item, c, r) = 0
    BY <2>1, QuantityOfNoRow
  <2>3. \A d \in CartIds : cart[d] # o
    BY <1>2, NoneIsNobody
  <2>4. \A r \in Products : QuantityOf(cart, item, o, r) = 0
    BY <2>3, QuantityWithoutCart
  <2>5. cart'[c] = o /\ o # None
    BY NoneIsNobody
  <2>6. \A r \in Products : QuantityOf(cart', item, o, r) = 0
    BY <1>1, <2>2, <2>5, QuantityOfOwner
  <2>7. ASSUME NEW a \in Owners, NEW r \in Products, a # o
        PROVE  QuantityOf(cart', item, a, r) = QuantityOf(cart, item, a, r)
    <3>1. Owned(cart', a) = Owned(cart, a)
      BY <1>2, <2>7, NoneIsNobody DEF Owned
    <3> QED BY <3>1 DEF QuantityOf
  <2>8. \A a \in Owners, r \in Products :
          QuantityOf(cart', item, a, r) = QuantityOf(cart, item, a, r)
    BY <2>4, <2>6, <2>7
  <2> QED BY <2>8, BagIs
<1>3. CASE cart[c] = o
  <2>1. \A a \in Owners : Owned(cart', a) = Owned(cart, a)
    BY <1>3 DEF Owned
  <2>2. ASSUME NEW a \in Owners, NEW r \in Products
        PROVE  QuantityOf(cart', item, a, r) = QuantityOf(cart, item, a, r)
    <3>1. Owned(cart', a) = Owned(cart, a)
      BY <2>1
    <3> QED BY <3>1 DEF QuantityOf
  <2> QED BY <2>2, BagIs
<1> QED BY <1>2, <1>3

\* get_or_create_cart adds a row and nothing to a bag.
LEMMA CreateCartStep ==
  ASSUME IInv, IInv', SerialInv, SerialInv', NEW w \in Workers, NEW c \in CartIds, CreateCart(w, c)
  PROVE  Bag' = Bag
<1>1. PICK o : o = job[w].owner
  OBVIOUS
<1>2. job[w] \in Job /\ JobOK(job[w]) /\ Follows(job[w]) /\ job[w].step = "create"
  BY DEF CreateCart, IInv, TypeOK, SerialInv
<1>3. o \in Owners /\ \A d \in CartIds : cart[d] # o
  BY <1>1, <1>2 DEF JobOK, Follows
<1>4. /\ \A d \in CartIds : cart'[d] = IF d = c THEN o ELSE cart[d]
      /\ item' = item /\ cart[c] = None
  BY <1>1 DEF CreateCart, FreshCarts, CartsOf, IInv, TypeOK
<1> QED BY <1>3, <1>4, NewCart

\* A merge adds what the session's cart has of a product to what the user's has of it.
LEMMA MergedQuantity ==
  ASSUME Whole, Whole', NEW anon \in CartIds, NEW authed \in CartIds, anon # authed,
         \A r \in Products : QuantityIn(authed, r) + QuantityIn(anon, r) <= MaxQuantity,
         \A k \in ItemIds : item'[k] = MergedItem(k, anon, authed),
         NEW p \in Products
  PROVE  QuantityAt(item', authed, p) = QuantityAt(item, authed, p) + QuantityAt(item, anon, p)
<1>1. OneRow(item) /\ OneRow(item')
  BY RowsAreOne
<1>2. PICK m, n : m = QuantityAt(item, authed, p) /\ n = QuantityAt(item, anon, p)
  OBVIOUS
<1>3. /\ m \in Nat /\ n \in Nat
      /\ QuantityIn(authed, p) = m /\ QuantityIn(anon, p) = n
  BY <1>1, <1>2, QuantitiesAreNat, QuantityInIs DEF Whole
<1>4. ASSUME NEW k \in ItemIds, item[k].cart = authed, item[k].product = p
      PROVE  QuantityAt(item', authed, p) = m + n
  <2>1. item'[k] = [item[k] EXCEPT !.quantity = item[k].quantity + n]
    BY <1>3, <1>4 DEF MergedItem
  <2>2. item[k] \in Item /\ item[k].quantity = m
    BY <1>1, <1>2, <1>4, QuantityOfRow DEF Whole
  <2>3. item'[k].cart = authed /\ item'[k].product = p /\ item'[k].quantity = m + n
    BY <1>4, <2>1, <2>2 DEF Item
  <2> QED BY <1>1, <2>3, QuantityOfRow
<1>5. ASSUME \A k \in ItemIds : item[k].cart = authed => item[k].product # p
      PROVE  QuantityAt(item', authed, p) = m + n
  <2>1. m = 0
    BY <1>2, <1>5, QuantityOfNoRow
  <2>2. ASSUME NEW k \in ItemIds, item[k].cart = anon, item[k].product = p
        PROVE  QuantityAt(item', authed, p) = n
    <3>0. item'[k] = MergedItem(k, anon, authed) /\ QuantityIn(authed, item[k].product) = 0
      BY <1>3, <2>1, <2>2
    <3>1. item'[k] = [item[k] EXCEPT !.cart = authed]
      BY <2>2, <3>0 DEF MergedItem
    <3>2. item[k] \in Item /\ item[k].quantity = n
      BY <1>1, <1>2, <2>2, QuantityOfRow DEF Whole
    <3>3. item'[k].cart = authed /\ item'[k].product = p /\ item'[k].quantity = n
      BY <2>2, <3>1, <3>2 DEF Item
    <3> QED BY <1>1, <3>3, QuantityOfRow
  <2>3. ASSUME \A k \in ItemIds : item[k].cart = anon => item[k].product # p
        PROVE  QuantityAt(item', authed, p) = n
    <3>1. n = 0
      BY <1>2, <2>3, QuantityOfNoRow
    <3>2. ASSUME NEW k \in ItemIds, item'[k].cart = authed PROVE item'[k].product # p
      <4>1. item'[k] = MergedItem(k, anon, authed) /\ item'[k] # NoItem
        BY <3>2, NoItemType, NoneIsNobody
      <4>2. /\ item'[k].product = item[k].product
            /\ item[k].cart = authed \/ item[k].cart = anon
        BY <3>2, <4>1, ItemsAreMerged
      <4> QED BY <1>5, <2>3, <4>2
    <3> QED BY <3>1, <3>2, QuantityOfNoRow
  <2>4. m + n = n
    BY <1>3, <2>1
  <2> QED BY <2>2, <2>3, <2>4
<1> QED BY <1>2, <1>4, <1>5

\* A merge adds the session's bag to the user's, or moves nothing when there is nothing to move.
LEMMA MergeStep ==
  ASSUME IInv, IInv', SerialInv, SerialInv', NEW s \in Sessions, NEW u \in Users,
         NEW authed \in CartIds, Merge(s, u, authed)
  PROVE  Atomic!Next \/ Bag' = Bag
<1>1. /\ Whole /\ Whole' /\ OneRow(item) /\ OneRow(item') /\ OneCart(cart) /\ OneCart(cart')
      /\ s \in Owners /\ u \in Owners /\ s # u
  <2>1. Whole /\ Whole'
    BY DEF IInv, TypeOK, Whole
  <2> QED BY <2>1, RowsAreOne, OwnersDiffer DEF Owners
<1>2. /\ cart[authed] \in {None, u}
      /\ \A d \in CartIds : cart[d] # u \/ d = authed
  BY DEF Merge, FreshCarts, CartsOf
<1>3. CASE cart' = [cart EXCEPT ![authed] = u] /\ item' = item
  <2>1. (\A d \in CartIds : cart'[d] = IF d = authed THEN u ELSE cart[d]) /\ item' = item
    BY <1>1, <1>3 DEF Whole
  <2> QED BY <1>1, <1>2, <2>1, NewCart
<1>4. ASSUME NEW anon \in CartsOf(s),
             \A p \in Products : QuantityIn(authed, p) + QuantityIn(anon, p) <= MaxQuantity,
             \A i \in ItemIds : item'[i] = MergedItem(i, anon, authed),
             \A d \in CartIds :
               cart'[d] = IF d = anon THEN None ELSE IF d = authed THEN u ELSE cart[d]
      PROVE  Atomic!Next
  <2>1. anon \in CartIds /\ cart[anon] = s /\ s # None /\ u # None /\ anon # authed
    BY <1>1, <1>2, NoneIsNobody DEF CartsOf
  <2>2. ASSUME NEW p \in Products PROVE QuantityOf(cart', item', s, p) = 0
    <3>1. \A d \in CartIds : cart'[d] # s
      BY <1>1, <1>4, <2>1 DEF OneCart
    <3> QED BY <3>1, QuantityWithoutCart
  <2>3. ASSUME NEW p \in Products
        PROVE  QuantityOf(cart', item', u, p) = Bag[u][p] + Bag[s][p]
    <3>1. cart'[authed] = u
      BY <1>4, <2>1
    <3>2. QuantityOf(cart', item', u, p) = QuantityAt(item', authed, p)
      BY <1>1, <2>1, <3>1, QuantityOfOwner
    <3>3. QuantityAt(item', authed, p) = QuantityAt(item, authed, p) + QuantityAt(item, anon, p)
      BY <1>1, <1>4, <2>1, MergedQuantity
    <3>4. Bag[s][p] = QuantityAt(item, anon, p)
      BY <1>1, <2>1, BagOfCart
    <3>5. Bag[u][p] = QuantityAt(item, authed, p)
      <4>1. CASE cart[authed] = u
        BY <1>1, <4>1, BagOfCart
      <4>2. CASE cart[authed] = None
        <5>1. \A k \in ItemIds : item[k].cart # authed
          BY <1>1, <4>2, NoneIsNobody DEF Whole
        <5>2. \A d \in CartIds : cart[d] # u
          BY <1>2, <2>1, <4>2
        <5> QED BY <1>1, <5>1, <5>2, QuantityOfNoRow, QuantityWithoutCart, BagIs
      <4> QED BY <1>2, <4>1, <4>2
    <3> QED BY <3>2, <3>3, <3>4, <3>5
  <2>4. ASSUME NEW a \in Owners, a # s, a # u, NEW p \in Products
        PROVE  QuantityOf(cart', item', a, p) = QuantityOf(cart, item, a, p)
    <3>1. ASSUME NEW d \in CartIds, cart[d] = a
          PROVE  QuantityAt(item', d, p) = QuantityAt(item, d, p)
      <4>1. d # anon /\ d # authed /\ d # None
        BY <1>2, <2>1, <2>4, <3>1, NoneIsNobody
      <4>2. ASSUME NEW k \in ItemIds
            PROVE  item'[k] = item[k] \/ (item[k].cart # d /\ item'[k].cart # d)
        <5>1. CASE item[k].cart # anon /\ item[k].cart # authed
          BY <1>4, <5>1 DEF MergedItem
        <5>2. CASE item[k].cart = anon \/ item[k].cart = authed
          <6>1. item'[k] = MergedItem(k, anon, authed)
            BY <1>4
          <6> QED BY <1>1, <1>4, <2>1, <4>1, <5>2, <6>1, ItemsAreMerged, NoItemType
        <5> QED BY <5>1, <5>2
      <4> QED BY <1>1, <4>2, SameQuantity
    <3>2. QuantityOf(cart, item', a, p) = QuantityOf(cart, item, a, p)
      BY <1>1, <3>1, SameQuantityOf
    <3>3. Owned(cart', a) = Owned(cart, a)
      BY <1>2, <1>4, <2>1, <2>4, NoneIsNobody DEF Owned
    <3>4. QuantityOf(cart', item', a, p) = QuantityOf(cart, item', a, p)
      BY <3>3 DEF QuantityOf
    <3> QED BY <3>2, <3>4
  <2>5. Bag' = [a \in Owners |-> [p \in Products |->
                 IF a = s THEN 0 ELSE IF a = u THEN Bag[u][p] + Bag[s][p]
                 ELSE QuantityOf(cart, item, a, p)]]
    BY <2>2, <2>3, <2>4, BagIs
  <2>6. Bag = [a \in Owners |-> [p \in Products |-> QuantityOf(cart, item, a, p)]]
    BY BagIs
  <2>7. [Bag EXCEPT ![s] = [p \in Products |-> 0],
                    ![u] = [p \in Products |-> Bag[u][p] + Bag[s][p]]]
          = [a \in Owners |-> [p \in Products |->
               IF a = s THEN 0 ELSE IF a = u THEN Bag[u][p] + Bag[s][p]
               ELSE QuantityOf(cart, item, a, p)]]
    BY <1>1, <2>6
  <2>8. Bag' = [Bag EXCEPT ![s] = [p \in Products |-> 0],
                           ![u] = [p \in Products |-> Bag[u][p] + Bag[s][p]]]
    BY <2>5, <2>7
  <2> QED BY <2>8 DEF Atomic!Next, Atomic!Merge, Atomic!EmptyBag
<1>5. ASSUME NEW anon \in CartsOf(s),
             item' = [i \in ItemIds |-> MergedItem(i, anon, authed)],
             cart' = [cart EXCEPT ![authed] = u, ![anon] = None]
      PROVE  /\ \A i \in ItemIds : item'[i] = MergedItem(i, anon, authed)
             /\ \A d \in CartIds :
                  cart'[d] = IF d = anon THEN None ELSE IF d = authed THEN u ELSE cart[d]
  BY <1>1, <1>5 DEF Whole
<1> QED BY <1>3, <1>4, <1>5 DEF Merge

\* A step of a serial request is one of AtomicCarts, or none of its bags.
LEMMA NextStep ==
  ASSUME IInv, IInv', SerialInv, SerialInv', [Next]_vars
  PROVE  [Atomic!Next]_Bag
<1>1. ASSUME UNCHANGED <<cart, item>> PROVE Bag' = Bag
  BY <1>1, BagIs
<1>2. CASE UNCHANGED vars
  BY <1>1, <1>2 DEF vars
<1>3. ASSUME NEW w \in Workers, NEW o \in Owners, NEW op \in {"add", "update", "remove", "clear"},
             NEW p \in Products, NEW q \in 0 .. MaxQuantity, Begin(w, o, op, p, q)
      PROVE  Bag' = Bag
  BY <1>1, <1>3 DEF Begin
<1>4. ASSUME NEW w \in Workers,
             FindCart(w) \/ MissCart(w) \/ TooManyCarts(w) \/ ReadItem(w) \/ Fail(w)
      PROVE  Bag' = Bag
  <2>1. UNCHANGED <<cart, item>>
    BY <1>4, Zenon DEF FindCart, MissCart, TooManyCarts, ReadItem, Fail
  <2> QED BY <1>1, <2>1
<1>5. ASSUME NEW w \in Workers, NEW c \in CartIds, CreateCart(w, c)
      PROVE  Bag' = Bag
  BY <1>5, CreateCartStep
<1>6. ASSUME NEW w \in Workers, SaveItem(w) \/ RemoveItem(w) \/ Clear(w)
      PROVE  Atomic!Next
  BY <1>6, SaveItemStep, RemoveItemStep, ClearStep
<1>7. ASSUME NEW w \in Workers, NEW i \in ItemIds, CreateItem(w, i)
      PROVE  Atomic!Next
  BY <1>7, CreateItemStep
<1>8. ASSUME NEW s \in Sessions, NEW u \in Users, NEW authed \in CartIds, Merge(s, u, authed)
      PROVE  Atomic!Next \/ Bag' = Bag
  BY <1>8, MergeStep
<1> QED BY <1>2, <1>3, <1>4, <1>5, <1>6, <1>7, <1>8 DEF Next

\* One bag each (apps/cart/services.py): the adds, updates, removals, clearings and merges of
\* requests served one at a time do to their owners' bags what AtomicCarts does in one step,
\* and the statements between do nothing to any.
THEOREM SerialCartsAreBags == ServedSpec => SerialAtomicSpec
<1>1. ServedInit => Atomic!Init
  <2> SUFFICES ASSUME Init PROVE Bag = [o \in Owners |-> [p \in Products |-> 0]]
    BY DEF ServedInit, Atomic!Init, Atomic!EmptyBag, Atomic!Owners, Owners
  <2>1. ASSUME NEW o \in Owners, NEW p \in Products PROVE QuantityOf(cart, item, o, p) = 0
    <3>1. \A c \in CartIds : cart[c] # o
      BY NoneIsNobody DEF Init
    <3> QED BY <3>1, QuantityWithoutCart
  <2> QED BY <2>1, BagIs
<1>2. SInv /\ SInv' /\ [ServedNext]_<<vars, serial>> => [serial => Atomic!Next]_Bag
  <2> SUFFICES ASSUME SInv, SInv', ServedNext \/ UNCHANGED <<vars, serial>>, serial
               PROVE  Atomic!Next \/ Bag' = Bag
    OBVIOUS
  <2>1. CASE ServedNext
    <3>1. Next /\ serial' = serial
      BY <2>1 DEF ServedNext
    <3>2. serial'
      BY <3>1
    <3> QED BY <3>1, <3>2, NextStep DEF SInv
  <2>2. CASE UNCHANGED <<vars, serial>>
    BY <2>2, BagIs DEF vars
  <2> QED BY <2>1, <2>2, Zenon
<1> QED BY <1>1, <1>2, ServedInv, PTL DEF ServedSpec, SerialAtomicSpec
=============================================================================
