------------------------------ MODULE Checkout ------------------------------
(***************************************************************************)
(* OrderService.checkout as the database runs it: one transaction of many  *)
(* statements per request, several requests at once.                       *)
(*                                                                         *)
(* The database is PostgreSQL at its default isolation, READ COMMITTED.    *)
(* A SELECT sees what was committed when it starts and takes no lock.  An  *)
(* UPDATE locks its row until the transaction ends: a second UPDATE of the *)
(* row waits, then writes over what it finds.  Nothing a transaction wrote *)
(* is seen before its commit, and a rollback leaves no trace of it.        *)
(*                                                                         *)
(* A worker is a process that serves one request at a time.  With one      *)
(* worker the requests are serial.                                         *)
(***************************************************************************)
EXTENDS Storefront

CONSTANT Workers

VARIABLES
  pc,       \* [Workers -> Steps], the next statement of the request
  form,     \* [Workers -> Form], the Order the request is putting together
  lines,    \* [Workers -> [Products -> Line]], its order items
  todo,     \* [Workers -> SUBSET Products], cart items still to be ordered
  current,  \* [Workers -> Products \cup {None}], the product at hand
  loaded,   \* [Workers -> [Products -> ProductRow]], its Product instances
  locked,   \* [Workers -> SUBSET Products], rows its transaction has written
  outbox,   \* order numbers of the confirmation e-mails handed to Celery
  sold      \* history: [Products -> Nat], units on committed orders

workerVars == <<pc, form, lines, todo, current, loaded, locked>>
vars == <<storeVars, workerVars, outbox, sold>>

Steps == {"idle", "exists", "totals", "create", "items", "loop", "refresh",
          "save", "finish", "commit", "edit"}

Form ==
  [user : Users \cup {None}, coupon : Coupons \cup {None}, times_used : Nat,
   granted : Coupons \cup {None}, quoted : [Products -> Line],
   number : OrderNumbers \cup {None}]

NoForm ==
  [user |-> None, coupon |-> None, times_used |-> 0, granted |-> None,
   quoted |-> NoLines, number |-> None]

NoRows == [p \in Products |-> [stock |-> 0, price |-> 0, is_in_stock |-> FALSE]]

TypeOK ==
  /\ StoreTypeOK
  /\ \A p \in Products : product[p].is_in_stock = (product[p].stock > 0)
  /\ pc \in [Workers -> Steps]
  /\ form \in [Workers -> Form]
  /\ lines \in [Workers -> [Products -> Line]]
  /\ todo \in [Workers -> SUBSET Products]
  /\ current \in [Workers -> Products \cup {None}]
  /\ loaded \in [Workers -> [Products -> ProductRow]]
  /\ locked \in [Workers -> SUBSET Products]
  /\ outbox \subseteq OrderNumbers
  /\ sold \in [Products -> Nat]

Init ==
  /\ StoreInit
  /\ pc = [w \in Workers |-> "idle"]
  /\ form = [w \in Workers |-> NoForm]
  /\ lines = [w \in Workers |-> NoLines]
  /\ todo = [w \in Workers |-> {}]
  /\ current = [w \in Workers |-> None]
  /\ loaded = [w \in Workers |-> NoRows]
  /\ locked = [w \in Workers |-> {}]
  /\ outbox = {}
  /\ sold = [p \in Products |-> 0]

Goto(w, step) == pc' = [pc EXCEPT ![w] = step]

\* The end of a request: its transaction and its objects are gone.
Forget(w) ==
  /\ Goto(w, "idle")
  /\ form' = [form EXCEPT ![w] = NoForm]
  /\ lines' = [lines EXCEPT ![w] = NoLines]
  /\ todo' = [todo EXCEPT ![w] = {}]
  /\ current' = [current EXCEPT ![w] = None]
  /\ loaded' = [loaded EXCEPT ![w] = NoRows]
  /\ locked' = [locked EXCEPT ![w] = {}]

\* A mutant of Rollback: the view runs outside transaction.atomic, and what
\* it saved so far stays.
HalfRollback(w) ==
  /\ Forget(w)
  /\ product' = [p \in Products |-> IF p \in locked[w] THEN loaded[w][p] ELSE product[p]]
  /\ UNCHANGED <<items, applied, times_used, orders, open, outbox, sold>>

\* An exception or a lost connection: the transaction rolls back.
Rollback(w) == Forget(w) /\ UNCHANGED <<storeVars, outbox, sold>>

-----------------------------------------------------------------------------
\* Numbers no committed or running checkout has: _generate_order_number
\* draws until exists() is false, and the unique constraint settles a tie.
FreeNumbers ==
  OrderNumbers \ ({o.number : o \in orders} \cup {form[w].number : w \in Workers})

\* A bound on the orders placed: a checkout starts only while a number will
\* be left for it.
NumbersSuffice ==
  Cardinality(orders) + Cardinality({w \in Workers : pc[w] \notin {"idle", "edit"}})
    < Cardinality(OrderNumbers)

\* The cart row is read, its coupon_id with it.
Start(w, u) ==
  /\ pc[w] = "idle"
  /\ NumbersSuffice
  /\ form' = [form EXCEPT ![w].user = u, ![w].coupon = applied[u]]
  /\ Goto(w, "exists")
  /\ UNCHANGED <<storeVars, lines, todo, current, loaded, locked, outbox, sold>>

CartNotEmpty(w) ==
  /\ pc[w] = "exists"
  /\ HasItems(form[w].user)
  /\ Goto(w, "totals")
  /\ UNCHANGED <<storeVars, form, lines, todo, current, loaded, locked, outbox, sold>>

\* "Cannot checkout an empty cart."
EmptyCart(w) ==
  /\ pc[w] = "exists"
  /\ ~ HasItems(form[w].user)
  /\ Rollback(w)

\* CartService.subtotal reads the items with their products.
QuoteCart(w) ==
  /\ pc[w] = "totals"
  /\ form' = [form EXCEPT ![w].quoted = PricedLines(form[w].user)]
  /\ Goto(w, "create")
  /\ UNCHANGED <<storeVars, lines, todo, current, loaded, locked, outbox, sold>>

\* CartService.coupon_discount reads the coupon, whose times_used stays on
\* the instance; then the order row is inserted under a fresh number.
CreateOrder(w, number) ==
  LET c == form[w].coupon IN
  /\ pc[w] = "create"
  /\ number \in FreeNumbers
  /\ form' = [form EXCEPT
       ![w].number = number,
       ![w].granted = Granted(c),
       ![w].times_used = IF c = None THEN 0 ELSE times_used[c]]
  /\ Goto(w, "items")
  /\ UNCHANGED <<storeVars, lines, todo, current, loaded, locked, outbox, sold>>

\* The loop's query reads the cart's items again, with their products.
ReadItems(w) ==
  LET bought == {p \in Products : items[form[w].user][p] > 0} IN
  /\ pc[w] = "items"
  /\ lines' = [lines EXCEPT ![w] =
       [p \in Products |-> [quantity |-> items[form[w].user][p], unit_price |-> 0]]]
  /\ todo' = [todo EXCEPT ![w] = bought]
  /\ loaded' = [loaded EXCEPT ![w] =
       [p \in Products |-> IF p \in bought THEN product[p] ELSE NoRows[p]]]
  /\ Goto(w, "loop")
  /\ UNCHANGED <<storeVars, form, current, locked, outbox, sold>>

\* A mutant of LinePrice: the list price, whatever discount is active.
ListPrice(w, p) == loaded[w][p].price

LinePrice(w, p) == UnitPrice(p, loaded[w][p].price)

\* The next item, in whatever order its cart lists it: the price in force
\* and the OrderItem row.
AddLine(w, p) ==
  /\ pc[w] = "loop"
  /\ p \in todo[w]
  /\ current' = [current EXCEPT ![w] = p]
  /\ lines' = [lines EXCEPT ![w][p].unit_price = LinePrice(w, p)]
  /\ Goto(w, "refresh")
  /\ UNCHANGED <<storeVars, form, todo, loaded, locked, outbox, sold>>

-----------------------------------------------------------------------------
(***************************************************************************)
(* ProductService.decrease_stock of the product at hand.                   *)
(***************************************************************************)
\* A mutant of EnoughStock: off by one.
AlmostEnoughStock(p, quantity) == product[p].stock + 1 >= quantity

EnoughStock(p, quantity) == product[p].stock >= quantity

RefreshStock(w) ==
  LET p == current[w] IN
  /\ pc[w] = "refresh"
  /\ EnoughStock(p, lines[w][p].quantity)
  /\ loaded' = [loaded EXCEPT ![w][p].stock = product[p].stock]
  /\ Goto(w, "save")
  /\ UNCHANGED <<storeVars, form, lines, todo, current, locked, outbox, sold>>

\* A mutant of InsufficientStock: the request waits for the stock.
WaitForStock(w) == FALSE /\ Rollback(w)

InsufficientStock(w) ==
  /\ pc[w] = "refresh"
  /\ ~ EnoughStock(current[w], lines[w][current[w]].quantity)
  /\ Rollback(w)

Unlocked(w, p) == \A v \in Workers \ {w} : p \notin locked[v]

\* The UPDATE of the whole row, every column from the instance in memory.
SaveStock(w) ==
  LET p == current[w] IN
  /\ pc[w] = "save"
  /\ Unlocked(w, p)
  /\ loaded' = [loaded EXCEPT ![w][p] = Decreased(loaded[w][p], lines[w][p].quantity)]
  /\ locked' = [locked EXCEPT ![w] = @ \cup {p}]
  /\ todo' = [todo EXCEPT ![w] = @ \ {p}]
  /\ current' = [current EXCEPT ![w] = None]
  /\ Goto(w, "loop")
  /\ UNCHANGED <<storeVars, form, lines, outbox, sold>>

\* The items are done.
LastLine(w) ==
  /\ pc[w] = "loop"
  /\ todo[w] = {}
  /\ Goto(w, "finish")
  /\ UNCHANGED <<storeVars, form, lines, todo, current, loaded, locked, outbox, sold>>

\* The rows of the coupon and of the cart are locked from here to the end of
\* the transaction.
CartUnlocked(w) ==
  \A v \in Workers \ {w} : pc[v] = "commit" =>
    /\ form[v].user # form[w].user
    /\ form[w].coupon = None \/ form[v].coupon # form[w].coupon

\* A mutant of QueueEmail: the e-mail is skipped when there was no discount.
ForgetEmail(w) == IF form[w].granted = None THEN outbox ELSE outbox \cup {form[w].number}

\* send_order_confirmation_email.delay: the message is with the broker now,
\* before the commit.
QueueEmail(w) == outbox \cup {form[w].number}

\* The coupon and the cart are updated and the e-mail is queued.  What the
\* two updates write is applied by Commit.
FinishOrder(w) ==
  /\ pc[w] = "finish"
  /\ CartUnlocked(w)
  /\ outbox' = QueueEmail(w)
  /\ Goto(w, "commit")
  /\ UNCHANGED <<storeVars, form, lines, todo, current, loaded, locked, sold>>

-----------------------------------------------------------------------------
\* Mutants of CountedUses: the counter is not written, or is only written
\* when the coupon gave a discount.
UncountedUses(w, c) == times_used[c]
DiscountedUses(w, c) == IF form[w].granted = c THEN form[w].times_used + 1 ELSE times_used[c]

\* cart.coupon.times_used += 1, on the instance CreateOrder read.
CountedUses(w, c) == form[w].times_used + 1

Commit(w) ==
  LET f == form[w] IN
  /\ pc[w] = "commit"
  /\ product' = [p \in Products |-> IF p \in locked[w] THEN loaded[w][p] ELSE product[p]]
  /\ times_used' = [c \in Coupons |->
       IF c = f.coupon THEN CountedUses(w, c) ELSE times_used[c]]
  /\ items' = [items EXCEPT ![f.user] = [p \in Products |-> 0]]
  /\ applied' = [applied EXCEPT ![f.user] = None]
  /\ orders' = orders \cup
       {[number |-> f.number, user |-> f.user, coupon |-> f.coupon,
         granted |-> f.granted, quoted |-> f.quoted, lines |-> lines[w]]}
  /\ sold' = [p \in Products |-> sold[p] + lines[w][p].quantity]
  /\ Forget(w)
  /\ UNCHANGED <<open, outbox>>

\* Any statement of a running checkout may fail, and its process may die.
Fail(w) == pc[w] \notin {"idle", "edit"} /\ Rollback(w)

\* The worker whose lock w waits for, if it waits.
Blocks(w, v) == pc[w] = "save" /\ current[w] \in locked[v]

\* PostgreSQL's deadlock detector: of a set of transactions that wait for
\* each other's rows, one is rolled back.
DeadlockAbort(w) ==
  /\ \E S \in SUBSET Workers :
       w \in S /\ \A x \in S : \E v \in S \ {x} : Blocks(x, v)
  /\ Rollback(w)

-----------------------------------------------------------------------------
(***************************************************************************)
(* A cart request, and a staff PATCH of a product's price: the view reads  *)
(* the product, and saves the whole row in a transaction of its own.       *)
(***************************************************************************)
Browse ==
  /\ \E w \in Workers : pc[w] = "idle"
  /\ CartRequest
  /\ UNCHANGED <<workerVars, outbox, sold>>

LoadProduct(w, p) ==
  /\ pc[w] = "idle"
  /\ Prices # {}
  /\ current' = [current EXCEPT ![w] = p]
  /\ loaded' = [loaded EXCEPT ![w][p] = product[p]]
  /\ Goto(w, "edit")
  /\ UNCHANGED <<storeVars, form, lines, todo, locked, outbox, sold>>

SaveProduct(w, price) ==
  LET p == current[w] IN
  /\ pc[w] = "edit"
  /\ Unlocked(w, p)
  /\ product' = [product EXCEPT ![p] = Saved([loaded[w][p] EXCEPT !.price = price])]
  /\ Forget(w)
  /\ UNCHANGED <<items, applied, times_used, orders, open, outbox, sold>>

Clock(x) == WindowEdge(x) /\ UNCHANGED <<workerVars, outbox, sold>>

\* The statements of a checkout that is under way.
Proceed(w) ==
  \/ CartNotEmpty(w) \/ EmptyCart(w) \/ QuoteCart(w)
  \/ \E number \in OrderNumbers : CreateOrder(w, number)
  \/ ReadItems(w)
  \/ \E p \in Products : AddLine(w, p)
  \/ RefreshStock(w) \/ InsufficientStock(w)
  \/ LastLine(w) \/ Commit(w)

Next ==
  \/ \E w \in Workers :
       \/ \E u \in Users : Start(w, u)
       \/ Proceed(w) \/ SaveStock(w) \/ FinishOrder(w)
       \/ Fail(w) \/ DeadlockAbort(w)
       \/ \E p \in Products : LoadProduct(w, p)
       \/ \E price \in Prices : SaveProduct(w, price)
  \/ Browse
  \/ \E x \in Timed : Clock(x)

Spec == Init /\ [][Next]_vars

\* A process that runs keeps running, the database grants a lock to those
\* that wait for it in turn, and its deadlock detector runs.
Fairness ==
  \A w \in Workers :
    /\ WF_vars(Proceed(w))
    /\ SF_vars(SaveStock(w))
    /\ SF_vars(FinishOrder(w))
    /\ WF_vars(DeadlockAbort(w))

FairSpec == Spec /\ Fairness

-----------------------------------------------------------------------------
(***************************************************************************)
(* Properties.                                                             *)
(***************************************************************************)
\* No unit disappears: what is left of a product's stock and what was sold
\* of it account for at least the stock there was.  A rollback keeps no
\* decrement, and stale copies of a row (a loop's, a staff edit's) err on
\* this side only (decrease_stock, transaction.atomic).
StockCoversSales ==
  \A p \in Products : product[p].stock + sold[p] >= InitialStock[p]

\* What a request holds at each of its steps.
HeldBy(w) ==
  /\ pc[w] \notin {"idle", "edit"} => form[w].user \in Users
  /\ pc[w] \in {"items", "loop", "refresh", "save", "finish", "commit"}
       => form[w].number \in OrderNumbers
  /\ pc[w] \notin {"loop", "refresh", "save", "finish", "commit"} => locked[w] = {}
  /\ pc[w] \in {"refresh", "save"} => current[w] \in todo[w]
  /\ pc[w] = "edit" => current[w] \in Products
  /\ pc[w] = "save" => loaded[w][current[w]].stock >= lines[w][current[w]].quantity
  /\ todo[w] \cap locked[w] = {}
  /\ \A p \in locked[w] : loaded[w][p].is_in_stock = (loaded[w][p].stock > 0)
RequestOK == \A w \in Workers : HeldBy(w)

\* A copy of a row that is about to be written, with the sale it stands for,
\* accounts for the stock as the committed row does.
CopiesOf(w) ==
  /\ pc[w] \in {"save", "edit"} =>
       loaded[w][current[w]].stock + sold[current[w]] >= InitialStock[current[w]]
  /\ \A p \in locked[w] :
       loaded[w][p].stock + lines[w][p].quantity + sold[p] >= InitialStock[p]
CopiesCoverSales == \A w \in Workers : CopiesOf(w)

\* The inductive invariant: the stock is covered at every commit because
\* every copy a commit will write is covered before it.
IndInv == TypeOK /\ RequestOK /\ StockCoversSales /\ CopiesCoverSales

\* A coupon that any order carries has been counted, and never more often
\* than there are orders that carry it, however the increments of
\* Coupon.times_used race.
UsesCounted ==
  \A c \in Coupons :
    /\ times_used[c] <= Cardinality(OrdersWith(c))
    /\ OrdersWith(c) # {} => times_used[c] >= 1

\* Every customer whose order was committed is sent its confirmation.
OrdersAreConfirmed == \A o \in orders : o.number \in outbox

\* With serial requests the stock is exact: it is less by what is on committed orders, paid or
\* not.  This is the timing of the code and of apps/orders/services.py:8; "stock decrement on
\* successful payment" (README.md:196 of the repository) is not what it does ...
ExactStock ==
  \A p \in Products : product[p].stock + sold[p] = InitialStock[p]

\* ... the amounts of an order are those of its own items, which are some
\* items ...
QuoteMatchesLines ==
  \A o \in orders : o.quoted = o.lines /\ o.lines # NoLines

\* ... and no more orders than its limit get a coupon's discount.
DiscountsWithinLimit ==
  \A c \in Coupons :
    Cardinality({o \in orders : o.granted = c}) <= MaxUses[c]

\* The abstract checkout: serial requests implement it.
Atomic == INSTANCE AtomicCheckout
AtomicSpec == Atomic!Spec

\* A checkout that has started ends, in an order or a refusal, whoever holds
\* the rows it needs.
EveryCheckoutEnds ==
  \A w \in Workers : pc[w] \notin {"idle", "edit"} ~> pc[w] = "idle"

\* "Atomic checkout (prevents overselling)" (README.md).
NoOverselling == \A p \in Products : sold[p] <= InitialStock[p]
=============================================================================
