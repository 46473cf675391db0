----------------------------- MODULE Wishlists -----------------------------
(***************************************************************************)
(* The wishlist service: a row per user, which the first request that      *)
(* needs it creates, and a row per wished product.  A request is a         *)
(* transaction of several statements, and requests of one user, and staff  *)
(* who edit products, run at the same time.                                *)
(*                                                                         *)
(* A statement that collides with what another transaction has written and *)
(* not committed waits for its end; foreign keys are checked at the commit.*)
(***************************************************************************)
CONSTANTS
  Users, Products, Workers,
  ListIds,  \* ids of wishlists: a bound
  None

ASSUME NoneAssumption == None \notin Users \cup Products \cup ListIds

VARIABLES
  existing, \* the rows of products; is_active is left out: an add that it refuses does nothing
  owner,    \* [ListIds -> Users \cup {None}], None where there is no row
  items,    \* the committed rows of wishlist_products, SUBSET (ListIds \X Products)
  job       \* [Workers -> Job]

vars == <<existing, owner, items, job>>

Idle == [pc |-> "idle"]
\* created: the wishlist is this transaction's own; effect: what it has done to items.
Job ==
  {Idle} \cup
    [pc : {"get", "create", "write", "commit"}, op : {"view", "add", "remove"},
     user : Users, product : Products \cup {None}, list : ListIds \cup {None}, created : BOOLEAN,
     effect : {"none", "add", "remove"}]

Init ==
  /\ existing = Products
  /\ owner = [l \in ListIds |-> None]
  /\ items = {}
  /\ job = [w \in Workers |-> Idle]

ListsOf(u) == {l \in ListIds : owner[l] = u}

At(w, pc) == job[w].pc = pc
Become(w, j) == job' = [job EXCEPT ![w] = j]
Store == <<existing, owner, items>>

-----------------------------------------------------------------------------
(***************************************************************************)
(* Requests, and their first statement.                                    *)
(***************************************************************************)
Start(w, op, u, p) ==
  /\ At(w, "idle")
  /\ Become(w, [pc |-> "get", op |-> op, user |-> u, product |-> p, list |-> None,
                created |-> FALSE, effect |-> "none"])
  /\ UNCHANGED Store

View(w, u) == Start(w, "view", u, None)

Add(w, u, p) == p \in existing /\ Start(w, "add", u, p)

Remove(w, u, p) == p \in existing /\ Start(w, "remove", u, p)

-----------------------------------------------------------------------------
(***************************************************************************)
(* Wishlist.objects.get_or_create: a look, an INSERT, and another look if  *)
(* the unique index of user refused it.                                    *)
(***************************************************************************)
Found(w, l, own) ==
  Become(w, [job[w] EXCEPT !.pc = IF job[w].op = "view" THEN "commit" ELSE "write",
                           !.list = l, !.created = own])

Get(w) ==
  /\ At(w, "get")
  /\ \E l \in ListIds : ListsOf(job[w].user) = {l} /\ Found(w, l, FALSE)
  /\ UNCHANGED Store

Miss(w) ==
  /\ At(w, "get")
  /\ ListsOf(job[w].user) = {}
  /\ Become(w, [job[w] EXCEPT !.pc = "create"])
  /\ UNCHANGED Store

\* The wishlists that transactions have created and not committed.
Uncommitted == {w \in Workers : ~ At(w, "idle") /\ job[w].created}

FreeLists == {l \in ListIds : owner[l] = None /\ \A w \in Uncommitted : job[w].list # l}

\* A mutant of Insert: user is a ForeignKey, and not unique.
InsertAnyway(w) ==
  /\ At(w, "create")
  /\ \E l \in FreeLists : Found(w, l, TRUE)
  /\ UNCHANGED Store

Insert(w) ==
  /\ At(w, "create")
  /\ ListsOf(job[w].user) = {}
  /\ \A x \in Uncommitted : job[x].user # job[w].user
  /\ \E l \in FreeLists : Found(w, l, TRUE)
  /\ UNCHANGED Store

\* A mutant of Conflict: the INSERT is tried again.
InsertAgain(w) ==
  /\ At(w, "create")
  /\ ListsOf(job[w].user) # {}
  /\ UNCHANGED vars

Conflict(w) ==
  /\ At(w, "create")
  /\ ListsOf(job[w].user) # {}
  /\ Become(w, [job[w] EXCEPT !.pc = "get"])
  /\ UNCHANGED Store

-----------------------------------------------------------------------------
(***************************************************************************)
(* products.add, products.remove and the commit.                           *)
(***************************************************************************)
Pair(w) == <<job[w].list, job[w].product>>

\* The uncommitted changes of the row that w is about to change.
Pending(w) == {job[x].effect : x \in {y \in Workers : At(y, "commit") /\ Pair(y) = Pair(w)}}

Wrote(w, effect) ==
  /\ Become(w, [job[w] EXCEPT !.pc = "commit", !.effect = effect])
  /\ UNCHANGED Store

\* INSERT ... ON CONFLICT DO NOTHING waits for both, a row that is being inserted and one
\* that is being deleted.
AddItem(w) ==
  /\ At(w, "write") /\ job[w].op = "add"
  /\ Pending(w) \subseteq {"none"}
  /\ Wrote(w, IF Pair(w) \in items THEN "none" ELSE "add")

\* A DELETE waits for another one, and does not see what is being inserted.
RemoveItem(w) ==
  /\ At(w, "write") /\ job[w].op = "remove"
  /\ "remove" \notin Pending(w)
  /\ Wrote(w, IF Pair(w) \in items THEN "remove" ELSE "none")

\* A mutant of ItemsAfter: wishlist.products.set([product]).
ItemsSet(w) ==
  IF job[w].effect = "add"
  THEN {i \in items : i[1] # job[w].list} \cup {Pair(w)}
  ELSE items \ (IF job[w].effect = "remove" THEN {Pair(w)} ELSE {})

ItemsAfter(w) ==
  CASE job[w].effect = "add" -> items \cup {Pair(w)}
    [] job[w].effect = "remove" -> items \ {Pair(w)}
    [] job[w].effect = "none" -> items

\* A mutant of ForeignKeyHolds: what was checked first is not checked again.
ForeignKeyIgnored(w) == TRUE

ForeignKeyHolds(w) == job[w].effect = "add" => job[w].product \in existing

Commit(w) ==
  /\ At(w, "commit")
  /\ ForeignKeyHolds(w)
  /\ owner' = IF job[w].created THEN [owner EXCEPT ![job[w].list] = job[w].user] ELSE owner
  /\ items' = ItemsAfter(w)
  /\ Become(w, Idle)
  /\ UNCHANGED existing

Refuse(w) ==
  /\ At(w, "commit")
  /\ ~ ForeignKeyHolds(w)
  /\ Become(w, Idle)
  /\ UNCHANGED Store

\* A failing statement, or a process that dies: the transaction is rolled back.
Fail(w) ==
  /\ ~ At(w, "idle")
  /\ Become(w, Idle)
  /\ UNCHANGED Store

-----------------------------------------------------------------------------
(***************************************************************************)
(* Staff.                                                                  *)
(***************************************************************************)
\* The collector deletes the rows of every wishlist by their product_id.
DeleteProduct(p) ==
  /\ p \in existing
  /\ existing' = existing \ {p}
  /\ items' = {i \in items : i[2] # p}
  /\ UNCHANGED <<owner, job>>

Proceed(w) ==
  \/ Get(w) \/ Miss(w) \/ Insert(w) \/ Conflict(w)
  \/ AddItem(w) \/ RemoveItem(w) \/ Commit(w) \/ Refuse(w)

Next ==
  \/ \E w \in Workers :
       \/ \E u \in Users : View(w, u) \/ \E p \in Products : Add(w, u, p) \/ Remove(w, u, p)
       \/ Proceed(w) \/ Fail(w)
  \/ \E p \in Products : DeleteProduct(p)

\* A statement that waits is served when what it waits for has ended, sometime, although
\* others may come first.
Fairness == \A w \in Workers : SF_vars(Proceed(w))

Spec == Init /\ [][Next]_vars
FairSpec == Spec /\ Fairness

-----------------------------------------------------------------------------
(***************************************************************************)
(* Properties.                                                             *)
(***************************************************************************)
\* No wish is for a product that is gone or on a list that is nobody's, although add reads
\* the product before it inserts the wish.
TypeOK ==
  /\ existing \subseteq Products
  /\ owner \in [ListIds -> Users \cup {None}]
  /\ job \in [Workers -> Job]
  /\ items \subseteq ListIds \X Products
  /\ \A i \in items : owner[i[1]] \in Users /\ i[2] \in existing

\* A user has one wishlist (a OneToOneField), however many first requests race through
\* get_or_create.
OneWishlistEach == \A u \in Users : \A l, m \in ListsOf(u) : l = m

\* Requests that race, fail or find the product deleted change one set per user by one
\* product at a time: no wish that was added is lost to another request, and none that was
\* removed comes back.
Wished(u) == {p \in Products : \E l \in ListsOf(u) : <<l, p>> \in items}
Atomic == INSTANCE AtomicWishlists WITH wished <- [u \in Users |-> Wished(u)]

AtomicSpec == Atomic!Spec

\* Every request ends: the loser of the race for the first row finds the winner's, and no
\* two requests wait for each other.
EveryRequestEnds == \A w \in Workers : ~ At(w, "idle") ~> At(w, "idle")
=============================================================================
