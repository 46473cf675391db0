--------------------------- MODULE WishlistProofs ---------------------------
(***************************************************************************)
(* Proofs about Wishlists, for any users, products, workers and ids: a     *)
(* user has one wishlist, and the requests implement AtomicWishlists       *)
(* however they interleave.                                                *)
(***************************************************************************)
EXTENDS Wishlists, TLAPS

-----------------------------------------------------------------------------
(***************************************************************************)
(* The inductive invariant.  What a request believes of the wishlist it    *)
(* has found stays true until it commits, because wishlists are never      *)
(* deleted and because only one transaction at a time may hold a new one   *)
(* of a user.                                                              *)
(***************************************************************************)
Busy(w) == job[w].pc # "idle"

\* What a request knows at each of its statements.
RequestOK(w) ==
  /\ job[w].pc \in {"get", "create"} => ~ job[w].created /\ job[w].effect = "none"
  /\ job[w].pc \in {"write", "commit"} =>
       /\ job[w].list \in ListIds
       /\ IF job[w].created
          THEN owner[job[w].list] = None /\ ListsOf(job[w].user) = {}
          ELSE owner[job[w].list] = job[w].user
  /\ job[w].pc = "write" => job[w].effect = "none"
  /\ Busy(w) /\ (job[w].op # "view" \/ job[w].effect # "none") => job[w].product \in Products

\* Two wishlists that are not committed are different ones, of different users.
CreatedApart ==
  \A v, w \in Workers :
    v # w /\ Busy(v) /\ Busy(w) /\ job[v].created /\ job[w].created =>
      job[v].user # job[w].user /\ job[v].list # job[w].list

IInv ==
  /\ TypeOK
  /\ \A w \in Workers : RequestOK(w)
  /\ CreatedApart
  /\ OneWishlistEach

-----------------------------------------------------------------------------
(***************************************************************************)
(* Most steps change one request and nothing else.                         *)
(***************************************************************************)
\* A request that is under way has the fields of one.
LEMMA BusyJob ==
  ASSUME TypeOK, NEW w \in Workers, Busy(w)
  PROVE  job[w] \in [pc : {"get", "create", "write", "commit"}, op : {"view", "add", "remove"},
                     user : Users, product : Products \cup {None},
                     list : ListIds \cup {None}, created : BOOLEAN,
                     effect : {"none", "add", "remove"}]
BY DEF TypeOK, Job, Idle, Busy

\* The invariant outlives a step of one request that leaves the tables alone, if what it
\* then believes is true and a wishlist it has created is its own.
LEMMA OneRequestMoves ==
  ASSUME IInv, NEW w \in Workers, NEW j \in Job, Become(w, j), UNCHANGED Store,
         RequestOK(w)',
         j.pc # "idle" /\ j.created =>
           \A v \in Workers \ {w} :
             Busy(v) /\ job[v].created => job[v].user # j.user /\ job[v].list # j.list
  PROVE  IInv'
<1>1. job' = [job EXCEPT ![w] = j] /\ job \in [Workers -> Job]
  BY DEF Become, IInv, TypeOK
<1>2. UNCHANGED <<existing, owner, items>>
  BY DEF Store
<1>3. TypeOK'
  BY <1>1, <1>2 DEF IInv, TypeOK
<1>4. ASSUME NEW v \in Workers PROVE RequestOK(v)'
  <2>1. CASE v = w
    BY <2>1
  <2>2. CASE v # w
    <3>1. job'[v] = job[v]
      BY <1>1, <2>2
    <3> QED BY <1>2, <3>1 DEF IInv, RequestOK, ListsOf, Busy
  <2> QED BY <2>1, <2>2
<1>5. CreatedApart'
  <2> SUFFICES ASSUME NEW v \in Workers, NEW x \in Workers, v # x, Busy(v)', Busy(x)',
                      job'[v].created, job'[x].created
               PROVE  job'[v].user # job'[x].user /\ job'[v].list # job'[x].list
    BY DEF CreatedApart
  <2>1. CASE v = w
    <3>1. job'[v] = j /\ job'[x] = job[x]
      BY <1>1, <2>1
    <3> QED BY <2>1, <3>1 DEF Busy
  <2>2. CASE x = w
    <3>1. job'[x] = j /\ job'[v] = job[v]
      BY <1>1, <2>2
    <3> QED BY <2>2, <3>1 DEF Busy
  <2>3. CASE v # w /\ x # w
    <3>1. job'[x] = job[x] /\ job'[v] = job[v]
      BY <1>1, <2>3
    <3> QED BY <3>1 DEF IInv, CreatedApart, Busy
  <2> QED BY <2>1, <2>2, <2>3
<1>6. OneWishlistEach'
  BY <1>2 DEF IInv, OneWishlistEach, ListsOf
<1> QED BY <1>3, <1>4, <1>5, <1>6 DEF IInv

\* A request that ends without a commit.
LEMMA RequestEnds ==
  ASSUME IInv, NEW w \in Workers, Become(w, Idle), UNCHANGED Store
  PROVE  IInv'
<1>1. job'[w] = Idle
  BY DEF IInv, TypeOK, Become
<1>2. RequestOK(w)'
  BY <1>1 DEF RequestOK, Busy, Idle
<1>3. Idle \in Job /\ Idle.pc = "idle"
  BY DEF Job, Idle
<1> QED BY <1>2, <1>3, OneRequestMoves

-----------------------------------------------------------------------------
(***************************************************************************)
(* The statements before the commit.                                       *)
(***************************************************************************)
LEMMA StartKeeps ==
  ASSUME IInv, NEW w \in Workers, NEW op \in {"view", "add", "remove"}, NEW u \in Users,
         NEW p \in Products \cup {None}, op # "view" => p \in Products, Start(w, op, u, p)
  PROVE  IInv'
<1> DEFINE j == [pc |-> "get", op |-> op, user |-> u, product |-> p, list |-> None,
                 created |-> FALSE, effect |-> "none"]
<1>1. j \in Job /\ ~ j.created
  BY DEF Job
<1>2. Become(w, j) /\ UNCHANGED Store
  BY DEF Start
<1>3. job'[w] = j
  BY <1>2 DEF Become, IInv, TypeOK
<1>4. RequestOK(w)'
  BY <1>3 DEF RequestOK, Busy
<1> HIDE DEF j
<1> QED BY <1>1, <1>2, <1>4, OneRequestMoves

\* What get_or_create has found or created is the user's.
LEMMA FoundKeeps ==
  ASSUME IInv, NEW w \in Workers, NEW l \in ListIds, NEW own \in BOOLEAN,
         job[w].pc \in {"get", "create"}, Found(w, l, own), UNCHANGED Store,
         IF own THEN /\ owner[l] = None
                     /\ ListsOf(job[w].user) = {}
                     /\ \A v \in Workers \ {w} : Busy(v) /\ job[v].created =>
                          job[v].user # job[w].user /\ job[v].list # l
                ELSE owner[l] = job[w].user
  PROVE  IInv'
<1> DEFINE pc == IF job[w].op = "view" THEN "commit" ELSE "write"
           j == [job[w] EXCEPT !.pc = pc, !.list = l, !.created = own]
<1>1. Busy(w)
  BY DEF Busy
<1>2. /\ j \in Job /\ j.pc = pc /\ j.list = l /\ j.created = own
      /\ j.user = job[w].user /\ j.op = job[w].op /\ j.effect = job[w].effect
      /\ j.product = job[w].product
  BY <1>1, BusyJob DEF IInv, Job
<1>3. Become(w, j)
  BY DEF Found
<1>4. job'[w] = j
  BY <1>3 DEF Become, IInv, TypeOK
<1>5. owner' = owner
  BY DEF Store
<1>6. job[w].effect = "none" /\ (job[w].op # "view" => job[w].product \in Products)
  BY <1>1 DEF IInv, RequestOK
<1> HIDE DEF j
<1>7. RequestOK(w)'
  BY <1>2, <1>4, <1>5, <1>6 DEF RequestOK, Busy, ListsOf
<1> QED BY <1>2, <1>3, <1>7, OneRequestMoves

LEMMA GetKeeps ==
  ASSUME IInv, NEW w \in Workers, Get(w)
  PROVE  IInv'
<1>1. PICK l \in ListIds : ListsOf(job[w].user) = {l} /\ Found(w, l, FALSE)
  BY DEF Get
<1>2. owner[l] = job[w].user
  BY <1>1 DEF ListsOf
<1> QED BY <1>1, <1>2, FoundKeeps DEF Get, At

LEMMA InsertKeeps ==
  ASSUME IInv, NEW w \in Workers, Insert(w)
  PROVE  IInv'
<1>1. PICK l \in FreeLists : Found(w, l, TRUE)
  BY DEF Insert
<1>2. l \in ListIds /\ owner[l] = None
  BY DEF FreeLists
<1>3. ASSUME NEW v \in Workers \ {w}, Busy(v), job[v].created
      PROVE  job[v].user # job[w].user /\ job[v].list # l
  <2>1. v \in Uncommitted
    BY <1>3 DEF Uncommitted, At, Busy
  <2> QED BY <2>1 DEF Insert, FreeLists
<1> QED BY <1>1, <1>2, <1>3, FoundKeeps DEF Insert, At

\* A request that only goes on to another statement.
LEMMA StatementKeeps ==
  ASSUME IInv, NEW w \in Workers,
         NEW pc \in {"get", "create", "write", "commit"}, NEW effect \in {"none", "add", "remove"},
         Become(w, [job[w] EXCEPT !.pc = pc, !.effect = effect]), UNCHANGED Store, Busy(w),
         \/ job[w].pc \in {"get", "create"} /\ pc \in {"get", "create"} /\ effect = "none"
         \/ job[w].pc = "write" /\ pc = "commit" /\ job[w].op # "view"
  PROVE  IInv'
<1> DEFINE j == [job[w] EXCEPT !.pc = pc, !.effect = effect]
<1>1. /\ j \in Job /\ j.pc = pc /\ j.effect = effect /\ j.list = job[w].list
      /\ j.created = job[w].created /\ j.user = job[w].user /\ j.op = job[w].op
      /\ j.product = job[w].product
  BY BusyJob DEF IInv, Job
<1>2. job'[w] = j
  BY DEF Become, IInv, TypeOK
<1>3. owner' = owner
  BY DEF Store
<1>4. RequestOK(w)
  BY DEF IInv
<1>5. Become(w, j)
  OBVIOUS
<1> HIDE DEF j
<1>6. RequestOK(w)'
  BY <1>1, <1>2, <1>3, <1>4 DEF RequestOK, Busy, ListsOf
<1>7. j.created => \A v \in Workers \ {w} :
        Busy(v) /\ job[v].created => job[v].user # j.user /\ job[v].list # j.list
  BY <1>1 DEF IInv, CreatedApart
<1> QED BY <1>1, <1>5, <1>6, <1>7, OneRequestMoves

LEMMA MissOrConflictKeeps ==
  ASSUME IInv, NEW w \in Workers, Miss(w) \/ Conflict(w)
  PROVE  IInv'
<1>1. PICK pc \in {"get", "create"} : Become(w, [job[w] EXCEPT !.pc = pc])
  BY DEF Miss, Conflict
<1>2. job[w].pc \in {"get", "create"} /\ Busy(w) /\ UNCHANGED Store
  BY DEF Miss, Conflict, At, Busy
<1>3. job[w].effect = "none"
  BY <1>2 DEF IInv, RequestOK
<1>4. [job[w] EXCEPT !.pc = pc] = [job[w] EXCEPT !.pc = pc, !.effect = "none"]
  BY <1>2, <1>3, BusyJob DEF IInv
<1> QED BY <1>1, <1>2, <1>4, StatementKeeps

LEMMA WriteKeeps ==
  ASSUME IInv, NEW w \in Workers, AddItem(w) \/ RemoveItem(w)
  PROVE  IInv'
<1>1. job[w].pc = "write" /\ job[w].op # "view" /\ Busy(w)
  BY DEF AddItem, RemoveItem, At, Busy
<1>2. PICK effect \in {"none", "add", "remove"} : Wrote(w, effect)
  BY DEF AddItem, RemoveItem
<1> QED BY <1>1, <1>2, StatementKeeps DEF Wrote

-----------------------------------------------------------------------------
(***************************************************************************)
(* The commit, and staff.                                                  *)
(***************************************************************************)
\* The list of a request that commits is its user's from then on, and other requests are
\* of other lists or know it as the user's.
LEMMA CommitKeeps ==
  ASSUME IInv, NEW w \in Workers, Commit(w)
  PROVE  IInv'
<1> DEFINE l == job[w].list
           u == job[w].user
           p == job[w].product
<1>1. Busy(w) /\ job[w].pc = "commit" /\ RequestOK(w)
  BY DEF Commit, At, Busy, IInv
<1>2. l \in ListIds /\ u \in Users /\ (job[w].effect # "none" => p \in Products)
  BY <1>1, BusyJob DEF IInv, RequestOK
<1>3. job' = [job EXCEPT ![w] = Idle] /\ job \in [Workers -> Job] /\ Idle \in Job
  BY DEF Commit, Become, IInv, TypeOK, Job
<1>4. existing' = existing
  BY DEF Commit
<1>5. /\ owner' \in [ListIds -> Users \cup {None}]
      /\ owner'[l] = u
      /\ \A m \in ListIds \ {l} : owner'[m] = owner[m]
  BY <1>1, <1>2 DEF Commit, RequestOK, IInv, TypeOK
<1>6. owner[l] \in {u, None}
  BY <1>1 DEF RequestOK
<1>7. ASSUME owner[l] = None PROVE ListsOf(u) = {}
  BY <1>1, <1>2, <1>7, NoneAssumption DEF RequestOK
<1>8. TypeOK'
  <2>1. items' \subseteq items \cup {<<l, p>>}
    BY <1>1, BusyJob DEF Commit, ItemsAfter, Pair, IInv
  <2>2. ASSUME <<l, p>> \in items', <<l, p>> \notin items
        PROVE  p \in existing
    <3>1. job[w].effect = "add"
      BY <1>1, <2>2, BusyJob DEF Commit, ItemsAfter, Pair, IInv
    <3> QED BY <3>1 DEF Commit, ForeignKeyHolds
  <2>3. ASSUME NEW i \in items'
        PROVE  i \in ListIds \X Products /\ owner'[i[1]] \in Users /\ i[2] \in existing
    <3>1. CASE i \in items
      <4>1. i \in ListIds \X Products /\ owner[i[1]] \in Users /\ i[2] \in existing
        BY <3>1 DEF IInv, TypeOK
      <4> QED BY <4>1, <1>2, <1>5
    <3>2. CASE i \notin items
      <4>1. i = <<l, p>>
        BY <2>1, <2>3, <3>2
      <4>2. p \in existing /\ existing \subseteq Products
        BY <2>2, <2>3, <3>2, <4>1 DEF IInv, TypeOK
      <4> QED BY <4>1, <4>2, <1>2, <1>5
    <3> QED BY <3>1, <3>2
  <2>4. items' \subseteq ListIds \X Products
    BY <2>3
  <2>5. job' \in [Workers -> Job]
    BY <1>3
  <2> QED BY <2>3, <2>4, <2>5, <1>4, <1>5 DEF IInv, TypeOK
<1>9. ASSUME NEW v \in Workers PROVE RequestOK(v)'
  <2>1. CASE v = w
    <3>1. job'[v] = Idle
      BY <1>3, <2>1
    <3> QED BY <3>1 DEF RequestOK, Busy, Idle
  <2>2. CASE v # w
    <3>1. job'[v] = job[v] /\ RequestOK(v)
      BY <1>3, <2>2 DEF IInv
    <3>2. ASSUME job[v].pc \in {"write", "commit"}, job[v].created
          PROVE  owner'[job[v].list] = None /\ ListsOf(job[v].user)' = {}
      <4>1. Busy(v) /\ owner[job[v].list] = None /\ ListsOf(job[v].user) = {}
        BY <3>1, <3>2 DEF RequestOK, Busy
      <4>2. job[v].list # l /\ job[v].user # u
        <5>1. CASE job[w].created
          BY <5>1, <4>1, <3>2, <2>2, <1>1 DEF IInv, CreatedApart
        <5>2. CASE ~ job[w].created
          <6>1. owner[l] = u
            BY <5>2, <1>1 DEF RequestOK
          <6> QED BY <6>1, <4>1, <1>2, NoneAssumption DEF ListsOf
        <5> QED BY <5>1, <5>2
      <4>3. job[v].list \in ListIds
        BY <3>1, <3>2 DEF RequestOK
      <4>4. owner'[job[v].list] = None
        BY <4>1, <4>2, <4>3, <1>5
      <4>5. ASSUME NEW m \in ListIds, owner'[m] = job[v].user PROVE FALSE
        BY <4>1, <4>2, <4>5, <1>5 DEF ListsOf
      <4> QED BY <3>1, <4>4, <4>5 DEF ListsOf
    <3>3. ASSUME job[v].pc \in {"write", "commit"}, ~ job[v].created
          PROVE  owner'[job[v].list] = job[v].user
      <4>1. job[v].list \in ListIds /\ owner[job[v].list] = job[v].user
        BY <3>1, <3>3 DEF RequestOK
      <4>2. job[v].user \in Users
        BY <3>3, BusyJob DEF Busy, IInv
      <4> QED BY <4>1, <4>2, <1>5, <1>6, NoneAssumption
    <3> QED BY <3>1, <3>2, <3>3 DEF RequestOK, Busy
  <2> QED BY <2>1, <2>2
<1>10. CreatedApart'
  <2> SUFFICES ASSUME NEW v \in Workers, NEW x \in Workers, v # x, Busy(v)', Busy(x)',
                      job'[v].created, job'[x].created
               PROVE  job'[v].user # job'[x].user /\ job'[v].list # job'[x].list
    BY DEF CreatedApart
  <2>1. v # w /\ x # w
    BY <1>3 DEF Busy, Idle
  <2>2. job'[v] = job[v] /\ job'[x] = job[x]
    BY <1>3, <2>1
  <2> QED BY <2>2 DEF IInv, CreatedApart, Busy
<1>11. OneWishlistEach'
  <2> SUFFICES ASSUME NEW v \in Users, NEW m \in ListIds, NEW n \in ListIds,
                      owner'[m] = v, owner'[n] = v
               PROVE  m = n
    BY DEF OneWishlistEach, ListsOf
  <2>1. CASE m # l /\ n # l
    BY <2>1, <1>5 DEF IInv, OneWishlistEach, ListsOf
  <2>2. CASE m = l \/ n = l
    <3>1. v = u
      BY <2>2, <1>5
    <3>2. ASSUME NEW k \in ListIds \ {l}, owner'[k] = u PROVE FALSE
      <4>1. owner[k] = u
        BY <3>2, <1>5
      <4> QED BY <3>2, <4>1, <1>2, <1>6, <1>7 DEF IInv, OneWishlistEach, ListsOf
    <3> QED BY <2>2, <3>1, <3>2
  <2> QED BY <2>1, <2>2
<1> QED BY <1>8, <1>9, <1>10, <1>11 DEF IInv

LEMMA DeleteKeeps ==
  ASSUME IInv, NEW p \in Products, DeleteProduct(p)
  PROVE  IInv'
<1>1. /\ existing' = existing \ {p} /\ items' = {i \in items : i[2] # p}
      /\ owner' = owner /\ job' = job
  BY DEF DeleteProduct
<1>2. TypeOK'
  BY <1>1 DEF IInv, TypeOK
<1>3. (\A w \in Workers : RequestOK(w)') /\ CreatedApart' /\ OneWishlistEach'
  BY <1>1 DEF IInv, RequestOK, CreatedApart, OneWishlistEach, ListsOf, Busy
<1> QED BY <1>2, <1>3 DEF IInv

-----------------------------------------------------------------------------
(***************************************************************************)
(* The theorems.                                                           *)
(***************************************************************************)
LEMMA InitIInv == Init => IInv
<1> SUFFICES ASSUME Init PROVE IInv
  OBVIOUS
<1>1. \A w \in Workers : job[w] = Idle
  BY DEF Init
<1>2. TypeOK
  BY DEF Init, TypeOK, Job
<1>3. (\A w \in Workers : RequestOK(w)) /\ CreatedApart
  BY <1>1 DEF RequestOK, CreatedApart, Busy, Idle
<1>4. OneWishlistEach
  BY NoneAssumption DEF Init, OneWishlistEach, ListsOf
<1> QED BY <1>2, <1>3, <1>4 DEF IInv

LEMMA NextIInv ==
  ASSUME IInv, [Next]_vars
  PROVE  IInv'
<1>1. ASSUME NEW w \in Workers, NEW u \in Users, View(w, u) PROVE IInv'
  BY <1>1, StartKeeps DEF View
<1>2. ASSUME NEW w \in Workers, NEW u \in Users, NEW p \in Products, Add(w, u, p) \/ Remove(w, u, p)
      PROVE  IInv'
  BY <1>2, StartKeeps DEF Add, Remove
<1>3. ASSUME NEW w \in Workers, Proceed(w) PROVE IInv'
  <2>1. CASE Refuse(w)
    BY <2>1, RequestEnds DEF Refuse
  <2> QED
    BY <1>3, <2>1, GetKeeps, InsertKeeps, MissOrConflictKeeps, WriteKeeps, CommitKeeps DEF Proceed
<1>4. ASSUME NEW w \in Workers, Fail(w) PROVE IInv'
  BY <1>4, RequestEnds DEF Fail
<1>5. ASSUME NEW p \in Products, DeleteProduct(p) PROVE IInv'
  BY <1>5, DeleteKeeps
<1>6. CASE UNCHANGED vars
  BY <1>6 DEF vars, IInv, TypeOK, RequestOK, CreatedApart, OneWishlistEach, ListsOf, Busy
<1> QED BY <1>1, <1>2, <1>3, <1>4, <1>5, <1>6 DEF Next

\* What every request knows while it runs.
THEOREM Inductive == Spec => []IInv
<1> QED BY InitIInv, NextIInv, PTL DEF Spec

\* Type correctness: no wish is on a list that is nobody's or for a product that is gone.
THEOREM TypeCorrect == Spec => []TypeOK
<1>1. IInv => TypeOK
  BY DEF IInv
<1> QED BY <1>1, Inductive, PTL

\* A user has one wishlist, whatever first requests race through get_or_create.
THEOREM OneEach == Spec => []OneWishlistEach
<1>1. IInv => OneWishlistEach
  BY DEF IInv
<1> QED BY <1>1, Inductive, PTL

-----------------------------------------------------------------------------
(***************************************************************************)
(* The refinement.  Only a commit and a deletion change what is wished.    *)
(***************************************************************************)
LEMMA QuietStep ==
  ASSUME UNCHANGED Store
  PROVE  /\ existing' = existing
         /\ [u \in Users |-> Wished(u)]' = [u \in Users |-> Wished(u)]
BY DEF Store, Wished, ListsOf

\* A commit changes the wishes of its own user only, and by its own product.
LEMMA CommitWishes ==
  ASSUME IInv, NEW w \in Workers, Commit(w), NEW u, NEW p, u = job[w].user, p = job[w].product
  PROVE  /\ u \in Users
         /\ \A v \in Users \ {u} : Wished(v)' = Wished(v)
         /\ job[w].effect = "none" => Wished(u)' = Wished(u)
         /\ job[w].effect = "add" =>
              p \in Products /\ p \in existing /\ Wished(u)' = Wished(u) \cup {p}
         /\ job[w].effect = "remove" => p \in Products /\ Wished(u)' = Wished(u) \ {p}
<1> SUFFICES ASSUME NEW l, l = job[w].list
             PROVE  /\ u \in Users
                    /\ \A v \in Users \ {u} : Wished(v)' = Wished(v)
                    /\ job[w].effect = "none" => Wished(u)' = Wished(u)
                    /\ job[w].effect = "add" =>
                         p \in Products /\ p \in existing /\ Wished(u)' = Wished(u) \cup {p}
                    /\ job[w].effect = "remove" => p \in Products /\ Wished(u)' = Wished(u) \ {p}
  OBVIOUS
<1>1. Busy(w) /\ job[w].pc = "commit" /\ RequestOK(w)
  BY DEF Commit, At, Busy, IInv
<1>2. l \in ListIds /\ u \in Users /\ job[w].effect \in {"none", "add", "remove"}
      /\ (job[w].effect # "none" => p \in Products)
  BY <1>1, BusyJob DEF IInv, RequestOK
<1>3. owner[l] \in {u, None} /\ (owner[l] = None => ListsOf(u) = {})
  BY <1>1, <1>2, NoneAssumption DEF RequestOK
<1>4. owner'[l] = u /\ \A m \in ListIds \ {l} : owner'[m] = owner[m]
  BY <1>1, <1>2 DEF Commit, RequestOK, IInv, TypeOK
<1>5. ListsOf(u)' = {l}
  <2>1. ASSUME NEW m \in ListIds \ {l}, owner[m] = u PROVE FALSE
    BY <2>1, <1>2, <1>3 DEF IInv, OneWishlistEach, ListsOf
  <2> QED BY <2>1, <1>2, <1>4 DEF ListsOf
<1>6. Wished(u) = {q \in Products : <<l, q>> \in items}
  <2>1. CASE owner[l] = u
    <3>1. ListsOf(u) = {l}
      BY <2>1, <1>2 DEF IInv, OneWishlistEach, ListsOf
    <3> QED BY <3>1 DEF Wished
  <2>2. CASE owner[l] = None
    <3>1. \A q \in Products : <<l, q>> \notin items
      BY <2>2, NoneAssumption DEF IInv, TypeOK
    <3> QED BY <3>1, <2>2, <1>3 DEF Wished
  <2> QED BY <2>1, <2>2, <1>3
<1>7. Wished(u)' = {q \in Products : <<l, q>> \in items'}
  BY <1>5 DEF Wished
<1>8. items' = CASE job[w].effect = "add" -> items \cup {<<l, p>>}
                 [] job[w].effect = "remove" -> items \ {<<l, p>>}
                 [] job[w].effect = "none" -> items
  BY DEF Commit, ItemsAfter, Pair
<1>9. ASSUME NEW v \in Users \ {u} PROVE Wished(v)' = Wished(v)
  <2>1. ListsOf(v)' = ListsOf(v) /\ l \notin ListsOf(v)
    BY <1>2, <1>3, <1>4, NoneAssumption DEF ListsOf
  <2>2. \A m \in ListIds \ {l}, q \in Products : <<m, q>> \in items' <=> <<m, q>> \in items
    BY <1>2, <1>8
  <2>3. ListsOf(v) \subseteq ListIds \ {l}
    BY <2>1 DEF ListsOf
  <2> QED BY <2>1, <2>2, <2>3 DEF Wished
<1>10. job[w].effect = "add" => p \in existing
  BY DEF Commit, ForeignKeyHolds
<1>11. CASE job[w].effect = "none"
  BY <1>2, <1>6, <1>7, <1>8, <1>9, <1>11
<1>12. CASE job[w].effect = "add"
  <2>1. items' = items \cup {<<l, p>>}
    BY <1>8, <1>12
  <2>2. Wished(u)' = Wished(u) \cup {p}
    BY <2>1, <1>2, <1>6, <1>7, <1>12
  <2> QED BY <2>2, <1>2, <1>9, <1>10, <1>12
<1>13. CASE job[w].effect = "remove"
  <2>1. items' = items \ {<<l, p>>}
    BY <1>8, <1>13
  <2>2. Wished(u)' = Wished(u) \ {p}
    BY <2>1, <1>2, <1>6, <1>7, <1>13
  <2> QED BY <2>2, <1>2, <1>9, <1>13
<1> QED BY <1>2, <1>11, <1>12, <1>13

LEMMA CommitRefines ==
  ASSUME IInv, NEW w \in Workers, Commit(w)
  PROVE  [Atomic!Next]_Atomic!vars
<1> SUFFICES ASSUME NEW u, NEW p, u = job[w].user, p = job[w].product
             PROVE  [Atomic!Next]_Atomic!vars
  OBVIOUS
<1>1. existing' = existing /\ u \in Users /\ job[w].effect \in {"none", "add", "remove"}
  BY CommitWishes, BusyJob DEF Commit, At, Busy, IInv
<1>2. \A v \in Users \ {u} : Wished(v)' = Wished(v)
  BY CommitWishes
<1>3. CASE job[w].effect = "none"
  <2>1. Wished(u)' = Wished(u)
    BY <1>3, CommitWishes
  <2>2. [v \in Users |-> Wished(v)]' = [v \in Users |-> Wished(v)]
    BY <1>2, <2>1
  <2> QED BY <2>2, <1>1 DEF Atomic!vars
<1>4. CASE job[w].effect = "add"
  <2>1. p \in Products /\ p \in existing /\ Wished(u)' = Wished(u) \cup {p}
    BY <1>4, CommitWishes
  <2>2. [v \in Users |-> Wished(v)]' = [[v \in Users |-> Wished(v)] EXCEPT ![u] = @ \cup {p}]
    BY <2>1, <1>1, <1>2
  <2>3. Atomic!Add(u, p)
    BY <2>1, <2>2, <1>1 DEF Atomic!Add
  <2> QED BY <2>1, <2>3, <1>1 DEF Atomic!Next
<1>5. CASE job[w].effect = "remove"
  <2>1. p \in Products /\ Wished(u)' = Wished(u) \ {p}
    BY <1>5, CommitWishes
  <2>2. [v \in Users |-> Wished(v)]' = [[v \in Users |-> Wished(v)] EXCEPT ![u] = @ \ {p}]
    BY <2>1, <1>1, <1>2
  <2>3. Atomic!Remove(u, p)
    BY <2>2, <1>1 DEF Atomic!Remove
  <2> QED BY <2>1, <2>3, <1>1 DEF Atomic!Next
<1> QED BY <1>1, <1>3, <1>4, <1>5

LEMMA DeleteRefines ==
  ASSUME IInv, NEW p \in Products, DeleteProduct(p)
  PROVE  Atomic!Next
<1>1. existing' = existing \ {p} /\ items' = {i \in items : i[2] # p} /\ owner' = owner
  BY DEF DeleteProduct
<1>2. \A u \in Users : Wished(u)' = Wished(u) \ {p}
  BY <1>1 DEF Wished, ListsOf
<1>3. [u \in Users |-> Wished(u)]' = [u \in Users |-> [v \in Users |-> Wished(v)][u] \ {p}]
  BY <1>2
<1> QED BY <1>1, <1>3 DEF Atomic!Next, Atomic!Discontinue

LEMMA NextRefines ==
  ASSUME IInv, [Next]_vars
  PROVE  [Atomic!Next]_Atomic!vars
<1>1. ASSUME NEW w \in Workers, Commit(w) PROVE [Atomic!Next]_Atomic!vars
  BY <1>1, CommitRefines
<1>2. ASSUME NEW p \in Products, DeleteProduct(p) PROVE [Atomic!Next]_Atomic!vars
  BY <1>2, DeleteRefines
<1>3. ASSUME UNCHANGED Store PROVE [Atomic!Next]_Atomic!vars
  BY <1>3, QuietStep DEF Atomic!vars
<1>4. ASSUME NEW w \in Workers, Proceed(w), ~ Commit(w) PROVE UNCHANGED Store
  BY <1>4 DEF Proceed, Get, Miss, Insert, Conflict, AddItem, RemoveItem, Refuse, Wrote
<1>5. CASE UNCHANGED vars
  BY <1>3, <1>5 DEF vars, Store
<1>6. ASSUME NEW w \in Workers, Fail(w) \/ \E u \in Users :
               View(w, u) \/ \E p \in Products : Add(w, u, p) \/ Remove(w, u, p)
      PROVE  UNCHANGED Store
  BY <1>6 DEF Fail, View, Add, Remove, Start
<1> QED BY <1>1, <1>2, <1>3, <1>4, <1>5, <1>6 DEF Next

LEMMA InitRefines == Init => Atomic!Init
BY DEF Init, Atomic!Init, Wished

\* Requests that race, fail or find the product deleted change one user's set by one
\* product at a time.
THEOREM ImplementsAtomic == Spec => AtomicSpec
<1> QED BY InitRefines, Inductive, NextRefines, PTL DEF Spec, AtomicSpec, Atomic!Spec
=============================================================================
