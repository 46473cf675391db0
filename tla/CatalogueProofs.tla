-------------------------- MODULE CatalogueProofs --------------------------
(***************************************************************************)
(* Proofs about Catalogue, for any ids, names, users and workers: what     *)
(* refers to what exists, and the unique indexes keep slugs and reviews    *)
(* unique, whatever stale rows are saved and whatever is deleted.          *)
(***************************************************************************)
EXTENDS Catalogue, TLAPS

-----------------------------------------------------------------------------
(***************************************************************************)
(* The inductive invariant.                                                *)
(***************************************************************************)
\* No two rows share a key of a unique index.
KeysApart == \A x, y \in Live : x # y => Keys(x, rows[x]) \cap Keys(y, rows[y]) = {}

\* An approval on a row, committed or about to be saved, was staff's.
ApprovalsOK == \A r \in Reviews \cap Live : rows[r].is_approved => r \in approved

\* What a request is about to write: a review with an approval has one, and a product is
\* deleted by itself.
Knows(j) ==
  /\ j.op = "save" /\ j.id \in Reviews /\ j.row.is_approved => j.id \in approved
  /\ j.op = "delete" => j.ids \cap Products = {} \/ \E p \in Products : j.ids = {p}

IInv ==
  /\ TypeOK
  /\ KeysApart
  /\ ApprovalsOK
  /\ \A w \in Workers : Knows(job[w])

\* Each table has its own kind of rows.
LEMMA RowsOfTables ==
  /\ \A id \in Categories : RowOf(id) = CategoryRow
  /\ \A id \in Brands : RowOf(id) = BrandRow
  /\ \A id \in Products : RowOf(id) = ProductRow
  /\ \A id \in Reviews : RowOf(id) = ReviewRow
BY IdsAreDisjoint DEF RowOf, Ids

LEMMA ReferencesOfTables ==
  /\ \A id \in Categories : \A row : References(id, row) = {row.parent} \ {None}
  /\ \A id \in Brands : \A row : References(id, row) = {}
  /\ \A id \in Products : \A row : References(id, row) = {row.category, row.brand}
  /\ \A id \in Reviews : \A row : References(id, row) = {row.product}
BY IdsAreDisjoint DEF References, Ids

LEMMA KeysOfTables ==
  /\ \A id \in Categories : \A row : <<"category", "slug", row.slug>> \in Keys(id, row)
  /\ \A id \in Brands : \A row : <<"brand", "slug", row.slug>> \in Keys(id, row)
  /\ \A id \in Reviews : \A row : <<"review", row.product, row.user>> \in Keys(id, row)
BY IdsAreDisjoint DEF Keys, CategoryKeys, BrandKeys, ReviewKeys, ShelfKeys, Ids

\* What each kind of request is.
LEMMA JobKinds ==
  ASSUME NEW j \in Job
  PROVE  /\ j.op \in {"none", "save", "order", "delete"}
         /\ j.op = "save" => j.id \in Ids /\ j.row \in RowOf(j.id)
         /\ j.op = "order" => j.id \in Products /\ j.row \in ProductRow
         /\ j.op = "delete" => j.ids \in SUBSET Ids /\ j = Deleting(j.ids)
BY DEF Job, Idle, Saving, Ordering, Deleting

LEMMA KindsAreJobs ==
  /\ Idle \in Job
  /\ \A id \in Ids : \A row \in RowOf(id) : Saving(id, row) \in Job
  /\ \A p \in Products : \A row \in ProductRow : Ordering(p, row) \in Job
  /\ \A ids \in SUBSET Ids : Deleting(ids) \in Job
BY DEF Job

\* The foreign keys, as TypeOK states them: no row refers to one that is not there.
ReferencesOK == \A id \in Live : References(id, rows[id]) \subseteq Live

LEMMA TypesAndReferences ==
  ASSUME Live \subseteq Ids, \A id \in Live : rows[id] \in RowOf(id)
  PROVE  ReferencesOK <=>
           /\ \A c \in Categories \cap Live : rows[c].parent \in Live \cup {None}
           /\ \A p \in Products \cap Live : {rows[p].category, rows[p].brand} \subseteq Live
           /\ \A r \in Reviews \cap Live : rows[r].product \in Live
<1>1. ASSUME ReferencesOK
      PROVE  /\ \A c \in Categories \cap Live : rows[c].parent \in Live \cup {None}
             /\ \A p \in Products \cap Live : {rows[p].category, rows[p].brand} \subseteq Live
             /\ \A r \in Reviews \cap Live : rows[r].product \in Live
  BY <1>1, ReferencesOfTables DEF ReferencesOK
<1>2. ASSUME /\ \A c \in Categories \cap Live : rows[c].parent \in Live \cup {None}
             /\ \A p \in Products \cap Live : {rows[p].category, rows[p].brand} \subseteq Live
             /\ \A r \in Reviews \cap Live : rows[r].product \in Live
      PROVE  ReferencesOK
  BY <1>2, ReferencesOfTables DEF ReferencesOK, Ids
<1> QED BY <1>1, <1>2

LEMMA InitIInv == Init => IInv
<1> SUFFICES ASSUME Init PROVE IInv
  OBVIOUS
<1>1. Live = {} /\ ordered = {} /\ approved = {} /\ \A w \in Workers : job[w] = Idle
  BY DEF Init, Live
<1>2. TypeOK
  BY <1>1, KindsAreJobs DEF Init, TypeOK
<1>3. Knows(Idle)
  BY DEF Knows, Idle
<1> QED BY <1>1, <1>2, <1>3 DEF IInv, KeysApart, ApprovalsOK

-----------------------------------------------------------------------------
(***************************************************************************)
(* Requests that begin.                                                    *)
(***************************************************************************)
LEMMA BeginKeeps ==
  ASSUME IInv, NEW w \in Workers, NEW j \in Job, Knows(j),
         job' = [job EXCEPT ![w] = j], UNCHANGED <<rows, ordered, approved>>
  PROVE  IInv'
<1>1. Live' = Live
  BY DEF Live
<1>2. TypeOK'
  BY <1>1 DEF IInv, TypeOK
<1>3. \A v \in Workers : Knows(job[v])'
  BY DEF IInv, TypeOK, Knows
<1> QED BY <1>1, <1>2, <1>3 DEF IInv, KeysApart, ApprovalsOK

LEMMA SavingKnows ==
  ASSUME NEW id, NEW row, id \in Reviews /\ row.is_approved => id \in approved
  PROVE  Knows(Saving(id, row))
BY DEF Knows, Saving

LEMMA DeletingKnows ==
  ASSUME NEW ids, ids \cap Products = {} \/ \E p \in Products : ids = {p}
  PROVE  Knows(Deleting(ids))
BY DEF Knows, Deleting

\* A request begins with a job it knows enough about.
LEMMA BeginIsSafe ==
  ASSUME IInv, NEW w \in Workers, NEW j, j \in Job, Knows(j), Begin(w, j)
  PROVE  IInv'
BY BeginKeeps DEF Begin

\* To save a row of its kind, a request must know that an approval in it was staff's.
LEMMA SaveBegins ==
  ASSUME IInv, NEW w \in Workers, NEW id \in Ids, NEW row \in RowOf(id),
         id \in Reviews /\ row.is_approved => id \in approved,
         Begin(w, Saving(id, row))
  PROVE  IInv'
<1>1. Saving(id, row) \in Job
  BY KindsAreJobs
<1>2. Knows(Saving(id, row))
  BY SavingKnows
<1> QED BY <1>1, <1>2, BeginIsSafe

LEMMA DeleteBegins ==
  ASSUME IInv, NEW w \in Workers, NEW ids \in SUBSET Ids,
         ids \cap Products = {} \/ \E p \in Products : ids = {p},
         Begin(w, Deleting(ids))
  PROVE  IInv'
<1>1. Deleting(ids) \in Job
  BY KindsAreJobs
<1>2. Knows(Deleting(ids))
  BY DeletingKnows
<1> QED BY <1>1, <1>2, BeginIsSafe

LEMMA CategoryRequests ==
  ASSUME IInv, NEW w \in Workers, NEW c \in Categories, NEW n \in CategoryNames,
         NEW p \in Categories \cup {None},
         CreateCategory(w, c, n, p) \/ EditCategory(w, c, n, p) \/ UpdateCategory(w, c, n, p)
  PROVE  IInv'
<1>1. c \in Ids /\ c \notin Reviews /\ RowOf(c) = CategoryRow
  BY IdsAreDisjoint, RowsOfTables DEF Ids
<1>2. [name |-> n, slug |-> SlugOf[n], parent |-> p] \in RowOf(c)
  BY <1>1, SlugOfAssumption DEF CategoryRow
<1>3. c \in Live => [rows[c] EXCEPT !.name = n, !.parent = p] \in RowOf(c)
  <2>1. c \in Live => rows[c] \in CategoryRow
    BY <1>1 DEF IInv, TypeOK
  <2>2. \A row \in CategoryRow : [row EXCEPT !.name = n, !.parent = p] \in CategoryRow
    BY DEF CategoryRow
  <2> QED BY <1>1, <2>1, <2>2
<1>4. CASE CreateCategory(w, c, n, p)
  BY <1>1, <1>2, <1>4, SaveBegins DEF CreateCategory
<1>5. CASE EditCategory(w, c, n, p)
  BY <1>1, <1>3, <1>5, SaveBegins DEF EditCategory
<1>6. CASE UpdateCategory(w, c, n, p)
  BY <1>1, <1>2, <1>6, SaveBegins DEF UpdateCategory
<1> QED BY <1>4, <1>5, <1>6

LEMMA BrandRequests ==
  ASSUME IInv, NEW w \in Workers, NEW b \in Brands, NEW n \in BrandNames,
         CreateBrand(w, b, n) \/ EditBrand(w, b, n) \/ UpdateBrand(w, b, n)
  PROVE  IInv'
<1>1. b \in Ids /\ b \notin Reviews /\ RowOf(b) = BrandRow
  BY IdsAreDisjoint, RowsOfTables DEF Ids
<1>2. [name |-> n, slug |-> SlugOf[n]] \in RowOf(b)
  BY <1>1, SlugOfAssumption DEF BrandRow
<1>3. b \in Live => [rows[b] EXCEPT !.name = n] \in RowOf(b)
  <2>1. b \in Live => rows[b] \in BrandRow
    BY <1>1 DEF IInv, TypeOK
  <2>2. \A row \in BrandRow : [row EXCEPT !.name = n] \in BrandRow
    BY DEF BrandRow
  <2> QED BY <1>1, <2>1, <2>2
<1>4. CASE CreateBrand(w, b, n)
  BY <1>1, <1>2, <1>4, SaveBegins DEF CreateBrand
<1>5. CASE EditBrand(w, b, n)
  BY <1>1, <1>3, <1>5, SaveBegins DEF EditBrand
<1>6. CASE UpdateBrand(w, b, n)
  BY <1>1, <1>2, <1>6, SaveBegins DEF UpdateBrand
<1> QED BY <1>4, <1>5, <1>6

LEMMA ProductRequests ==
  ASSUME IInv, NEW w \in Workers, NEW p \in Products, NEW k \in Skus,
         NEW c \in Categories, NEW b \in Brands,
         CreateProduct(w, p, k, c, b) \/ EditProduct(w, p, k, c, b)
  PROVE  IInv'
<1>1. p \in Ids /\ p \notin Reviews /\ RowOf(p) = ProductRow
  BY IdsAreDisjoint, RowsOfTables DEF Ids
<1>2. [sku |-> k, category |-> c, brand |-> b] \in RowOf(p)
  BY <1>1 DEF ProductRow
<1> QED BY <1>1, <1>2, SaveBegins DEF CreateProduct, EditProduct

LEMMA OrderRequests ==
  ASSUME IInv, NEW w \in Workers, NEW p \in Products, Order(w, p)
  PROVE  IInv'
<1>1. rows[p] \in ProductRow
  BY RowsOfTables DEF Order, IInv, TypeOK
<1>2. Ordering(p, rows[p]) \in Job
  BY <1>1, KindsAreJobs
<1>3. Knows(Ordering(p, rows[p]))
  BY DEF Knows, Ordering
<1> QED BY <1>2, <1>3, BeginIsSafe DEF Order

\* An edit saves the approval that it has read, and a new review has none.
LEMMA ReviewRequests ==
  ASSUME IInv, NEW w \in Workers, NEW r \in Reviews, NEW p \in Products,
         EditReview(w, r, p) \/ \E u \in Users : CreateReview(w, r, p, u)
  PROVE  IInv'
<1>1. r \in Ids /\ RowOf(r) = ReviewRow
  BY RowsOfTables DEF Ids
<1>2. CASE EditReview(w, r, p)
  <2>1. rows[r] \in ReviewRow /\ (rows[r].is_approved => r \in approved)
    BY <1>1, <1>2 DEF EditReview, IInv, TypeOK, ApprovalsOK
  <2>2. EditedReview(r, p) \in ReviewRow
    BY <2>1 DEF EditedReview, ReviewRow
  <2>3. EditedReview(r, p).is_approved = rows[r].is_approved
    BY <2>1 DEF EditedReview, ReviewRow
  <2> QED BY <1>1, <1>2, <2>1, <2>2, <2>3, SaveBegins DEF EditReview
<1>3. ASSUME NEW u \in Users, CreateReview(w, r, p, u)
      PROVE  IInv'
  <2> DEFINE row == [product |-> p, user |-> u, is_approved |-> FALSE]
  <2>1. row \in ReviewRow /\ row.is_approved = FALSE
    BY DEF ReviewRow
  <2>2. Begin(w, Saving(r, row))
    BY <1>3 DEF CreateReview
  <2> HIDE DEF row
  <2> QED BY <1>1, <2>1, <2>2, SaveBegins
<1> QED BY <1>2, <1>3

\* Only a product is deleted together with no other row but its reviews.
LEMMA DeletionRequests ==
  ASSUME IInv, NEW w \in Workers,
         \/ \E c \in Categories : DeleteCategory(w, c)
         \/ \E b \in Brands : DeleteBrand(w, b)
         \/ \E p \in Products : DeleteProduct(w, p)
         \/ \E r \in Reviews : DeleteReview(w, r)
  PROVE  IInv'
<1>1. ASSUME NEW c \in Categories, DeleteCategory(w, c)
      PROVE  IInv'
  <2>1. Subtree(c) \in SUBSET Ids /\ Subtree(c) \cap Products = {}
    BY IdsAreDisjoint DEF Subtree, Ids
  <2>2. Begin(w, Deleting(Subtree(c)))
    BY <1>1 DEF DeleteCategory
  <2> QED BY <2>1, <2>2, DeleteBegins
<1>2. ASSUME NEW b \in Brands, DeleteBrand(w, b)
      PROVE  IInv'
  BY <1>2, DeleteBegins, IdsAreDisjoint DEF DeleteBrand, Ids
<1>3. ASSUME NEW p \in Products, DeleteProduct(w, p)
      PROVE  IInv'
  BY <1>3, DeleteBegins DEF DeleteProduct, Ids
<1>4. ASSUME NEW r \in Reviews, DeleteReview(w, r)
      PROVE  IInv'
  BY <1>4, DeleteBegins, IdsAreDisjoint DEF DeleteReview, Ids
<1> QED BY <1>1, <1>2, <1>3, <1>4

-----------------------------------------------------------------------------
(***************************************************************************)
(* Requests that end.                                                      *)
(***************************************************************************)
LEMMA IdleKnows == Knows(Idle)
BY DEF Knows, Idle

\* What a worker is left with when its request ends.
LEMMA EndKeeps ==
  ASSUME IInv, NEW w \in Workers, job' = [job EXCEPT ![w] = Idle], approved \subseteq approved'
  PROVE  job' \in [Workers -> Job] /\ \A v \in Workers : Knows(job[v])'
<1>1. job' \in [Workers -> Job]
  BY KindsAreJobs DEF IInv, TypeOK
<1>2. \A v \in Workers : job[v]' = Idle \/ job[v]' = job[v]
  BY DEF IInv, TypeOK
<1>3. \A v \in Workers : Knows(job[v]) /\ Knows(Idle)
  BY IdleKnows DEF IInv
<1>4. ASSUME NEW v \in Workers
      PROVE  Knows(job[v])'
  <2> SUFFICES ASSUME NEW j, j = job'[v], Knows(j)
               PROVE  Knows(job[v])'
    BY <1>2, <1>3, <1>4
  <2> QED BY DEF Knows
<1> QED BY <1>1, <1>4

\* Each part of IInv in terms of the rows that are left and of those that are new.
LEMMA RowsKeep ==
  ASSUME IInv,
         Live' \subseteq Ids,
         \A id \in Live' : rows'[id] \in RowOf(id),
         ReferencesOK',
         KeysApart',
         ApprovalsOK',
         ordered' \subseteq Products \cap Live',
         approved' \subseteq Reviews,
         job' \in [Workers -> Job],
         \A v \in Workers : Knows(job[v])'
  PROVE  IInv'
<1>1. /\ \A c \in Categories \cap Live' : rows'[c].parent \in Live' \cup {None}
      /\ \A p \in Products \cap Live' : {rows'[p].category, rows'[p].brand} \subseteq Live'
      /\ \A r \in Reviews \cap Live' : rows'[r].product \in Live'
  BY ReferencesOfTables DEF ReferencesOK
<1> QED BY <1>1 DEF IInv, TypeOK

LEMMA ReferencesNow == IInv => ReferencesOK
BY TypesAndReferences DEF IInv, TypeOK

\* One row is written that the indexes and the foreign keys let pass.
LEMMA WriteKeeps ==
  ASSUME IInv, NEW w \in Workers, NEW id \in Ids, NEW row \in RowOf(id),
         id \in Reviews /\ row.is_approved => id \in approved,
         CanSave(id, row),
         Live' = Live \cup {id},
         \A x \in Live' : rows'[x] = IF x = id THEN row ELSE rows[x],
         ordered' \subseteq ordered \cup (Products \cap Live'),
         job' = [job EXCEPT ![w] = Idle],
         approved' = approved
  PROVE  IInv'
<1>1. Live' \subseteq Ids /\ \A x \in Live' : rows'[x] \in RowOf(x)
  BY DEF IInv, TypeOK
<1>2. ReferencesOK'
  BY ReferencesNow DEF ReferencesOK, CanSave
<1>3. KeysApart'
  <2> SUFFICES ASSUME NEW x \in Live', NEW y \in Live', x # y
               PROVE  Keys(x, rows'[x]) \cap Keys(y, rows'[y]) = {}
    BY DEF KeysApart
  <2>1. \A z \in Live \ {id} : Keys(z, rows[z]) \cap Keys(id, row) = {}
    BY DEF CanSave
  <2>2. CASE x = id
    BY <2>1, <2>2
  <2>3. CASE y = id
    BY <2>1, <2>3
  <2>4. CASE x # id /\ y # id
    BY <2>4 DEF IInv, KeysApart
  <2> QED BY <2>2, <2>3, <2>4
<1>4. ApprovalsOK'
  BY DEF IInv, ApprovalsOK
<1>5. ordered' \subseteq Products \cap Live' /\ approved' \subseteq Reviews
  BY DEF IInv, TypeOK
<1>6. job' \in [Workers -> Job] /\ \A v \in Workers : Knows(job[v])'
  BY EndKeeps
<1> QED BY <1>1, <1>2, <1>3, <1>4, <1>5, <1>6, RowsKeep

LEMMA SaveKeeps ==
  ASSUME IInv, NEW w \in Workers, Save(w)
  PROVE  IInv'
<1>1. PICK id, row : id = job[w].id /\ row = job[w].row
  OBVIOUS
<1>2. job[w] \in Job /\ job[w].op = "save" /\ Knows(job[w])
  BY DEF Save, IInv, TypeOK
<1>3. id \in Ids /\ row \in RowOf(id)
  BY <1>1, <1>2, JobKinds
<1>4. id \in Reviews /\ row.is_approved => id \in approved
  BY <1>1, <1>2 DEF Knows
<1>5. CanSave(id, row) /\ rows' = [x \in Live \cup {id} |-> IF x = id THEN row ELSE rows[x]]
  BY <1>1 DEF Save
<1>6. Live' = Live \cup {id} /\ \A x \in Live' : rows'[x] = IF x = id THEN row ELSE rows[x]
  BY <1>5 DEF Live
<1>7. ordered' = ordered /\ approved' = approved /\ job' = [job EXCEPT ![w] = Idle]
  BY DEF Save
<1> QED BY <1>3, <1>4, <1>5, <1>6, <1>7, WriteKeeps

LEMMA SaveOrderKeeps ==
  ASSUME IInv, NEW w \in Workers, SaveOrder(w)
  PROVE  IInv'
<1>1. PICK p, row : p = job[w].id /\ row = job[w].row
  OBVIOUS
<1>2. job[w] \in Job /\ job[w].op = "order"
  BY DEF SaveOrder, IInv, TypeOK
<1>3. p \in Products /\ row \in ProductRow
  BY <1>1, <1>2, JobKinds
<1>4. p \in Ids /\ p \notin Reviews /\ row \in RowOf(p)
  BY <1>3, RowsOfTables, IdsAreDisjoint DEF Ids
<1>5. p \in Live /\ CanSave(p, row) /\ rows' = [rows EXCEPT ![p] = row]
  BY <1>1 DEF SaveOrder
<1>6. Live' = Live \cup {p} /\ \A x \in Live' : rows'[x] = IF x = p THEN row ELSE rows[x]
  BY <1>5 DEF Live
<1>7. ordered' = ordered \cup {p} /\ approved' = approved /\ job' = [job EXCEPT ![w] = Idle]
  BY <1>1 DEF SaveOrder
<1> QED BY <1>3, <1>4, <1>5, <1>6, <1>7, WriteKeeps

LEMMA DeleteKeeps ==
  ASSUME IInv, NEW w \in Workers, Delete(w)
  PROVE  IInv'
<1>1. PICK gone : /\ gone = job[w].ids \cup (Referring(job[w].ids) \cap Reviews)
                  /\ gone \cap ordered = {}
                  /\ Referring(gone) \subseteq gone
                  /\ rows' = Restrict(rows, Live \ gone)
  BY DEF Delete
<1>2. Live' = Live \ gone /\ \A x \in Live' : rows'[x] = rows[x]
  BY <1>1 DEF Live, Restrict
<1>3. ReferencesOK'
  BY <1>1, <1>2, ReferencesNow DEF ReferencesOK, Referring
<1>4. KeysApart'
  BY <1>2 DEF IInv, KeysApart
<1>5. ordered' = ordered /\ approved' = approved /\ job' = [job EXCEPT ![w] = Idle]
  BY DEF Delete
<1>6. ApprovalsOK'
  BY <1>2, <1>5 DEF IInv, ApprovalsOK
<1>7. Live' \subseteq Ids /\ \A x \in Live' : rows'[x] \in RowOf(x)
  BY <1>2 DEF IInv, TypeOK
<1>8. ordered' \subseteq Products \cap Live' /\ approved' \subseteq Reviews
  BY <1>1, <1>2, <1>5 DEF IInv, TypeOK
<1>9. job' \in [Workers -> Job] /\ \A v \in Workers : Knows(job[v])'
  BY <1>5, EndKeeps
<1> QED BY <1>3, <1>4, <1>6, <1>7, <1>8, <1>9, RowsKeep

LEMMA FailKeeps ==
  ASSUME IInv, NEW w \in Workers, Fail(w)
  PROVE  IInv'
BY BeginKeeps, KindsAreJobs, IdleKnows DEF Fail

\* An approval changes one column of a row that is there, and no key or reference.
LEMMA ApproveKeeps ==
  ASSUME IInv, NEW r \in Reviews, Approve(r)
  PROVE  IInv'
<1>1. r \in Live /\ rows[r] \in ReviewRow /\ r \in Ids /\ RowOf(r) = ReviewRow
  BY RowsOfTables DEF Approve, IInv, TypeOK
<1>2. PICK row : row = [rows[r] EXCEPT !.is_approved = TRUE]
  OBVIOUS
<1>3. row \in ReviewRow /\ row.product = rows[r].product /\ row.user = rows[r].user
  BY <1>1, <1>2 DEF ReviewRow
<1>4. rows' = [rows EXCEPT ![r] = row]
  BY <1>2 DEF Approve
<1>5. Live' = Live /\ \A x \in Live : rows'[x] = IF x = r THEN row ELSE rows[x]
  BY <1>4 DEF Live
<1>6. \A x \in Live : Keys(x, rows'[x]) = Keys(x, rows[x])
  <2>1. Keys(r, row) = Keys(r, rows[r])
    BY <1>3, IdsAreDisjoint DEF Keys, ReviewKeys, Ids
  <2> QED BY <1>5, <2>1
<1>7. \A x \in Live : References(x, rows'[x]) = References(x, rows[x])
  <2>1. References(r, row) = References(r, rows[r])
    BY <1>3, ReferencesOfTables
  <2> QED BY <1>5, <2>1
<1>8. KeysApart'
  BY <1>5, <1>6 DEF IInv, KeysApart
<1>9. ReferencesOK'
  BY <1>5, <1>7, ReferencesNow DEF ReferencesOK
<1>10. approved' = approved \cup {r} /\ ordered' = ordered /\ job' = job
  BY DEF Approve
<1>11. ApprovalsOK'
  BY <1>5, <1>10 DEF IInv, ApprovalsOK
<1>12. Live' \subseteq Ids /\ \A x \in Live' : rows'[x] \in RowOf(x)
  BY <1>1, <1>3, <1>5 DEF IInv, TypeOK
<1>13. ordered' \subseteq Products \cap Live' /\ approved' \subseteq Reviews
       /\ job' \in [Workers -> Job]
  BY <1>5, <1>10 DEF IInv, TypeOK
<1>14. \A v \in Workers : Knows(job[v])'
  BY <1>10 DEF IInv, Knows
<1> QED BY <1>8, <1>9, <1>11, <1>12, <1>13, <1>14, RowsKeep

-----------------------------------------------------------------------------
(***************************************************************************)
(* The theorems.                                                           *)
(***************************************************************************)
LEMMA NextIInv == IInv /\ [Next]_vars => IInv'
<1> SUFFICES ASSUME IInv, [Next]_vars PROVE IInv'
  OBVIOUS
<1>1. ASSUME NEW w \in Workers, NEW c \in Categories, NEW n \in CategoryNames,
             NEW p \in Categories \cup {None},
             CreateCategory(w, c, n, p) \/ EditCategory(w, c, n, p) \/ UpdateCategory(w, c, n, p)
      PROVE  IInv'
  BY <1>1, CategoryRequests
<1>2. ASSUME NEW w \in Workers, NEW b \in Brands, NEW n \in BrandNames,
             CreateBrand(w, b, n) \/ EditBrand(w, b, n) \/ UpdateBrand(w, b, n)
      PROVE  IInv'
  BY <1>2, BrandRequests
<1>3. ASSUME NEW w \in Workers, NEW p \in Products, NEW k \in Skus, NEW c \in Categories,
             NEW b \in Brands, CreateProduct(w, p, k, c, b) \/ EditProduct(w, p, k, c, b)
      PROVE  IInv'
  BY <1>3, ProductRequests
<1>4. ASSUME NEW w \in Workers, NEW r \in Reviews, NEW p \in Products,
             EditReview(w, r, p) \/ \E u \in Users : CreateReview(w, r, p, u)
      PROVE  IInv'
  BY <1>4, ReviewRequests
<1>5. ASSUME NEW w \in Workers,
             \/ \E c \in Categories : DeleteCategory(w, c)
             \/ \E b \in Brands : DeleteBrand(w, b)
             \/ \E p \in Products : DeleteProduct(w, p)
             \/ \E r \in Reviews : DeleteReview(w, r)
      PROVE  IInv'
  BY <1>5, DeletionRequests
<1>6. ASSUME NEW w \in Workers, NEW p \in Products, Order(w, p)
      PROVE  IInv'
  BY <1>6, OrderRequests
<1>7. ASSUME NEW w \in Workers, Save(w) \/ SaveOrder(w) \/ Delete(w) \/ Fail(w)
      PROVE  IInv'
  BY <1>7, SaveKeeps, SaveOrderKeeps, DeleteKeeps, FailKeeps
<1>8. ASSUME NEW r \in Reviews, Approve(r)
      PROVE  IInv'
  BY <1>8, ApproveKeeps
<1>9. CASE UNCHANGED vars
  BY <1>9 DEF vars, IInv, TypeOK, KeysApart, ApprovalsOK, Knows, Live
<1> QED BY <1>1, <1>2, <1>3, <1>4, <1>5, <1>6, <1>7, <1>8, <1>9 DEF Next

\* IInv holds in every state, whatever requests race or fail.
THEOREM Inductive == Spec => []IInv
BY InitIInv, NextIInv, PTL DEF Spec

\* Rows are whole and refer to rows that exist: the checks that the services make on stale
\* reads do not matter, those of the database at the commit do.
THEOREM TypeCorrect == Spec => []TypeOK
<1>1. IInv => TypeOK
  BY DEF IInv
<1> QED BY <1>1, Inductive, PTL

\* A slug leads to one category and to one brand, although PATCH keeps a renamed row's slug.
THEOREM SlugsAreUnique == Spec => []SlugsIdentify
<1>1. IInv => SlugsIdentify
  <2> SUFFICES ASSUME IInv, NEW table \in {Categories, Brands},
                      NEW x \in table \cap Live, NEW y \in table \cap Live,
                      rows[x].slug = rows[y].slug, x # y
               PROVE  FALSE
    BY DEF SlugsIdentify
  <2>1. Keys(x, rows[x]) \cap Keys(y, rows[y]) = {}
    BY DEF IInv, KeysApart
  <2> QED BY <2>1, KeysOfTables
<1> QED BY <1>1, Inductive, PTL

\* A customer has one review of a product, also when an edit brings a deleted one back.
THEOREM ReviewsAreUnique == Spec => []OneReviewEach
<1>1. IInv => OneReviewEach
  <2> SUFFICES ASSUME IInv, NEW r \in Reviews \cap Live, NEW s \in Reviews \cap Live, r # s,
                      rows[r].product = rows[s].product, rows[r].user = rows[s].user
               PROVE  FALSE
    BY DEF OneReviewEach
  <2>1. Keys(r, rows[r]) \cap Keys(s, rows[s]) = {}
    BY DEF IInv, KeysApart
  <2>2. /\ <<"review", rows[r].product, rows[r].user>> \in Keys(r, rows[r])
        /\ <<"review", rows[s].product, rows[s].user>> \in Keys(s, rows[s])
    BY KeysOfTables
  <2> QED BY <2>1, <2>2
<1> QED BY <1>1, Inductive, PTL

\* What the public list shows was approved by staff, although edits save the flag that they
\* have read and may bring a review back with it.
THEOREM PublicIsApproved == Spec => []PublicWasApproved
<1>1. IInv => PublicWasApproved
  BY DEF IInv, ApprovalsOK, PublicWasApproved, PublicReviews
<1> QED BY <1>1, Inductive, PTL

\* Only Delete removes rows.
LEMMA OnlyDeleteRemoves ==
  ASSUME IInv, [Next]_vars
  PROVE  Live \subseteq Live' \/ \E w \in Workers : Delete(w)
<1>1. ASSUME UNCHANGED rows
      PROVE  Live \subseteq Live'
  BY <1>1 DEF Live
<1>2. ASSUME NEW w \in Workers, NEW j, Begin(w, j)
      PROVE  UNCHANGED rows
  BY <1>2 DEF Begin
<1>3. ASSUME NEW w \in Workers, Save(w) \/ SaveOrder(w) \/ Fail(w)
      PROVE  Live \subseteq Live'
  BY <1>3 DEF Save, SaveOrder, Fail, Live
<1>4. ASSUME NEW r \in Reviews, Approve(r)
      PROVE  Live \subseteq Live'
  BY <1>4 DEF Approve, Live
<1>5. CASE UNCHANGED vars
  BY <1>1, <1>5 DEF vars
<1>6. ASSUME NEW w \in Workers,
             \/ \E c \in Categories, n \in CategoryNames, p \in Categories \cup {None} :
                  CreateCategory(w, c, n, p) \/ EditCategory(w, c, n, p) \/ UpdateCategory(w, c, n, p)
             \/ \E b \in Brands, n \in BrandNames :
                  CreateBrand(w, b, n) \/ EditBrand(w, b, n) \/ UpdateBrand(w, b, n)
             \/ \E p \in Products, k \in Skus, c \in Categories, b \in Brands :
                  CreateProduct(w, p, k, c, b) \/ EditProduct(w, p, k, c, b)
      PROVE  Live \subseteq Live'
  <2>1. \E j : Begin(w, j)
    BY <1>6 DEF CreateCategory, EditCategory, UpdateCategory, CreateBrand, EditBrand, UpdateBrand,
                CreateProduct, EditProduct
  <2> QED BY <1>1, <1>2, <2>1
<1>7. ASSUME NEW w \in Workers,
             \/ \E r \in Reviews, p \in Products :
                  EditReview(w, r, p) \/ \E u \in Users : CreateReview(w, r, p, u)
             \/ \E c \in Categories : DeleteCategory(w, c)
             \/ \E b \in Brands : DeleteBrand(w, b)
             \/ \E p \in Products : Order(w, p) \/ DeleteProduct(w, p)
             \/ \E r \in Reviews : DeleteReview(w, r)
      PROVE  Live \subseteq Live'
  <2>1. \E j : Begin(w, j)
    BY <1>7 DEF EditReview, CreateReview, DeleteCategory, DeleteBrand, Order, DeleteProduct,
                DeleteReview
  <2> QED BY <1>1, <1>2, <2>1
<1>8. CASE Next
  BY <1>3, <1>4, <1>6, <1>7, <1>8, Zenon DEF Next
<1> QED BY <1>5, <1>8

\* A product is deleted by itself: what is collected below a category has none, and a product
\* that is put there later makes the deletion fail.
THEOREM ProductsAreNotCollected == Spec => ProductsGoAlone
<1> DEFINE Alone ==
      \A p \in Products \cap Live : p \notin Live' =>
        \E w \in Workers : job[w] = Deleting({p}) /\ Live \ Live' \subseteq {p} \cup Reviews
<1>1. IInv /\ [Next]_vars => Alone
  <2> SUFFICES ASSUME IInv, [Next]_vars, NEW p \in Products \cap Live, p \notin Live'
               PROVE  \E w \in Workers :
                        job[w] = Deleting({p}) /\ Live \ Live' \subseteq {p} \cup Reviews
    OBVIOUS
  <2>1. PICK w \in Workers : Delete(w)
    BY OnlyDeleteRemoves
  <2>2. PICK ids, gone : /\ ids = job[w].ids
                         /\ gone = ids \cup (Referring(ids) \cap Reviews)
                         /\ rows' = Restrict(rows, Live \ gone)
    BY <2>1 DEF Delete
  <2>3. Live' = Live \ gone
    BY <2>2 DEF Live, Restrict
  <2>4. p \in ids
    BY <2>2, <2>3, IdsAreDisjoint
  <2>5. job[w] \in Job /\ job[w].op = "delete" /\ Knows(job[w])
    BY <2>1 DEF Delete, IInv, TypeOK
  <2>6. ids = {p}
    BY <2>2, <2>4, <2>5 DEF Knows
  <2>7. job[w] = Deleting({p})
    BY <2>2, <2>5, <2>6, JobKinds
  <2> QED BY <2>2, <2>3, <2>6, <2>7
<1> HIDE DEF Alone
<1>2. Spec => [][Alone]_vars
  BY <1>1, Inductive, PTL DEF Spec
<1> QED BY <1>2 DEF ProductsGoAlone, Alone
=============================================================================
