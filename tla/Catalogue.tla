----------------------------- MODULE Catalogue -----------------------------
(***************************************************************************)
(* Categories, brands, products and their reviews: rows that refer to each *)
(* other, edited by staff and customers at the same time.                  *)
(*                                                                         *)
(* A request reads, and later writes and commits in one step: a save() of  *)
(* the whole instance, or a delete() of the rows that were collected.  What *)
(* the code checked is what it read; what the database checks at the commit *)
(* are its unique indexes and foreign keys.                                *)
(***************************************************************************)
EXTENDS Functions

CONSTANTS
  Categories, Brands, Products, Reviews,   \* ids of rows: bounds
  CategoryNames, BrandNames,
  Slugs,
  SlugOf,    \* the slug of each name, slugify: it ignores case
  Skus,      \* a product's name and slug are left out
  Users,
  Workers,
  None

Ids == Categories \cup Brands \cup Products \cup Reviews

ASSUME SlugOfAssumption == SlugOf \in [CategoryNames \cup BrandNames -> Slugs]
ASSUME IdsAreDisjoint ==
  /\ Categories \cap (Brands \cup Products \cup Reviews) = {}
  /\ Brands \cap (Products \cup Reviews) = {}
  /\ Products \cap Reviews = {}
  /\ None \notin Ids

VARIABLES
  rows,      \* the committed rows, a function on the ids that exist
  ordered,   \* the products that an order item refers to
  approved,  \* history: the reviews that staff has approved
  job        \* [Workers -> Job]

vars == <<rows, ordered, approved, job>>

CategoryRow == [name : CategoryNames, slug : Slugs, parent : Categories \cup {None}]
BrandRow == [name : BrandNames, slug : Slugs]
ProductRow == [sku : Skus, category : Categories, brand : Brands]
ReviewRow == [product : Products, user : Users, is_approved : BOOLEAN]

RowOf(id) ==
  CASE id \in Categories -> CategoryRow
    [] id \in Brands -> BrandRow
    [] id \in Products -> ProductRow
    [] id \in Reviews -> ReviewRow

\* A request that will save an instance, order a product (and save it, with its stock) or
\* delete what it has collected.
Idle == [op |-> "none"]
Saving(id, row) == [op |-> "save", id |-> id, row |-> row]
Ordering(p, row) == [op |-> "order", id |-> p, row |-> row]
Deleting(ids) == [op |-> "delete", ids |-> ids]
Job ==
  {Idle} \cup (UNION {{Saving(id, row) : row \in RowOf(id)} : id \in Ids})
    \cup {Ordering(p, row) : p \in Products, row \in ProductRow}
    \cup {Deleting(ids) : ids \in SUBSET Ids}

Init ==
  /\ rows = <<>>
  /\ ordered = {}
  /\ approved = {}
  /\ job = [w \in Workers |-> Idle]

Live == DOMAIN rows

\* An id that nobody holds, and that was not a review's with a history.
Fresh(id) ==
  /\ id \notin Live \cup approved
  /\ \A w \in Workers :
       /\ job[w].op \in {"save", "order"} => job[w].id # id
       /\ job[w].op = "delete" => id \notin job[w].ids

Begin(w, j) ==
  /\ job[w] = Idle
  /\ job' = [job EXCEPT ![w] = j]
  /\ UNCHANGED <<rows, ordered, approved>>

-----------------------------------------------------------------------------
(***************************************************************************)
(* Unique indexes, foreign keys and what a deletion collects.              *)
(***************************************************************************)
ShelfKeys(table, row) == {<<table, "name", row.name>>, <<table, "slug", row.slug>>}

\* A mutant of CategoryKeys: slugs are not unique.
CategoryNameOnly(row) == {<<"category", "name", row.name>>}

CategoryKeys(row) == ShelfKeys("category", row)

BrandKeys(row) == ShelfKeys("brand", row)

ProductKeys(row) == {<<"sku", row.sku>>}

\* A mutant of ReviewKeys: no UniqueConstraint.
NoReviewKeys(row) == {}

ReviewKeys(row) == {<<"review", row.product, row.user>>}

Keys(id, row) ==
  CASE id \in Categories -> CategoryKeys(row)
    [] id \in Brands -> BrandKeys(row)
    [] id \in Products -> ProductKeys(row)
    [] id \in Reviews -> ReviewKeys(row)

\* A mutant of References: a product's brand is a mere number.
ReferencesButBrands(id, row) ==
  CASE id \in Categories -> {row.parent} \ {None}
    [] id \in Brands -> {}
    [] id \in Products -> {row.category}
    [] id \in Reviews -> {row.product}

References(id, row) ==
  CASE id \in Categories -> {row.parent} \ {None}
    [] id \in Brands -> {}
    [] id \in Products -> {row.category, row.brand}
    [] id \in Reviews -> {row.product}

Referring(ids) == {id \in Live : References(id, rows[id]) \cap ids # {}}

\* The category and all below it, whether or not the parents go round in a circle.
Subtree(c) ==
  {d \in Categories \cap Live :
     \A S \in SUBSET (Categories \cap Live) :
       c \in S /\ Referring(S) \cap Categories \subseteq S => d \in S}

-----------------------------------------------------------------------------
(***************************************************************************)
(* Categories and brands.                                                  *)
(***************************************************************************)
\* name__iexact: names that differ only in case have the same slug.  Those that have
\* the same slug and differ otherwise pass here, and the INSERT refuses them.
NameTaken(table, n, id) == \E x \in (table \cap Live) \ {id} : SlugOf[rows[x].name] = SlugOf[n]

ParentExists(p) == p = None \/ p \in Categories \cap Live

CreateCategory(w, c, n, p) ==
  /\ Fresh(c)
  /\ ~ NameTaken(Categories, n, None)
  /\ ParentExists(p)
  /\ Begin(w, Saving(c, [name |-> n, slug |-> SlugOf[n], parent |-> p]))

\* PATCH and PUT save the serializer, and not through the service: names are compared
\* exactly, the slug stays, and any category may become the parent.
EditCategory(w, c, n, p) ==
  /\ c \in Live
  /\ \A x \in (Categories \cap Live) \ {c} : rows[x].name # n
  /\ ParentExists(p)
  /\ Begin(w, Saving(c, [rows[c] EXCEPT !.name = n, !.parent = p]))

\* The service's update, which no view calls.
UpdateCategory(w, c, n, p) ==
  /\ c \in Live
  /\ ~ NameTaken(Categories, n, c)
  /\ ParentExists(p) /\ p # c
  /\ Begin(w, Saving(c, [name |-> n, slug |-> SlugOf[n], parent |-> p]))

\* A mutant of DeleteCategory: Product.category with on_delete=CASCADE.
DeleteCategoryAndProducts(w, c) ==
  LET tree == Subtree(c) IN
  /\ c \in Live
  /\ Begin(w, Deleting(tree \cup (Referring(tree) \cap Products)))

\* instance.delete() first collects what goes with the instance, and is refused if a product
\* is in the way (PROTECT).
DeleteCategory(w, c) ==
  LET tree == Subtree(c) IN
  /\ c \in Live
  /\ Referring(tree) \cap Products = {}
  /\ Begin(w, Deleting(tree))

CreateBrand(w, b, n) ==
  /\ Fresh(b)
  /\ ~ NameTaken(Brands, n, None)
  /\ Begin(w, Saving(b, [name |-> n, slug |-> SlugOf[n]]))

EditBrand(w, b, n) ==
  /\ b \in Live
  /\ \A x \in (Brands \cap Live) \ {b} : rows[x].name # n
  /\ Begin(w, Saving(b, [rows[b] EXCEPT !.name = n]))

\* The service's update, which no view calls.
UpdateBrand(w, b, n) ==
  /\ b \in Live
  /\ ~ NameTaken(Brands, n, b)
  /\ Begin(w, Saving(b, [name |-> n, slug |-> SlugOf[n]]))

DeleteBrand(w, b) ==
  /\ b \in Live
  /\ Referring({b}) \cap Products = {}
  /\ Begin(w, Deleting({b}))

-----------------------------------------------------------------------------
(***************************************************************************)
(* Products, and the orders that refer to them.                            *)
(***************************************************************************)
SkuTaken(k, id) == \E x \in (Products \cap Live) \ {id} : rows[x].sku = k

ShelvesExist(c, b) == c \in Categories \cap Live /\ b \in Brands \cap Live

CreateProduct(w, p, k, c, b) ==
  /\ Fresh(p)
  /\ ~ SkuTaken(k, None)
  /\ ShelvesExist(c, b)
  /\ Begin(w, Saving(p, [sku |-> k, category |-> c, brand |-> b]))

\* PATCH and PUT, and the service's update, which no view calls.
EditProduct(w, p, k, c, b) ==
  /\ p \in Live
  /\ ~ SkuTaken(k, p)
  /\ ShelvesExist(c, b)
  /\ Begin(w, Saving(p, [sku |-> k, category |-> c, brand |-> b]))

\* Its reviews are found when they are deleted (see Delete).
DeleteProduct(w, p) ==
  /\ p \in Live \ ordered
  /\ Begin(w, Deleting({p}))

\* A checkout reads the product with the cart's items.
Order(w, p) == p \in Live /\ Begin(w, Ordering(p, rows[p]))

-----------------------------------------------------------------------------
(***************************************************************************)
(* Reviews.                                                                *)
(***************************************************************************)
Reviewed(p, u) == \E r \in Reviews \cap Live : rows[r].product = p /\ rows[r].user = u

\* The list of a product's reviews.
PublicReviews(p) == {r \in Reviews \cap Live : rows[r].product = p /\ rows[r].is_approved}

CreateReview(w, r, p, u) ==
  /\ Fresh(r)
  /\ p \in Live
  /\ ~ Reviewed(p, u)
  /\ Begin(w, Saving(r, [product |-> p, user |-> u, is_approved |-> FALSE]))

\* A mutant of EditedReview: is_approved is not among the read-only fields.
SelfApproved(r, p) == [rows[r] EXCEPT !.product = p, !.is_approved = TRUE]

\* PATCH changes the text only.  PUT is the generic update of ReviewSerializer, in which
\* the product is writable too.
EditedReview(r, p) == [rows[r] EXCEPT !.product = p]

EditReview(w, r, p) ==
  /\ {r, p} \subseteq Live
  /\ Begin(w, Saving(r, EditedReview(r, p)))

\* update_fields=["is_approved", ...]: one column, of a row that still exists.
Approve(r) ==
  /\ r \in Live
  /\ rows' = [rows EXCEPT ![r].is_approved = TRUE]
  /\ approved' = approved \cup {r}
  /\ UNCHANGED <<ordered, job>>

DeleteReview(w, r) == r \in Live /\ Begin(w, Deleting({r}))

-----------------------------------------------------------------------------
(***************************************************************************)
(* The writes.                                                             *)
(***************************************************************************)
\* What the unique indexes and the foreign keys let pass.
CanSave(id, row) ==
  /\ \A x \in Live \ {id} : Keys(x, rows[x]) \cap Keys(id, row) = {}
  /\ References(id, row) \subseteq Live

\* save() is an UPDATE, and an INSERT if no row was updated: a row that was deleted
\* since it was read comes back.
Save(w) ==
  LET id == job[w].id IN
  /\ job[w].op = "save"
  /\ CanSave(id, job[w].row)
  /\ rows' = [x \in Live \cup {id} |-> IF x = id THEN job[w].row ELSE rows[x]]
  /\ job' = [job EXCEPT ![w] = Idle]
  /\ UNCHANGED <<ordered, approved>>

\* The INSERT of the order item and decrease_stock, which refreshes the stock only and
\* saves every column, with the category and the brand that were read.
SaveOrder(w) ==
  LET p == job[w].id IN
  /\ job[w].op = "order"
  /\ p \in Live
  /\ CanSave(p, job[w].row)
  /\ rows' = [rows EXCEPT ![p] = job[w].row]
  /\ ordered' = ordered \cup {p}
  /\ job' = [job EXCEPT ![w] = Idle]
  /\ UNCHANGED approved

\* The reviews of a product are deleted by their product_id and not by their ids; what
\* else refers to the rows makes the commit fail.
Delete(w) ==
  LET ids == job[w].ids
      gone == ids \cup (Referring(ids) \cap Reviews) IN
  /\ job[w].op = "delete"
  /\ gone \cap ordered = {}
  /\ Referring(gone) \subseteq gone
  /\ rows' = Restrict(rows, Live \ gone)
  /\ job' = [job EXCEPT ![w] = Idle]
  /\ UNCHANGED <<ordered, approved>>

\* An error response, a constraint of the database or a process that dies.
Fail(w) ==
  /\ job[w] # Idle
  /\ job' = [job EXCEPT ![w] = Idle]
  /\ UNCHANGED <<rows, ordered, approved>>

Next ==
  \/ \E w \in Workers :
       \/ \E c \in Categories, n \in CategoryNames, p \in Categories \cup {None} :
            CreateCategory(w, c, n, p) \/ EditCategory(w, c, n, p) \/ UpdateCategory(w, c, n, p)
       \/ \E b \in Brands, n \in BrandNames :
            CreateBrand(w, b, n) \/ EditBrand(w, b, n) \/ UpdateBrand(w, b, n)
       \/ \E p \in Products, k \in Skus, c \in Categories, b \in Brands :
            CreateProduct(w, p, k, c, b) \/ EditProduct(w, p, k, c, b)
       \/ \E r \in Reviews, p \in Products :
            EditReview(w, r, p) \/ \E u \in Users : CreateReview(w, r, p, u)
       \/ \E c \in Categories : DeleteCategory(w, c)
       \/ \E b \in Brands : DeleteBrand(w, b)
       \/ \E p \in Products : Order(w, p) \/ DeleteProduct(w, p)
       \/ \E r \in Reviews : DeleteReview(w, r)
       \/ Save(w) \/ SaveOrder(w) \/ Delete(w) \/ Fail(w)
  \/ \E r \in Reviews : Approve(r)

Spec == Init /\ [][Next]_vars

-----------------------------------------------------------------------------
(***************************************************************************)
(* Properties.                                                             *)
(***************************************************************************)
\* Rows are whole and what they refer to exists, whatever is deleted, moved or brought
\* back under whom: no product without its category or brand, no item of an order
\* without its product.
TypeOK ==
  /\ Live \subseteq Ids
  /\ \A id \in Live : rows[id] \in RowOf(id)
  /\ \A c \in Categories \cap Live : rows[c].parent \in Live \cup {None}
  /\ \A p \in Products \cap Live : {rows[p].category, rows[p].brand} \subseteq Live
  /\ \A r \in Reviews \cap Live : rows[r].product \in Live
  /\ ordered \subseteq Products \cap Live
  /\ approved \subseteq Reviews
  /\ job \in [Workers -> Job]

\* The detail views look a category or a brand up by its slug (lookup_field), which is one
\* row at most, however creations and renamings race.
SlugsIdentify ==
  \A table \in {Categories, Brands} : \A x, y \in table \cap Live :
    rows[x].slug = rows[y].slug => x = y

\* "A user may leave one review per product": also when an edit that brings a deleted review
\* back races the writing of another.
OneReviewEach ==
  \A r, s \in Reviews \cap Live :
    rows[r].product = rows[s].product /\ rows[r].user = rows[s].user => r = s

\* "only approved reviews are public": a review in the public list is one that staff has
\* approved, also when edits save the flag they have read.
PublicWasApproved == \A p \in Products : PublicReviews(p) \subseteq approved

\* Deleting a category with all that is below it takes no product with it, even one that is
\* put there between the collection and the deletion: a product goes by itself.
ProductsGoAlone ==
  [][\A p \in Products \cap Live : p \notin Live' =>
       \E w \in Workers : job[w] = Deleting({p}) /\ Live \ Live' \subseteq {p} \cup Reviews]_vars
=============================================================================
