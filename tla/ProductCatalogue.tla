---------------------------- MODULE ProductCatalogue ----------------------------
(***************************************************************************)
(* The categories of the shop, the products of the three kinds in them, the *)
(* options of products, the cart rows that point to options, and the         *)
(* customers' reviews: additions one by one and in bulk, changes, the soft   *)
(* deletion, and the slugs and titles that must not clash.                   *)
(*                                                                         *)
(* Each query of a request is a step, the search for a free slug included:   *)
(* it asks for one candidate at a time.  The product API finds the kind of   *)
(* an id, the kind's service finds the record and writes by id.  The other   *)
(* columns of products are in GiftCardStock and GameCatalogue; descriptions, *)
(* images and sort orders are left out.                                      *)
(***************************************************************************)
EXTENDS Integers, Sequences, FiniteSets, Functions

CONSTANTS
  Requests, Users,
  Titles,        \* titles of categories
  Fold,          \* [Titles -> STRING]: the title in lower case
  Base,          \* [Titles -> Seq]: toSlug of the title, as its words
  Explicit,      \* the slugs, as words, that payloads give themselves
  Products,
  KindOf,        \* [Products -> Kinds]
  SlugOf,        \* [Products -> slugs]: the slug their payloads carry
  MaxBulk,       \* the most categories of an upload (50)
  MaxRow,        \* bound: categories ever created
  MaxSuffix,     \* bound: candidates tried for a slug
  MaxList,       \* bound: products in an upload
  MaxOption,     \* bound: options ever created
  MaxReview,     \* bound: reviews ever written
  Scenarios,     \* the values of scenario
  NoTitle, NoProduct, NoUser, NoOption

Kinds == {"GIFT_CARD", "GAME_TOP_UP", "SUBSCRIPTION"}
Ratings == {1, 5}
CategoryOps == {"addCategory", "bulkCategories", "updateCategory", "renameCategory", "deleteCategory"}
ProductOps == {"addProduct", "bulkProducts", "updateProduct", "deleteProduct", "cart"}
ReviewOps == {"review", "revise", "remove"}

\* What happens in a behaviour: the operations requests call, how many run at
\* once, the titles, explicit slugs and isActive that payloads of categories
\* carry, the products there will be, and bounds on rows and options.
Scenario ==
  [ops : SUBSET (CategoryOps \cup ProductOps \cup ReviewOps), requests : Nat,
   titles : SUBSET Titles, explicit : SUBSET Explicit, active : SUBSET BOOLEAN,
   products : SUBSET Products, rows : 0..MaxRow, options : 0..MaxOption]

ASSUME CatalogueConstants ==
  /\ DOMAIN Fold = Titles /\ DOMAIN Base = Titles
  /\ KindOf \in [Products -> Kinds] /\ DOMAIN SlugOf = Products
  /\ MaxBulk \in Nat /\ MaxRow \in Nat /\ MaxSuffix \in Nat
  /\ MaxList \in Nat /\ MaxOption \in Nat /\ MaxReview \in Nat
  /\ NoTitle \notin Titles /\ NoProduct \notin Products /\ NoUser \notin Users
  /\ \A s \in Scenarios : s \in Scenario

VARIABLES
  rows,       \* categories: id, title, slug and isActive
  lastRow,    \* the id of the last category created
  product,    \* status, NONE before the creation, whether deletedAt is set, and
              \* the id of the category, 0 for none
  options,    \* [product -> ids of its options]
  lastOption, \* the id of the last option created
  inCarts,    \* cart rows: their product and the option they point to
  reviews,    \* the reviews: id, user, product, rating
  lastReview, \* the id of the last review
  scenario,   \* fixed by the initial state
  job         \* what each request is doing

categoryVars == <<rows, lastRow>>
productVars == <<product, options, lastOption, inCarts>>
reviewVars == <<reviews, lastReview>>
vars == <<categoryVars, productVars, reviewVars, scenario, job>>

Bases == {Base[t] : t \in Titles} \cup Explicit
Slugs == Bases \cup {b \o <<n>> : b \in Bases, n \in 2..MaxSuffix}
Category == [id : 1..MaxRow, title : Titles, slug : Slugs, active : BOOLEAN]
Product == [status : {"NONE", "ACTIVE", "INACTIVE", "ARCHIVED"}, deleted : BOOLEAN,
            category : 0..MaxRow]
Review == [id : 1..MaxReview, user : Users, product : Products, rating : Ratings]
\* What a payload asks for; base is toSlug of its slug or else of its title.
Entry == [title : Titles \cup {NoTitle}, base : Bases \cup {<<>>}, active : BOOLEAN]

Idle == [step |-> "idle", entries |-> <<>>, slugs |-> <<>>, suffix |-> 1, id |-> 0,
         product |-> NoProduct, status |-> "ACTIVE", replace |-> FALSE, list |-> <<>>,
         user |-> NoUser, review |-> 0, rating |-> 1]
Steps == {"idle", "slug", "create", "title", "update", "delete",
          "upload", "find", "write", "archive", "existing", "insert", "revise", "remove"}

TypeOK ==
  /\ rows \subseteq Category /\ lastRow \in 0..MaxRow
  /\ product \in [Products -> Product]
  /\ options \in [Products -> SUBSET (1..MaxOption)] /\ lastOption \in 0..MaxOption
  /\ \A i \in inCarts : i.product \in Products /\ i.option \in (1..MaxOption) \cup {NoOption}
  /\ \A v \in reviews : v \in Review
  /\ lastReview \in 0..MaxReview /\ scenario \in Scenarios
  /\ \A r \in Requests :
       /\ job[r].step \in Steps
       /\ Range(job[r].entries) \subseteq Entry /\ Range(job[r].slugs) \subseteq Slugs

Init ==
  /\ scenario \in Scenarios
  /\ rows = {} /\ lastRow = 0
  /\ product = [p \in Products |-> [status |-> "NONE", deleted |-> FALSE, category |-> 0]]
  /\ options = [p \in Products |-> {}] /\ lastOption = 0 /\ inCarts = {}
  /\ reviews = {} /\ lastReview = 0
  /\ job = [r \in Requests |-> Idle]

At(r, step) == job[r].step = step
Begin(r, op, rec) ==
  /\ At(r, "idle") /\ op \in scenario.ops
  /\ Cardinality({q \in Requests : ~At(q, "idle")}) < scenario.requests
  /\ job' = [job EXCEPT ![r] = rec]
  /\ UNCHANGED <<categoryVars, productVars, reviewVars, scenario>>
\* Nothing comes between the steps of requests that run one by one.
Undisturbed == scenario.requests > 1 \/ \A q \in Requests : At(q, "idle")
Goto(r, step) == job' = [job EXCEPT ![r].step = step]
Done(r) == job' = [job EXCEPT ![r] = Idle]
Active == {c \in rows : c.active}

Made(p) == product[p].status # "NONE"
Found(p) == Made(p) /\ ~product[p].deleted
OnSale(p) == Found(p) /\ product[p].status = "ACTIVE"

------------------------------------------------------------------------------
(* Categories: additions *)

\* mode: "insensitive"
SameTitle(t, u) == Fold[t] = Fold[u]

\* addCategory: the title is free among the active categories.
AddCategory(r, e) ==
  /\ \A c \in Active : ~SameTitle(c.title, e.title)
  /\ Begin(r, "addCategory", [Idle EXCEPT !.step = "slug", !.entries = <<e>>])

\* bulkAddCategories: the titles differ from each other and from the active ones.
BulkAddCategories(r, es) ==
  /\ Len(es) \in 1..MaxBulk
  /\ \A i, j \in DOMAIN es : Fold[es[i].title] = Fold[es[j].title] => i = j
  /\ \A c \in Active, i \in DOMAIN es : ~SameTitle(c.title, es[i].title)
  /\ Begin(r, "bulkCategories", [Idle EXCEPT !.step = "slug", !.entries = es])

Candidate(base, n) == IF n = 1 THEN base ELSE base \o <<n>>
NextEntry(r) == job[r].entries[Len(job[r].slugs) + 1]

Taken(r, slug) ==
  \/ \E c \in rows : c.slug = slug /\ c.id # job[r].id
  \/ slug \in Range(job[r].slugs)

\* One query of the search: getAvailableSlug, or the loop of the upload.
PickSlug(r) ==
  LET j == job[r]
      slug == Candidate(NextEntry(r).base, j.suffix)
      chosen == Append(j.slugs, slug)
      last == IF j.id = 0 THEN "create" ELSE IF j.entries[1].title # NoTitle THEN "title" ELSE "update"
  IN  /\ At(r, "slug") /\ j.suffix <= MaxSuffix
      /\ job' = [job EXCEPT ![r] =
           IF Taken(r, slug) THEN [j EXCEPT !.suffix = @ + 1]
           ELSE [j EXCEPT !.slugs = chosen, !.suffix = 1,
                          !.step = IF Len(chosen) < Len(j.entries) THEN "slug" ELSE last]]
      /\ UNCHANGED <<categoryVars, productVars, reviewVars, scenario>>

\* Mistake: the slug column has no unique key.
AnySlug(slug, id) == TRUE
\* The unique key on slug.
SlugFree(slug, id) == \A c \in rows : c.slug = slug => c.id = id

New(r, chosen) ==
  {[id |-> lastRow + i, title |-> job[r].entries[i].title, slug |-> job[r].slugs[i],
    active |-> job[r].entries[i].active] : i \in chosen}
\* One statement or one transaction: all rows or none.
CreateAll(r) ==
  /\ \A i \in DOMAIN job[r].slugs : SlugFree(job[r].slugs[i], 0)
  /\ rows' = rows \cup New(r, DOMAIN job[r].slugs)

CreateCategories(r) ==
  /\ At(r, "create") /\ lastRow + Len(job[r].entries) <= scenario.rows
  /\ CreateAll(r) /\ lastRow' = lastRow + Len(job[r].entries)
  /\ Done(r) /\ UNCHANGED <<productVars, reviewVars, scenario>>

------------------------------------------------------------------------------
(* Categories: changes and deletion *)

\* updateCategory: the category is there and active.
UpdateCategory(r, c, e) ==
  /\ c \in Active
  /\ Begin(r, IF e.title = NoTitle THEN "updateCategory" ELSE "renameCategory",
       [Idle EXCEPT !.entries = <<e>>, !.id = c.id,
                    !.step = IF e.base # <<>> THEN "slug"
                             ELSE IF e.title # NoTitle THEN "title" ELSE "update"])

\* updateCategory compares the titles as they are written.
CheckTitle(r) ==
  /\ At(r, "title")
  /\ \A c \in Active : c.title = job[r].entries[1].title => c.id = job[r].id
  /\ Goto(r, "update") /\ UNCHANGED <<categoryVars, productVars, reviewVars, scenario>>

Changed(c, e, slugs) ==
  [c EXCEPT !.title = IF e.title = NoTitle THEN @ ELSE e.title,
            !.slug = IF slugs = <<>> THEN @ ELSE slugs[1],
            !.active = e.active]

\* The update goes by id, also when the category was deleted meanwhile.
UpdateRow(r) ==
  \E c \in rows :
    LET d == Changed(c, job[r].entries[1], job[r].slugs)
    IN  /\ At(r, "update") /\ c.id = job[r].id /\ SlugFree(d.slug, c.id)
        /\ rows' = (rows \ {c}) \cup {d}
        /\ Done(r) /\ UNCHANGED <<lastRow, productVars, reviewVars, scenario>>

HoldsProducts(c) == \E p \in Products : product[p].category = c.id /\ OnSale(p)

\* deleteCategory reads the category with its active products ...
DeleteCategory(r, c) ==
  /\ c \in Active /\ ~HoldsProducts(c)
  /\ Begin(r, "deleteCategory", [Idle EXCEPT !.step = "delete", !.id = c.id])
\* ... and writes isActive by id.
DeleteRow(r) ==
  \E c \in rows :
    /\ At(r, "delete") /\ c.id = job[r].id
    /\ rows' = (rows \ {c}) \cup {[c EXCEPT !.active = FALSE]}
    /\ Done(r) /\ UNCHANGED <<lastRow, productVars, reviewVars, scenario>>

------------------------------------------------------------------------------
(* Products *)

\* The categories a payload can name: the foreign key asks only that it is there.
CategoryIds == {0} \cup {c.id : c \in rows}

\* The unique key on slug in the table of the kind.
ProductSlugFree(p) == \A q \in Products : Made(q) /\ KindOf[q] = KindOf[p] => SlugOf[q] # SlugOf[p]

\* The kind's service inserts the product and its first option in one statement.
Insert(p, id) ==
  /\ ~Made(p) /\ ProductSlugFree(p) /\ lastOption < scenario.options
  /\ product' = [product EXCEPT ![p] = [@ EXCEPT !.status = "ACTIVE", !.category = id]]
  /\ lastOption' = lastOption + 1
  /\ options' = [options EXCEPT ![p] = {lastOption + 1}]
  /\ UNCHANGED <<inCarts, reviewVars>>

AddProduct(r, p, id) ==
  /\ At(r, "idle") /\ "addProduct" \in scenario.ops /\ Undisturbed
  /\ Insert(p, id) /\ UNCHANGED <<categoryVars, scenario, job>>

\* bulkUploadProducts: one addition after the other.
BulkUploadProducts(r, list) ==
  /\ Len(list) \in 1..MaxList
  /\ Begin(r, "bulkProducts", [Idle EXCEPT !.step = "upload", !.list = list])
UploadNext(r) ==
  LET list == job[r].list
  IN  /\ At(r, "upload") /\ Insert(Head(list), 0)
      /\ IF Len(list) = 1 THEN Done(r) ELSE job' = [job EXCEPT ![r].list = Tail(list)]
      /\ UNCHANGED <<categoryVars, scenario>>

\* An addition fails: the error leaves the loop, what was added stays.
StopUpload(r) == Done(r)
UploadFails(r) ==
  /\ At(r, "upload") /\ StopUpload(r) /\ UNCHANGED <<categoryVars, productVars, reviewVars, scenario>>

\* updateProduct and deleteProduct: findProductType; id is 0 for no categoryId.
\* Only subscriptions take options along with an update.
UpdateProduct(r, p, status, id, replace) ==
  /\ Found(p) /\ (replace => KindOf[p] = "SUBSCRIPTION")
  /\ Begin(r, "updateProduct", [Idle EXCEPT !.step = "find", !.product = p, !.status = status,
                                            !.id = id, !.replace = replace])
DeleteProduct(r, p) ==
  /\ Found(p)
  /\ Begin(r, "deleteProduct", [Idle EXCEPT !.step = "find", !.product = p, !.status = "ARCHIVED"])

\* findGiftCardRecord, assertGame, getSubscriptionById.
FindRecord(r) ==
  /\ At(r, "find") /\ Found(job[r].product)
  /\ Goto(r, IF job[r].status = "ARCHIVED" THEN "archive" ELSE "write")
  /\ UNCHANGED <<categoryVars, productVars, reviewVars, scenario>>

Replaces(r) == job[r].replace

\* Options that are deleted leave their cart rows without one (ON DELETE SET NULL).
Unlinked(gone) ==
  {IF i.option \in gone THEN [i EXCEPT !.option = NoOption] ELSE i : i \in inCarts}

WriteProduct(r) ==
  LET p == job[r].product
  IN  /\ At(r, "write")
      /\ product' = [product EXCEPT ![p].status = job[r].status,
                                    ![p].category = IF job[r].id = 0 THEN @ ELSE job[r].id]
      /\ IF Replaces(r)
         THEN /\ lastOption < scenario.options /\ lastOption' = lastOption + 1
              /\ options' = [options EXCEPT ![p] = {lastOption + 1}]
              /\ inCarts' = Unlinked(options[p])
         ELSE UNCHANGED <<options, lastOption, inCarts>>
      /\ Done(r) /\ UNCHANGED <<categoryVars, reviewVars, scenario>>

Archived(p) == [p EXCEPT !.status = "ARCHIVED", !.deleted = TRUE]

ArchiveProduct(r) ==
  /\ At(r, "archive")
  /\ product' = [product EXCEPT ![job[r].product] = Archived(@)]
  /\ Done(r) /\ UNCHANGED <<categoryVars, options, lastOption, inCarts, reviewVars, scenario>>

\* A customer puts an option in the cart, see Cart.
AddToCart(p) ==
  \E o \in options[p] :
    /\ OnSale(p) /\ "cart" \in scenario.ops
    /\ inCarts' = inCarts \cup {[product |-> p, option |-> o]}
    /\ UNCHANGED <<categoryVars, product, options, lastOption, reviewVars, job, scenario>>

------------------------------------------------------------------------------
(* Reviews *)

\* createReview: resolveProduct, findExistingReview, the insertion.
CreateReview(r, u, p, n) ==
  /\ OnSale(p)
  /\ Begin(r, "review", [Idle EXCEPT !.step = "existing", !.user = u, !.product = p, !.rating = n])
Reviewed(u, p) == {v \in reviews : v.user = u /\ v.product = p}
FindExistingReview(r) ==
  /\ At(r, "existing") /\ Reviewed(job[r].user, job[r].product) = {}
  /\ Goto(r, "insert") /\ UNCHANGED <<categoryVars, productVars, reviewVars, scenario>>

\* The unique keys on userId and the product's id.
ReviewFree(u, p) == Reviewed(u, p) = {}

InsertReview(r) ==
  /\ At(r, "insert") /\ ReviewFree(job[r].user, job[r].product) /\ lastReview < MaxReview
  /\ lastReview' = lastReview + 1
  /\ reviews' = reviews \cup {[id |-> lastReview', user |-> job[r].user,
                               product |-> job[r].product, rating |-> job[r].rating]}
  /\ Done(r) /\ UNCHANGED <<categoryVars, productVars, scenario>>

Author(v, u) == v.user = u

UpdateReview(r, u, v, n) ==
  /\ Author(v, u)
  /\ Begin(r, "revise", [Idle EXCEPT !.step = "revise", !.user = u, !.review = v.id, !.rating = n])
DeleteReview(r, u, v) ==
  /\ Author(v, u)
  /\ Begin(r, "remove", [Idle EXCEPT !.step = "remove", !.user = u, !.review = v.id])

WriteReview(r) ==
  \E v \in reviews :
    /\ At(r, "revise") /\ v.id = job[r].review
    /\ reviews' = (reviews \ {v}) \cup {[v EXCEPT !.rating = job[r].rating]}
    /\ Done(r) /\ UNCHANGED <<categoryVars, productVars, lastReview, scenario>>
RemoveReview(r) ==
  \E v \in reviews :
    /\ At(r, "remove") /\ v.id = job[r].review /\ reviews' = reviews \ {v}
    /\ Done(r) /\ UNCHANGED <<categoryVars, productVars, lastReview, scenario>>

\* A check or a key refuses, a row is gone, a query fails.
Refused(r) ==
  /\ ~At(r, "idle") /\ ~At(r, "upload")
  /\ Done(r) /\ UNCHANGED <<categoryVars, productVars, reviewVars, scenario>>

------------------------------------------------------------------------------

Additions ==
  {e \in [title : scenario.titles, base : Bases, active : scenario.active] :
     e.base \in {Base[e.title]} \cup scenario.explicit}
Changes ==
  [title : scenario.titles \cup {NoTitle}, base : scenario.explicit \cup {<<>>}, active : BOOLEAN]
Lists == UNION {[1..n -> scenario.products] : n \in 1..MaxList}

CategoryStep(r) ==
  \/ \E e \in Additions : AddCategory(r, e)
  \/ \E e, f \in Additions : BulkAddCategories(r, <<e, f>>)
  \/ \E c \in rows, e \in Changes : UpdateCategory(r, c, e)
  \/ \E c \in rows : DeleteCategory(r, c)
  \/ PickSlug(r) \/ CreateCategories(r) \/ CheckTitle(r) \/ UpdateRow(r) \/ DeleteRow(r)
ProductStep(r) ==
  \/ \E p \in scenario.products : DeleteProduct(r, p) \/ \E id \in CategoryIds : AddProduct(r, p, id)
  \/ \E list \in Lists : BulkUploadProducts(r, list)
  \/ \E p \in scenario.products, s \in {"ACTIVE", "INACTIVE"}, id \in CategoryIds, b \in BOOLEAN :
       UpdateProduct(r, p, s, id, b)
  \/ UploadNext(r) \/ UploadFails(r) \/ FindRecord(r) \/ WriteProduct(r) \/ ArchiveProduct(r)
ReviewStep(r) ==
  \/ \E u \in Users, p \in scenario.products, n \in Ratings : CreateReview(r, u, p, n)
  \/ FindExistingReview(r) \/ InsertReview(r) \/ WriteReview(r) \/ RemoveReview(r)
  \/ \E u \in Users, v \in reviews : DeleteReview(r, u, v) \/ \E n \in Ratings : UpdateReview(r, u, v, n)

Next ==
  \/ \E r \in Requests : CategoryStep(r) \/ ProductStep(r) \/ ReviewStep(r) \/ Refused(r)
  \/ \E p \in scenario.products : AddToCart(p)

Spec == Init /\ [][Next]_vars

------------------------------------------------------------------------------

\* However requests interleave, a slug names one category, also a deleted one.
SlugsAreUnique == \A c, d \in rows : c.slug = d.slug => c = d

\* With one request at a time, the slugs an addition has searched are free: no
\* addition fails for its slug.
ChosenSlugsAreFree ==
  \A r \in Requests : scenario.requests = 1 /\ At(r, "create") =>
    \A i, j \in DOMAIN job[r].slugs :
      /\ SlugFree(job[r].slugs[i], 0)
      /\ job[r].slugs[i] = job[r].slugs[j] => i = j

\* As long as requests come one by one and rename no category, two active
\* categories differ in more than the case of their titles.
ActiveTitlesDiffer ==
  \A c, d \in Active :
    scenario.requests = 1 /\ "renameCategory" \notin scenario.ops /\ Fold[c.title] = Fold[d.title]
      => c = d

\* However requests interleave, a user has one review of a product.
OneReviewEach == \A v, w \in reviews : v.user = w.user /\ v.product = w.product => v = w

\* Through the product API a cart row of a gift card or a top-up keeps its option.
\* (The update of a subscription replaces its plans and unlinks their rows.)
CartKeepsItsOption ==
  \A i \in inCarts : KindOf[i.product] # "SUBSCRIPTION" => i.option \in options[i.product]

\* What no interleaving may leave behind: two categories of one slug, two reviews
\* of one customer, a cart row without its option; and, with one request at a
\* time, two active categories of one title or a chosen slug that is taken.
CatalogueInvariant ==
  /\ TypeOK
  /\ SlugsAreUnique /\ ChosenSlugsAreFree /\ ActiveTitlesDiffer
  /\ OneReviewEach /\ CartKeepsItsOption
==============================================================================
