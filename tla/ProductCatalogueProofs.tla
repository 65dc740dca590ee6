------------------------ MODULE ProductCatalogueProofs ------------------------
(***************************************************************************)
(* Categories, products and reviews: one category for a slug, one review of  *)
(* a customer, cart rows that keep their option; for every number of         *)
(* requests, categories, products, users and candidates.                     *)
(*                                                                         *)
(* The argument has three parts.  An id is given to one category and an      *)
(* option to one product, so that a write by id changes the row that the     *)
(* request read.  The slugs a request has chosen differ from each other, so  *)
(* that the unique key refuses all of an upload or nothing.  And what was    *)
(* read stays true when requests come one by one, because the one that runs  *)
(* is the only one that writes: this is Alone, and titles and free slugs     *)
(* need it.                                                                  *)
(***************************************************************************)
EXTENDS ProductCatalogue, FiniteSetTheorems, TLAPS

Statuses == {"ACTIVE", "INACTIVE", "ARCHIVED"}
Jobs ==
  [step : Steps, entries : Seq(Entry), slugs : Seq(Slugs), suffix : Nat \ {0}, id : 0..MaxRow,
   product : Products \cup {NoProduct}, status : Statuses, replace : BOOLEAN, list : Seq(Products),
   user : Users \cup {NoUser}, review : 0..MaxReview, rating : Ratings]
CartRow == [product : Products, option : (1..MaxOption) \cup {NoOption}]

\* The type of the state, in full.
Types ==
  /\ rows \subseteq Category /\ lastRow \in 0..MaxRow
  /\ product \in [Products -> Product]
  /\ options \in [Products -> SUBSET (1..MaxOption)] /\ lastOption \in 0..MaxOption
  /\ inCarts \subseteq CartRow
  /\ reviews \subseteq Review /\ lastReview \in 0..MaxReview
  /\ scenario \in Scenarios /\ job \in [Requests -> Jobs]

\* An id is given to one category.
RowsSound ==
  /\ \A c \in rows : c.id <= lastRow
  /\ \A c, d \in rows : c.id = d.id => c = d
  /\ SlugsAreUnique

\* An option belongs to one product, and what is in a cart is of a product that was added.
OptionsSound ==
  /\ \A p \in Products : options[p] \subseteq 1..lastOption
  /\ \A p, q \in Products : p # q => options[p] \cap options[q] = {}
  /\ \A i \in inCarts : Made(i.product)
  /\ CartKeepsItsOption

\* What the request j carries, prod being the products there are.
Work(j, prod) ==
  /\ \A i, k \in 1..Len(j.slugs) : j.slugs[i] = j.slugs[k] => i = k
  /\ j.step = "slug" => /\ Len(j.slugs) < Len(j.entries)
                        /\ \A i \in 1..Len(j.entries) : j.entries[i].base \in Bases
  /\ j.step = "create" => j.id = 0 /\ Len(j.slugs) = Len(j.entries)
  /\ j.step \in {"slug", "create"} /\ j.id = 0 => \A i \in 1..Len(j.entries) : j.entries[i].title \in Titles
  /\ j.step \in {"title", "update"} => j.id # 0 /\ Len(j.entries) >= 1
  /\ j.step \in {"find", "write", "archive"} =>
       /\ j.product \in Products /\ prod[j.product].status # "NONE"
       /\ j.replace => KindOf[j.product] = "SUBSCRIPTION"
  /\ j.step = "upload" => Len(j.list) >= 1
  /\ j.step \in {"existing", "insert"} => j.user \in Users /\ j.product \in Products

\* What a request knows besides when no other one runs, cats being the categories.
Knows(j, cats, prod) ==
  /\ j.step \in {"slug", "create"} /\ j.id = 0 =>
       /\ \A i, k \in 1..Len(j.entries) : Fold[j.entries[i].title] = Fold[j.entries[k].title] => i = k
       /\ \A c \in cats, i \in 1..Len(j.entries) : c.active => Fold[c.title] # Fold[j.entries[i].title]
       /\ \A c \in cats, i \in 1..Len(j.slugs) : c.slug # j.slugs[i]
  /\ j.step \in {"slug", "title", "update"} /\ j.id # 0 =>
       /\ \A c \in cats : c.id = j.id => c.active
       /\ "renameCategory" \in scenario.ops \/ j.entries[1].title = NoTitle

Works == \A r \in Requests : Work(job[r], product)
Alone ==
  scenario.requests = 1 =>
    /\ \A q, r \in Requests : ~At(q, "idle") /\ ~At(r, "idle") => q = r
    /\ \A r \in Requests : Knows(job[r], rows, product)

IInv ==
  Types /\ RowsSound /\ ActiveTitlesDiffer /\ OptionsSound /\ OneReviewEach /\ Works /\ Alone

------------------------------------------------------------------------------
(* Requests *)

LEMMA ScenarioFacts ==
  ASSUME Types
  PROVE  /\ scenario.titles \subseteq Titles /\ scenario.explicit \subseteq Explicit
         /\ scenario.active \subseteq BOOLEAN /\ scenario.products \subseteq Products
         /\ scenario.rows \in 0..MaxRow /\ scenario.options \in 0..MaxOption
<1>1. scenario \in Scenario
  BY CatalogueConstants DEF Types
<1> QED
  BY <1>1 DEF Scenario

LEMMA IdleFacts ==
  /\ Idle \in Jobs
  /\ Idle.step = "idle" /\ Idle.slugs = <<>> /\ Idle.entries = <<>> /\ Idle.id = 0 /\ ~Idle.replace
  /\ \A prod : Work(Idle, prod)
  /\ \A cats, prod : Knows(Idle, cats, prod)
<1>1. <<>> \in Seq(Entry) /\ <<>> \in Seq(Slugs) /\ <<>> \in Seq(Products)
  OBVIOUS
<1>2. MaxRow \in Nat /\ MaxReview \in Nat
  BY CatalogueConstants
<1>3. Idle \in Jobs
  BY <1>1, <1>2 DEF Idle, Jobs, Steps, Statuses, Ratings
<1>4. /\ Idle.step = "idle" /\ Idle.slugs = <<>> /\ Idle.entries = <<>> /\ Idle.id = 0
      /\ Idle.replace = FALSE
  BY DEF Idle
<1> QED
  BY <1>3, <1>4 DEF Work, Knows

\* The job of one request changes: what the others carry stays true if no product
\* disappears, and what they know if they are idle.
LEMMA Together ==
  ASSUME IInv, NEW r \in Requests, NEW j \in Jobs, job' = [job EXCEPT ![r] = j], scenario' = scenario,
         \A p \in Products : product[p].status # "NONE" => product'[p].status # "NONE",
         Work(j, product'),
         scenario.requests = 1 =>
           Knows(j, rows', product') /\ \A q \in Requests \ {r} : job[q].step = "idle"
  PROVE  job' \in [Requests -> Jobs] /\ Works' /\ Alone'
<1>1. job' \in [Requests -> Jobs] /\ job'[r] = j /\ \A q \in Requests \ {r} : job'[q] = job[q]
  BY DEF IInv, Types
<1>2. ASSUME NEW q \in Requests PROVE Work(job'[q], product')
  <2>1. CASE q = r
    BY <1>1, <2>1
  <2>2. CASE q # r
    BY <1>1, <2>2 DEF IInv, Works, Work
  <2> QED
    BY <2>1, <2>2
<1>3. ASSUME scenario.requests = 1, NEW q \in Requests PROVE Knows(job'[q], rows', product')
  <2>1. CASE q = r
    BY <1>1, <1>3, <2>1
  <2>2. CASE q # r
    BY <1>1, <1>3, <2>2 DEF Knows
  <2> QED
    BY <2>1, <2>2
<1>4. ASSUME scenario.requests = 1, NEW q \in Requests, NEW x \in Requests,
             job'[q].step # "idle", job'[x].step # "idle"
      PROVE  q = x
  BY <1>1, <1>4
<1>5. Works'
  BY <1>2 DEF Works
<1>6. Alone'
  <2>1. \A q \in Requests : scenario.requests = 1 => Knows(job[q], rows, product)'
    BY <1>3 DEF Knows
  <2> QED
    BY <1>4, <2>1 DEF Alone, At
<1> QED
  BY <1>1, <1>5, <1>6

\* No request moves.
LEMMA Still ==
  ASSUME IInv, job' = job, scenario' = scenario,
         \A p \in Products : product[p].status # "NONE" => product'[p].status # "NONE",
         \/ rows' = rows /\ product' = product
         \/ scenario.requests = 1 => \A q \in Requests : job[q].step = "idle"
  PROVE  Works' /\ Alone'
<1>1. ASSUME NEW q \in Requests PROVE Work(job'[q], product')
  BY DEF IInv, Works, Work
<1>2. ASSUME scenario.requests = 1, NEW q \in Requests PROVE Knows(job[q], rows', product')
  <2>1. Knows(job[q], rows, product)
    BY <1>2 DEF IInv, Alone
  <2>2. CASE job[q].step = "idle"
    BY <2>2 DEF Knows
  <2> QED
    BY <1>2, <2>1, <2>2
<1>3. \A q \in Requests : scenario.requests = 1 => Knows(job[q], rows, product)'
  BY <1>2 DEF Knows
<1>4. Works'
  BY <1>1 DEF Works
<1>5. Alone'
  BY <1>3 DEF Alone, At, IInv
<1> QED
  BY <1>4, <1>5

\* With one request at a time, the others are idle while one runs and while one begins.
LEMMA OthersAreIdle ==
  ASSUME IInv, scenario.requests = 1, NEW r \in Requests,
         \/ job[r].step # "idle"
         \/ Cardinality({q \in Requests : ~At(q, "idle")}) < scenario.requests
  PROVE  \A q \in Requests \ {r} : job[q].step = "idle"
<1> DEFINE S == {q \in Requests : ~At(q, "idle")}
<1>1. \A x, y \in S : x = y
  BY DEF IInv, Alone
<1>2. CASE job[r].step # "idle"
  BY <1>1, <1>2 DEF At
<1>3. CASE Cardinality(S) < scenario.requests
  <2>1. S = {}
    <3> SUFFICES ASSUME S # {} PROVE FALSE
      OBVIOUS
    <3>1. PICK x \in S : S = {x}
      BY <1>1
    <3> HIDE DEF S
    <3>2. Cardinality(S) = 1
      BY <3>1, FS_Singleton
    <3> QED
      BY <1>3, <3>2
  <2> QED
    BY <2>1 DEF At
<1> QED
  BY <1>2, <1>3

\* The tables as they are keep their part of the invariant.
LEMMA TablesKeep ==
  ASSUME IInv, UNCHANGED <<categoryVars, productVars, reviewVars, scenario>>,
         job' \in [Requests -> Jobs], Works', Alone'
  PROVE  IInv'
<1> USE DEF categoryVars, productVars, reviewVars
<1>1. Types'
  BY DEF IInv, Types
<1>2. RowsSound'
  BY DEF IInv, RowsSound, SlugsAreUnique
<1>3. ActiveTitlesDiffer'
  BY DEF IInv, ActiveTitlesDiffer, Active
<1>4. OptionsSound'
  BY DEF IInv, OptionsSound, CartKeepsItsOption, Made
<1>5. OneReviewEach'
  BY DEF IInv, OneReviewEach
<1> QED
  BY <1>1, <1>2, <1>3, <1>4, <1>5 DEF IInv

\* A request begins.
LEMMA BeginKeeps ==
  ASSUME IInv, NEW r \in Requests, NEW op, NEW j \in Jobs, Begin(r, op, j), Work(j, product),
         scenario.requests = 1 => Knows(j, rows, product)
  PROVE  IInv'
<1>1. /\ job' = [job EXCEPT ![r] = j]
      /\ UNCHANGED <<categoryVars, productVars, reviewVars, scenario>>
      /\ Cardinality({q \in Requests : ~At(q, "idle")}) < scenario.requests
  BY DEF Begin
<1>2. scenario.requests = 1 => \A q \in Requests \ {r} : job[q].step = "idle"
  BY <1>1, OthersAreIdle
<1>3. product' = product /\ rows' = rows /\ scenario' = scenario
  BY <1>1 DEF categoryVars, productVars
<1>4. job' \in [Requests -> Jobs] /\ Works' /\ Alone'
  BY <1>1, <1>2, <1>3, Together
<1> QED
  BY <1>1, <1>4, TablesKeep

\* A request goes on, and writes nothing.
LEMMA MoveKeeps ==
  ASSUME IInv, NEW r \in Requests, NEW j \in Jobs, job' = [job EXCEPT ![r] = j],
         job[r].step # "idle", UNCHANGED <<categoryVars, productVars, reviewVars, scenario>>,
         Work(j, product), scenario.requests = 1 => Knows(j, rows, product)
  PROVE  IInv'
<1>1. scenario.requests = 1 => \A q \in Requests \ {r} : job[q].step = "idle"
  BY OthersAreIdle
<1>2. product' = product /\ rows' = rows /\ scenario' = scenario
  BY DEF categoryVars, productVars
<1>3. job' \in [Requests -> Jobs] /\ Works' /\ Alone'
  BY <1>1, <1>2, Together
<1> QED
  BY <1>3, TablesKeep

LEMMA GotoIs ==
  ASSUME IInv, NEW r \in Requests, NEW step \in Steps, Goto(r, step)
  PROVE  \E j \in Jobs : /\ job' = [job EXCEPT ![r] = j] /\ j.step = step
                         /\ j.entries = job[r].entries /\ j.slugs = job[r].slugs /\ j.id = job[r].id
                         /\ j.product = job[r].product /\ j.replace = job[r].replace
                         /\ j.user = job[r].user /\ j.list = job[r].list
<1> DEFINE g == job[r]
           j == [g EXCEPT !.step = step]
<1>1. g \in Jobs
  BY DEF IInv, Types
<1> HIDE DEF g
<1>2. /\ j \in Jobs /\ j.step = step
      /\ j.entries = g.entries /\ j.slugs = g.slugs /\ j.id = g.id /\ j.product = g.product
      /\ j.replace = g.replace /\ j.user = g.user /\ j.list = g.list
  BY <1>1 DEF Jobs
<1>3. job' = [job EXCEPT ![r] = [job[r] EXCEPT !.step = step]]
  BY DEF Goto
<1> HIDE DEF j
<1> QED
  BY <1>2, <1>3 DEF g, j

------------------------------------------------------------------------------
(* Categories *)

LEMMA NothingChosen == Len(<<>>) = 0 /\ 1..0 = {}
  OBVIOUS

\* A request that has chosen no slug yet.
LEMMA NewWork ==
  ASSUME NEW j \in Jobs, NEW prod, j.slugs = <<>>, j.step \in {"slug", "title", "update"},
         Len(j.entries) >= 1,
         j.step = "slug" => \A i \in 1..Len(j.entries) : j.entries[i].base \in Bases,
         j.step = "slug" /\ j.id = 0 => \A i \in 1..Len(j.entries) : j.entries[i].title \in Titles,
         j.step # "slug" => j.id # 0
  PROVE  Work(j, prod)
<1>1. Len(j.slugs) = 0
  BY NothingChosen
<1>2. \A i, k \in 1..Len(j.slugs) : j.slugs[i] = j.slugs[k] => i = k
  BY <1>1, NothingChosen
<1>3. j.step = "slug" => Len(j.slugs) < Len(j.entries)
  BY <1>1 DEF Jobs
<1> QED
  BY <1>2, <1>3 DEF Work

LEMMA CandidatesAreSlugs ==
  ASSUME NEW b \in Bases, NEW n \in 2..MaxSuffix
  PROVE  b \o <<n>> \in Slugs
<1> DEFINE S == {c \o <<m>> : c \in Bases, m \in 2..MaxSuffix}
           x == b \o <<n>>
<1>1. S \subseteq Slugs
  BY DEF Slugs
<1>2. x \in S
  OBVIOUS
<1> HIDE DEF S, x
<1>3. x \in Slugs
  BY <1>1, <1>2
<1> QED
  BY <1>3, Zenon DEF x

LEMMA OneEntry ==
  ASSUME NEW e \in Entry
  PROVE  <<e>> \in Seq(Entry) /\ Len(<<e>>) = 1 /\ <<e>>[1] = e
  OBVIOUS

LEMMA AddCategoryKeeps ==
  ASSUME IInv, NEW r \in Requests, NEW e \in Additions, AddCategory(r, e)
  PROVE  IInv'
<1>1. e \in Entry /\ e.base \in Bases /\ e.title \in Titles
  BY ScenarioFacts DEF IInv, Additions, Entry, Bases
<1> DEFINE es == <<e>>
<1>2. es \in Seq(Entry) /\ Len(es) = 1 /\ es[1] = e
  BY <1>1, OneEntry
<1>3. \A c \in rows : c.active => Fold[c.title] # Fold[es[1].title]
  BY <1>2 DEF AddCategory, Active, SameTitle
<1> HIDE DEF es
<1> DEFINE j == [Idle EXCEPT !.step = "slug", !.entries = es]
<1>4. j \in Jobs /\ j.step = "slug" /\ j.entries = es /\ j.slugs = <<>> /\ j.id = 0
  BY <1>2, IdleFacts DEF Jobs, Steps
<1>5. Begin(r, "addCategory", j)
  BY DEF AddCategory, es
<1> HIDE DEF j
<1>6. Len(j.slugs) = 0 /\ \A i \in 1..Len(es) : i = 1
  BY <1>2, <1>4, NothingChosen
<1>7. Work(j, product)
  <2>1. \A i \in 1..Len(j.entries) : j.entries[i].base \in Bases /\ j.entries[i].title \in Titles
    BY <1>1, <1>2, <1>4, <1>6
  <2>2. Len(j.entries) = 1
    BY <1>2, <1>4, Zenon
  <2>3. Len(j.entries) >= 1
    BY <2>2
  <2> QED
    BY <1>4, <2>1, <2>3, NewWork
<1>8. Knows(j, rows, product)
  BY <1>2, <1>3, <1>4, <1>6, NothingChosen DEF Knows
<1> QED
  BY <1>4, <1>5, <1>7, <1>8, BeginKeeps

LEMMA BulkAddCategoriesKeeps ==
  ASSUME IInv, NEW r \in Requests, NEW e \in Additions, NEW f \in Additions,
         BulkAddCategories(r, <<e, f>>)
  PROVE  IInv'
<1>1. /\ e \in Entry /\ e.base \in Bases /\ e.title \in Titles
      /\ f \in Entry /\ f.base \in Bases /\ f.title \in Titles
  BY ScenarioFacts DEF IInv, Additions, Entry, Bases
<1> DEFINE es == <<e, f>>
<1>2. es \in Seq(Entry) /\ Len(es) = 2 /\ es[1] = e /\ es[2] = f /\ DOMAIN es = 1..Len(es)
  BY <1>1
<1>3. /\ \A i, k \in 1..Len(es) : Fold[es[i].title] = Fold[es[k].title] => i = k
      /\ \A c \in rows, i \in 1..Len(es) : c.active => Fold[c.title] # Fold[es[i].title]
      /\ Begin(r, "bulkCategories", [Idle EXCEPT !.step = "slug", !.entries = es])
  BY <1>2 DEF BulkAddCategories, Active, SameTitle
<1>4. \A i \in 1..Len(es) : es[i].base \in Bases /\ es[i].title \in Titles
  BY <1>1, <1>2
<1> HIDE DEF es
<1> DEFINE j == [Idle EXCEPT !.step = "slug", !.entries = es]
<1>5. j \in Jobs /\ j.step = "slug" /\ j.entries = es /\ j.slugs = <<>> /\ j.id = 0
  BY <1>2, IdleFacts DEF Jobs, Steps
<1>6. Begin(r, "bulkCategories", j)
  BY <1>3
<1> HIDE DEF j
<1>7. Len(j.slugs) = 0
  BY <1>5, NothingChosen
<1>8. Work(j, product)
  BY <1>2, <1>4, <1>5, NewWork
<1>9. Knows(j, rows, product)
  BY <1>3, <1>5, <1>7, NothingChosen DEF Knows
<1> QED
  BY <1>5, <1>6, <1>8, <1>9, BeginKeeps

LEMMA UpdateCategoryKeeps ==
  ASSUME IInv, NEW r \in Requests, NEW c \in rows, NEW e \in Changes, UpdateCategory(r, c, e)
  PROVE  IInv'
<1>1. e \in Entry
  BY ScenarioFacts DEF IInv, Changes, Entry, Bases
<1>2. e.base # <<>> => e.base \in Bases
  BY <1>1 DEF Entry
<1>3. c.active /\ c.id \in 1..MaxRow /\ MaxRow \in Nat /\ \A d \in rows : d.id = c.id => d.active
  BY CatalogueConstants DEF UpdateCategory, Active, IInv, Types, Category, RowsSound
<1> DEFINE es == <<e>>
           step == IF e.base # <<>> THEN "slug" ELSE IF e.title # NoTitle THEN "title" ELSE "update"
           op == IF e.title = NoTitle THEN "updateCategory" ELSE "renameCategory"
           id == c.id
<1>4. es \in Seq(Entry) /\ Len(es) = 1 /\ es[1] = e
  BY <1>1, OneEntry
<1>5. /\ step \in {"slug", "title", "update"} /\ (step = "slug" => e.base \in Bases)
      /\ step \in Steps /\ id \in 0..MaxRow /\ id # 0
  BY <1>2, <1>3 DEF Steps
<1>6. op \in scenario.ops /\ Begin(r, op, [Idle EXCEPT !.entries = es, !.id = id, !.step = step])
  BY DEF UpdateCategory, Begin
<1>7. "renameCategory" \in scenario.ops \/ e.title = NoTitle
  BY <1>6
<1> HIDE DEF es, step, op, id
<1> DEFINE j == [Idle EXCEPT !.entries = es, !.id = id, !.step = step]
<1>8. j \in Jobs /\ j.step = step /\ j.entries = es /\ j.slugs = <<>> /\ j.id = id
  BY <1>4, <1>5, IdleFacts DEF Jobs
<1>9. Begin(r, op, j)
  BY <1>6
<1> HIDE DEF j
<1>10. Len(j.slugs) = 0 /\ \A i \in 1..Len(es) : i = 1
  BY <1>4, <1>8, NothingChosen
<1>11. Work(j, product)
  <2>1. j.step = "slug" => \A i \in 1..Len(j.entries) : j.entries[i].base \in Bases
    BY <1>4, <1>5, <1>8, <1>10
  <2>2. Len(j.entries) = 1 /\ j.step \in {"slug", "title", "update"} /\ j.id # 0
    BY <1>4, <1>5, <1>8, Zenon
  <2>3. Len(j.entries) >= 1
    BY <2>2
  <2> QED
    BY <1>8, <2>1, <2>2, <2>3, NewWork
<1>12. Knows(j, rows, product)
  BY <1>3, <1>4, <1>5, <1>7, <1>8, <1>10 DEF Knows, id
<1> QED
  BY <1>8, <1>9, <1>11, <1>12, BeginKeeps

LEMMA DeleteCategoryKeeps ==
  ASSUME IInv, NEW r \in Requests, NEW c \in rows, DeleteCategory(r, c)
  PROVE  IInv'
<1>1. c.id \in 0..MaxRow
  BY CatalogueConstants DEF IInv, Types, Category
<1>2. \A p \in Products : product[p].category = c.id /\ product[p].status = "ACTIVE" => product[p].deleted
  BY DEF DeleteCategory, HoldsProducts, OnSale, Found, Made
<1> DEFINE id == c.id
           j == [Idle EXCEPT !.step = "delete", !.id = id]
<1>3. j \in Jobs /\ j.step = "delete" /\ j.slugs = <<>> /\ j.id = id
  BY <1>1, IdleFacts DEF Jobs, Steps
<1>4. Begin(r, "deleteCategory", j)
  BY DEF DeleteCategory
<1> HIDE DEF j
<1>5. Work(j, product)
  BY <1>3 DEF Work
<1>6. Knows(j, rows, product)
  BY <1>2, <1>3 DEF Knows
<1> QED
  BY <1>3, <1>4, <1>5, <1>6, BeginKeeps

\* A candidate that is taken is passed over; one that is free differs from the slugs
\* chosen before it and from those of the categories there are.
LEMMA PickSlugKeeps ==
  ASSUME IInv, NEW r \in Requests, PickSlug(r)
  PROVE  IInv'
<1> DEFINE g == job[r]
           base == NextEntry(r).base
           slug == Candidate(base, g.suffix)
           chosen == Append(g.slugs, slug)
           last == IF g.id = 0 THEN "create" ELSE IF g.entries[1].title # NoTitle THEN "title" ELSE "update"
           step == IF Len(chosen) < Len(g.entries) THEN "slug" ELSE last
<1>1. g \in Jobs /\ g.step = "slug" /\ Work(g, product) /\ (scenario.requests = 1 => Knows(g, rows, product))
  BY DEF IInv, Types, Works, Alone, PickSlug, At
<1>2. /\ g.suffix <= MaxSuffix /\ UNCHANGED <<categoryVars, productVars, reviewVars, scenario>>
      /\ Taken(r, slug) => job' = [job EXCEPT ![r] = [g EXCEPT !.suffix = @ + 1]]
      /\ ~Taken(r, slug) =>
           job' = [job EXCEPT ![r] = [g EXCEPT !.slugs = chosen, !.suffix = 1, !.step = step]]
  BY DEF PickSlug
<1>3. /\ g.entries \in Seq(Entry) /\ g.slugs \in Seq(Slugs) /\ g.suffix \in Nat \ {0} /\ g.id \in 0..MaxRow
      /\ Len(g.slugs) < Len(g.entries) /\ Len(g.slugs) \in Nat /\ Len(g.entries) \in Nat
  BY <1>1 DEF Jobs, Work
<1>4. base \in Bases
  BY <1>1, <1>3 DEF Work, NextEntry
<1>5. slug \in Slugs
  <2>1. Bases \subseteq Slugs
    BY DEF Slugs
  <2>2. g.suffix # 1 => g.suffix \in 2..MaxSuffix
    BY <1>2, <1>3, CatalogueConstants
  <2> HIDE DEF base, g
  <2> QED
    BY <1>4, <2>1, <2>2, CandidatesAreSlugs DEF Candidate
<1>6. CASE Taken(r, slug)
  <2> DEFINE n == g.suffix + 1
             j == [g EXCEPT !.suffix = n]
  <2>1. n \in Nat \ {0}
    BY <1>3
  <2> HIDE DEF g
  <2>2. [g EXCEPT !.suffix = @ + 1] = j
    OBVIOUS
  <2>3. job' = [job EXCEPT ![r] = j]
    BY <1>2, <1>6, <2>2
  <2> HIDE DEF n
  <2>4. j \in Jobs /\ j.step = "slug" /\ j.entries = g.entries /\ j.slugs = g.slugs /\ j.id = g.id
    BY <1>1, <2>1 DEF Jobs
  <2> HIDE DEF j
  <2>5. Work(j, product) /\ (scenario.requests = 1 => Knows(j, rows, product))
    BY <1>1, <2>4 DEF Work, Knows
  <2>6. job[r].step # "idle"
    BY <1>1 DEF g
  <2> QED
    BY <1>2, <2>3, <2>4, <2>5, <2>6, MoveKeeps
<1>7. CASE ~Taken(r, slug)
  <2>1. /\ slug \notin Range(g.slugs)
        /\ \A c \in rows : c.slug = slug => c.id = g.id
    BY <1>7 DEF Taken
  <2>2. \A i \in 1..Len(g.slugs) : g.slugs[i] # slug
    BY <1>3, <2>1 DEF Range
  <2>3. g.id = 0 => \A c \in rows : c.slug # slug
    <3>1. \A c \in rows : c.id # 0
      BY CatalogueConstants DEF IInv, Types, Category
    <3> QED
      BY <2>1, <3>1
  <2>4. job[r].step # "idle"
    BY <1>1
  <2> HIDE DEF g, slug
  <2>5. /\ chosen \in Seq(Slugs) /\ Len(chosen) = Len(g.slugs) + 1 /\ chosen[Len(chosen)] = slug
        /\ \A i \in 1..Len(g.slugs) : chosen[i] = g.slugs[i]
    BY <1>3, <1>5
  <2>6. step \in {"slug", "create", "title", "update"} /\ step \in Steps /\ 1 \in Nat \ {0}
    BY DEF Steps
  <2>7. /\ step = "slug" => Len(chosen) < Len(g.entries)
        /\ step = "create" => g.id = 0 /\ Len(chosen) = Len(g.entries)
        /\ step \in {"title", "update"} => g.id # 0
    BY <1>3, <2>5
  <2> HIDE DEF chosen, step
  <2> DEFINE j == [g EXCEPT !.slugs = chosen, !.suffix = 1, !.step = step]
  <2>8. j \in Jobs /\ j.step = step /\ j.entries = g.entries /\ j.slugs = chosen /\ j.id = g.id
    BY <1>1, <2>5, <2>6 DEF Jobs
  <2>9. job' = [job EXCEPT ![r] = j]
    BY <1>2, <1>7
  <2> HIDE DEF j
  <2>10. \A i, k \in 1..Len(chosen) : chosen[i] = chosen[k] => i = k
    <3>1. \A i \in 1..Len(chosen) : i = Len(chosen) \/ i \in 1..Len(g.slugs)
      BY <1>3, <2>5
    <3>2. \A i, k \in 1..Len(g.slugs) : g.slugs[i] = g.slugs[k] => i = k
      BY <1>1 DEF Work
    <3> QED
      BY <2>2, <2>5, <3>1, <3>2
  <2>11. Work(j, product)
    BY <1>1, <1>3, <2>6, <2>7, <2>8, <2>10 DEF Work
  <2>12. scenario.requests = 1 => Knows(j, rows, product)
    <3> SUFFICES ASSUME scenario.requests = 1 PROVE Knows(j, rows, product)
      OBVIOUS
    <3>1. Knows(g, rows, product)
      BY <1>1
    <3>2. g.id = 0 => \A c \in rows, i \in 1..Len(chosen) : c.slug # chosen[i]
      <4>1. \A i \in 1..Len(chosen) : i = Len(chosen) \/ i \in 1..Len(g.slugs)
        BY <1>3, <2>5
      <4>2. g.id = 0 => \A c \in rows, i \in 1..Len(g.slugs) : c.slug # g.slugs[i]
        BY <1>1, <3>1 DEF Knows
      <4> QED
        BY <2>3, <2>5, <4>1, <4>2
    <3>3. j.step # "delete" /\ g.step = "slug"
      BY <1>1, <2>6, <2>8
    <3>4. j.id = 0 =>
            /\ \A i, k \in 1..Len(j.entries) :
                 Fold[j.entries[i].title] = Fold[j.entries[k].title] => i = k
            /\ \A c \in rows, i \in 1..Len(j.entries) :
                 c.active => Fold[c.title] # Fold[j.entries[i].title]
      BY <2>8, <3>1, <3>3 DEF Knows
    <3>5. j.id # 0 => /\ \A c \in rows : c.id = j.id => c.active
                      /\ "renameCategory" \in scenario.ops \/ j.entries[1].title = NoTitle
      BY <2>8, <3>1, <3>3 DEF Knows
    <3> QED
      BY <2>8, <3>2, <3>3, <3>4, <3>5 DEF Knows
  <2> QED
    BY <1>2, <2>4, <2>8, <2>9, <2>11, <2>12, MoveKeeps
<1> QED
  BY <1>6, <1>7

LEMMA CheckTitleKeeps ==
  ASSUME IInv, NEW r \in Requests, CheckTitle(r)
  PROVE  IInv'
<1>1. /\ job[r].step = "title" /\ Goto(r, "update") /\ "update" \in Steps
      /\ UNCHANGED <<categoryVars, productVars, reviewVars, scenario>>
  BY DEF CheckTitle, At, Steps
<1>2. PICK j \in Jobs : /\ job' = [job EXCEPT ![r] = j] /\ j.step = "update"
                        /\ j.entries = job[r].entries /\ j.slugs = job[r].slugs /\ j.id = job[r].id
  BY <1>1, GotoIs
<1>3. Work(j, product)
  BY <1>1, <1>2 DEF IInv, Works, Work
<1>4. scenario.requests = 1 => Knows(j, rows, product)
  BY <1>1, <1>2 DEF IInv, Alone, Knows
<1> QED
  BY <1>1, <1>2, <1>3, <1>4, MoveKeeps

LEMMA DoneKeeps ==
  ASSUME IInv, NEW r \in Requests, job[r].step # "idle", Done(r),
         UNCHANGED <<categoryVars, productVars, reviewVars, scenario>>
  PROVE  IInv'
BY IdleFacts, MoveKeeps DEF Done

------------------------------------------------------------------------------
(* Writes of categories *)

\* A request writes categories and is over.
LEMMA RowsKeep ==
  ASSUME IInv, NEW r \in Requests, job[r].step # "idle", Done(r),
         UNCHANGED <<productVars, reviewVars, scenario>>,
         rows' \subseteq Category, lastRow' \in 0..MaxRow, RowsSound', ActiveTitlesDiffer'
  PROVE  IInv'
<1>1. scenario.requests = 1 => \A q \in Requests \ {r} : job[q].step = "idle"
  BY OthersAreIdle
<1>2. /\ product' = product /\ options' = options /\ lastOption' = lastOption /\ inCarts' = inCarts
      /\ reviews' = reviews /\ lastReview' = lastReview /\ scenario' = scenario
  BY DEF productVars, reviewVars
<1>3. job' = [job EXCEPT ![r] = Idle]
  BY DEF Done
<1>4. job' \in [Requests -> Jobs] /\ Works' /\ Alone'
  BY <1>1, <1>2, <1>3, IdleFacts, Together
<1>5. Types'
  BY <1>2, <1>4 DEF IInv, Types
<1>6. OptionsSound' /\ OneReviewEach'
  BY <1>2 DEF IInv, OptionsSound, CartKeepsItsOption, Made, OneReviewEach
<1> QED
  BY <1>4, <1>5, <1>6 DEF IInv

\* The rows that a request creates.
NewRow(r, i) ==
  [id |-> lastRow + i, title |-> job[r].entries[i].title, slug |-> job[r].slugs[i],
   active |-> job[r].entries[i].active]

LEMMA NewRows ==
  ASSUME IInv, NEW r \in Requests, CreateCategories(r)
  PROVE  /\ Len(job[r].entries) \in Nat /\ Len(job[r].slugs) = Len(job[r].entries)
         /\ lastRow \in Nat /\ lastRow' = lastRow + Len(job[r].entries) /\ lastRow' <= MaxRow
         /\ rows' = rows \cup {NewRow(r, i) : i \in 1..Len(job[r].entries)}
         /\ \A i \in 1..Len(job[r].entries) : NewRow(r, i) \in Category /\ NewRow(r, i) \notin rows
         /\ \A i \in 1..Len(job[r].entries), c \in rows : c.slug # job[r].slugs[i]
<1> DEFINE g == job[r]
           n == Len(g.entries)
<1>1. /\ g \in Jobs /\ g.step = "create" /\ Work(g, product)
      /\ lastRow \in 0..MaxRow /\ MaxRow \in Nat /\ scenario.rows \in 0..MaxRow
  BY CatalogueConstants, ScenarioFacts DEF IInv, Types, Works, CreateCategories, At
<1>2. g.entries \in Seq(Entry) /\ g.slugs \in Seq(Slugs)
  BY <1>1 DEF Jobs
<1>3. /\ n \in Nat /\ Len(g.slugs) = n /\ DOMAIN g.slugs = 1..n
      /\ \A i \in 1..n : g.entries[i].title \in Titles
  BY <1>1, <1>2 DEF Work
<1>4. \A i \in 1..n : g.entries[i].active \in BOOLEAN /\ g.slugs[i] \in Slugs
  <2>1. \A i \in 1..n : g.entries[i] \in Entry /\ g.slugs[i] \in Slugs
    BY <1>2, <1>3
  <2> QED
    BY <2>1 DEF Entry
<1>5. lastRow' = lastRow + n /\ lastRow' <= MaxRow /\ lastRow \in Nat
  BY <1>1, <1>3 DEF CreateCategories
<1>6. /\ \A i \in 1..n : SlugFree(g.slugs[i], 0)
      /\ rows' = rows \cup New(r, 1..n)
  BY <1>3 DEF CreateCategories, CreateAll
<1>7. New(r, 1..n) = {NewRow(r, i) : i \in 1..n}
  BY DEF New, NewRow
<1>8. ASSUME NEW i \in 1..n, NEW c \in rows PROVE c.slug # g.slugs[i]
  <2>1. c.id # 0
    BY <1>1 DEF IInv, Types, Category
  <2> QED
    BY <1>6, <2>1 DEF SlugFree
<1>9. ASSUME NEW i \in 1..n PROVE NewRow(r, i) \in Category
  <2>1. lastRow + i \in 1..MaxRow
    BY <1>1, <1>3, <1>5
  <2> QED
    BY <1>3, <1>4, <2>1 DEF NewRow, Category
<1>10. ASSUME NEW i \in 1..n PROVE NewRow(r, i) \notin rows
  <2>1. NewRow(r, i).slug = g.slugs[i]
    BY DEF NewRow
  <2> QED
    BY <1>8, <2>1
<1> QED
  BY <1>3, <1>5, <1>6, <1>7, <1>8, <1>9, <1>10

\* The id of a new row tells which entry it comes from.
LEMMA NewRowFields ==
  ASSUME NEW r \in Requests, NEW i
  PROVE  /\ NewRow(r, i).id = lastRow + i /\ NewRow(r, i).title = job[r].entries[i].title
         /\ NewRow(r, i).slug = job[r].slugs[i]
  BY DEF NewRow

LEMMA CreateCategoriesKeeps ==
  ASSUME IInv, NEW r \in Requests, CreateCategories(r)
  PROVE  IInv'
<1> DEFINE g == job[r]
           n == Len(g.entries)
<1>1. /\ n \in Nat /\ lastRow \in Nat /\ lastRow' = lastRow + n /\ lastRow' <= MaxRow /\ Len(g.slugs) = n
      /\ rows' = rows \cup {NewRow(r, i) : i \in 1..n}
      /\ \A i \in 1..n : NewRow(r, i) \in Category
      /\ \A i \in 1..n, c \in rows : c.slug # g.slugs[i]
  BY NewRows
<1>2. rows \subseteq Category /\ MaxRow \in Nat /\ \A c \in rows : c.id \in Nat /\ c.id <= lastRow
  BY CatalogueConstants DEF IInv, Types, RowsSound, Category
<1>3. rows' \subseteq Category /\ lastRow' \in 0..MaxRow
  BY <1>1, <1>2
<1>4. \A c \in rows' : c \in rows \/ \E i \in 1..n : c = NewRow(r, i)
  BY <1>1
<1>5. \A i \in 1..n : /\ NewRow(r, i).id = lastRow + i /\ NewRow(r, i).slug = g.slugs[i]
                      /\ NewRow(r, i).title = g.entries[i].title
  BY NewRowFields
<1>6. \A i, k \in 1..n : g.slugs[i] = g.slugs[k] => i = k
  BY <1>1 DEF IInv, Works, Work
<1> HIDE DEF n
<1>7. ASSUME NEW c \in rows', NEW d \in rows', c.id = d.id \/ c.slug = d.slug PROVE c = d
  <2>1. CASE c \in rows /\ d \in rows
    BY <1>7, <2>1 DEF IInv, RowsSound, SlugsAreUnique
  <2>2. ASSUME NEW x \in rows, NEW i \in 1..n PROVE x.id # lastRow + i /\ x.slug # g.slugs[i]
    BY <1>1, <1>2
  <2>3. CASE c \in rows /\ d \notin rows
    BY <1>4, <1>5, <1>7, <2>2, <2>3
  <2>4. CASE c \notin rows /\ d \in rows
    BY <1>4, <1>5, <1>7, <2>2, <2>4
  <2>5. CASE c \notin rows /\ d \notin rows
    <3>1. PICK i \in 1..n, k \in 1..n : c = NewRow(r, i) /\ d = NewRow(r, k)
      BY <1>4, <2>5
    <3>2. lastRow + i = lastRow + k \/ g.slugs[i] = g.slugs[k]
      BY <1>5, <1>7, <3>1
    <3>3. i = k
      BY <1>1, <1>6, <3>2
    <3> QED
      BY <3>1, <3>3
  <2> QED
    BY <2>1, <2>3, <2>4, <2>5
<1>8. \A c \in rows' : c.id <= lastRow'
  BY <1>1, <1>2, <1>4, <1>5
<1>9. RowsSound'
  BY <1>7, <1>8 DEF RowsSound, SlugsAreUnique
<1>10. /\ scenario' = scenario /\ job[r].step = "create" /\ Done(r)
       /\ UNCHANGED <<productVars, reviewVars, scenario>>
  BY DEF CreateCategories, At
<1>11. ActiveTitlesDiffer'
  <2> SUFFICES ASSUME scenario.requests = 1, "renameCategory" \notin scenario.ops,
                      NEW c \in rows', NEW d \in rows', c.active, d.active, Fold[c.title] = Fold[d.title]
               PROVE  c = d
    BY <1>10 DEF ActiveTitlesDiffer, Active
  <2>1. /\ \A i, k \in 1..n : Fold[g.entries[i].title] = Fold[g.entries[k].title] => i = k
        /\ \A x \in rows, i \in 1..n : x.active => Fold[x.title] # Fold[g.entries[i].title]
    <3>1. Knows(g, rows, product) /\ g.step = "create" /\ g.id = 0
      BY <1>10 DEF IInv, Alone, Works, Work
    <3> QED
      BY <3>1 DEF Knows, n
  <2>2. CASE c \in rows /\ d \in rows
    BY <2>2 DEF IInv, ActiveTitlesDiffer, Active
  <2>3. CASE c \in rows /\ d \notin rows
    BY <1>4, <1>5, <2>1, <2>3
  <2>4. CASE c \notin rows /\ d \in rows
    BY <1>4, <1>5, <2>1, <2>4
  <2>5. CASE c \notin rows /\ d \notin rows
    <3>1. PICK i \in 1..n, k \in 1..n : c = NewRow(r, i) /\ d = NewRow(r, k)
      BY <1>4, <2>5
    <3>2. i = k
      BY <1>5, <2>1, <3>1
    <3> QED
      BY <3>1, <3>2
  <2> QED
    BY <2>2, <2>3, <2>4, <2>5
<1> QED
  BY <1>3, <1>9, <1>10, <1>11, RowsKeep

\* One row is replaced by another of its id.
LEMMA ReplaceKeeps ==
  ASSUME IInv, NEW r \in Requests, job[r].step # "idle", Done(r),
         UNCHANGED <<lastRow, productVars, reviewVars, scenario>>,
         NEW c \in rows, NEW d \in Category, rows' = (rows \ {c}) \cup {d}, d.id = c.id,
         SlugFree(d.slug, c.id),
         scenario.requests = 1 /\ "renameCategory" \notin scenario.ops /\ d.active =>
           c.active /\ d.title = c.title
  PROVE  IInv'
<1>1. rows' \subseteq Category /\ lastRow' \in 0..MaxRow
  BY DEF IInv, Types
<1>2. RowsSound'
  BY DEF IInv, RowsSound, SlugsAreUnique, SlugFree
<1>3. ActiveTitlesDiffer'
  BY DEF IInv, ActiveTitlesDiffer, Active
<1> QED
  BY <1>1, <1>2, <1>3, RowsKeep

LEMMA UpdateRowKeeps ==
  ASSUME IInv, NEW r \in Requests, UpdateRow(r)
  PROVE  IInv'
<1> DEFINE g == job[r]
           e == g.entries[1]
<1>1. PICK c \in rows : /\ g.step = "update" /\ c.id = g.id /\ SlugFree(Changed(c, e, g.slugs).slug, c.id)
                        /\ rows' = (rows \ {c}) \cup {Changed(c, e, g.slugs)}
                        /\ Done(r) /\ UNCHANGED <<lastRow, productVars, reviewVars, scenario>>
  BY DEF UpdateRow, At
<1>2. g \in Jobs /\ Work(g, product) /\ c \in Category
  BY DEF IInv, Types, Works
<1>3. g.entries \in Seq(Entry) /\ g.slugs \in Seq(Slugs) /\ Len(g.entries) >= 1
  BY <1>1, <1>2 DEF Jobs, Work
<1>4. e \in Entry
  BY <1>3
<1>5. g.slugs # <<>> => g.slugs[1] \in Slugs
  BY <1>3
<1> DEFINE title == IF e.title = NoTitle THEN c.title ELSE e.title
           slug == IF g.slugs = <<>> THEN c.slug ELSE g.slugs[1]
           active == e.active
           d == Changed(c, e, g.slugs)
<1>6. title \in Titles /\ slug \in Slugs /\ active \in BOOLEAN
  BY <1>2, <1>4, <1>5 DEF Entry, Category
<1>7. d = [c EXCEPT !.title = title, !.slug = slug, !.active = active]
  BY DEF Changed
<1> HIDE DEF title, slug, active, d
<1>8. d \in Category /\ d.id = c.id /\ d.title = title
  BY <1>2, <1>6, <1>7 DEF Category
<1>9. scenario.requests = 1 /\ "renameCategory" \notin scenario.ops => c.active /\ title = c.title
  <2> SUFFICES ASSUME scenario.requests = 1, "renameCategory" \notin scenario.ops
               PROVE  c.active /\ title = c.title
    OBVIOUS
  <2>1. Knows(g, rows, product) /\ g.step = "update" /\ g.id # 0
    BY <1>1, <1>2 DEF IInv, Alone, Work
  <2> QED
    BY <1>1, <2>1 DEF Knows, title
<1>10. job[r].step # "idle" /\ SlugFree(d.slug, c.id) /\ rows' = (rows \ {c}) \cup {d}
  BY <1>1 DEF d
<1> QED
  BY <1>1, <1>8, <1>9, <1>10, ReplaceKeeps

LEMMA DeleteRowKeeps ==
  ASSUME IInv, NEW r \in Requests, DeleteRow(r)
  PROVE  IInv'
<1>1. PICK c \in rows : /\ job[r].step = "delete" /\ rows' = (rows \ {c}) \cup {[c EXCEPT !.active = FALSE]}
                        /\ Done(r) /\ UNCHANGED <<lastRow, productVars, reviewVars, scenario>>
  BY DEF DeleteRow, At
<1> DEFINE d == [c EXCEPT !.active = FALSE]
<1>2. d \in Category /\ d.id = c.id /\ d.slug = c.slug /\ d.active = FALSE
  BY DEF IInv, Types, Category
<1>3. rows' = (rows \ {c}) \cup {d}
  BY <1>1
<1> HIDE DEF d
<1>4. SlugFree(d.slug, c.id)
  BY <1>2 DEF IInv, RowsSound, SlugsAreUnique, SlugFree
<1> QED
  BY <1>1, <1>2, <1>3, <1>4, ReplaceKeeps

------------------------------------------------------------------------------
(* Products *)

LEMMA CategoryIdsAreIds ==
  ASSUME IInv
  PROVE  CategoryIds \subseteq 0..MaxRow
BY CatalogueConstants DEF IInv, Types, Category, CategoryIds

\* An upload of n products is a sequence of products.
LEMMA ListsAreSequences ==
  ASSUME IInv, NEW list \in Lists
  PROVE  list \in Seq(Products) /\ Len(list) >= 1
<1>1. PICK n \in 1..MaxList : list \in [1..n -> scenario.products]
  BY DEF Lists
<1>2. scenario.products \subseteq Products /\ n \in Nat /\ n >= 1
  BY <1>1, ScenarioFacts, CatalogueConstants DEF IInv
<1>3. list \in [1..n -> Products]
  BY <1>1, <1>2
<1> QED
  BY <1>2, <1>3

LEMMA BulkUploadProductsKeeps ==
  ASSUME IInv, NEW r \in Requests, NEW list \in Lists, BulkUploadProducts(r, list)
  PROVE  IInv'
<1>1. list \in Seq(Products) /\ Len(list) >= 1
  BY ListsAreSequences
<1> DEFINE j == [Idle EXCEPT !.step = "upload", !.list = list]
<1>2. j \in Jobs /\ j.step = "upload" /\ j.slugs = <<>> /\ j.list = list
  BY <1>1, IdleFacts DEF Jobs, Steps
<1>3. Begin(r, "bulkProducts", j)
  BY DEF BulkUploadProducts
<1> HIDE DEF j
<1>4. Work(j, product)
  BY <1>1, <1>2 DEF Work
<1>5. Knows(j, rows, product)
  BY <1>2 DEF Knows
<1> QED
  BY <1>2, <1>3, <1>4, <1>5, BeginKeeps

LEMMA UpdateProductKeeps ==
  ASSUME IInv, NEW r \in Requests, NEW p \in Products, NEW s \in {"ACTIVE", "INACTIVE"},
         NEW id \in CategoryIds, NEW b \in BOOLEAN, UpdateProduct(r, p, s, id, b)
  PROVE  IInv'
<1>1. id \in 0..MaxRow /\ s \in Statuses /\ product[p].status # "NONE" /\ "find" \in Steps
  BY CategoryIdsAreIds DEF UpdateProduct, Found, Made, Statuses, Steps
<1> DEFINE j == [Idle EXCEPT !.step = "find", !.product = p, !.status = s, !.id = id, !.replace = b]
<1>2. j \in Jobs /\ j.step = "find" /\ j.slugs = <<>> /\ j.product = p /\ j.replace = b
  BY <1>1, IdleFacts DEF Jobs
<1>3. Begin(r, "updateProduct", j) /\ (b => KindOf[p] = "SUBSCRIPTION")
  BY DEF UpdateProduct
<1> HIDE DEF j
<1>4. Work(j, product)
  BY <1>1, <1>2, <1>3 DEF Work
<1>5. Knows(j, rows, product)
  BY <1>2 DEF Knows
<1> QED
  BY <1>2, <1>3, <1>4, <1>5, BeginKeeps

LEMMA DeleteProductKeeps ==
  ASSUME IInv, NEW r \in Requests, NEW p \in Products, DeleteProduct(r, p)
  PROVE  IInv'
<1>1. product[p].status # "NONE" /\ "ARCHIVED" \in Statuses /\ "find" \in Steps
  BY DEF DeleteProduct, Found, Made, Statuses, Steps
<1> DEFINE j == [Idle EXCEPT !.step = "find", !.product = p, !.status = "ARCHIVED"]
<1>2. j \in Jobs /\ j.step = "find" /\ j.slugs = <<>> /\ j.product = p /\ ~j.replace
  BY <1>1, IdleFacts DEF Jobs
<1>3. Begin(r, "deleteProduct", j)
  BY DEF DeleteProduct
<1> HIDE DEF j
<1>4. Work(j, product)
  BY <1>1, <1>2 DEF Work
<1>5. Knows(j, rows, product)
  BY <1>2 DEF Knows
<1> QED
  BY <1>2, <1>3, <1>4, <1>5, BeginKeeps

LEMMA FindRecordKeeps ==
  ASSUME IInv, NEW r \in Requests, FindRecord(r)
  PROVE  IInv'
<1> DEFINE step == IF job[r].status = "ARCHIVED" THEN "archive" ELSE "write"
<1>1. /\ job[r].step = "find" /\ Goto(r, step) /\ step \in Steps /\ step \in {"archive", "write"}
      /\ UNCHANGED <<categoryVars, productVars, reviewVars, scenario>>
  BY DEF FindRecord, At, Steps
<1> HIDE DEF step
<1>2. PICK j \in Jobs : /\ job' = [job EXCEPT ![r] = j] /\ j.step = step /\ j.slugs = job[r].slugs
                        /\ j.product = job[r].product /\ j.replace = job[r].replace
  BY <1>1, GotoIs
<1>3. Work(j, product)
  BY <1>1, <1>2 DEF IInv, Works, Work
<1>4. Knows(j, rows, product)
  BY <1>1, <1>2 DEF Knows
<1> QED
  BY <1>1, <1>2, <1>3, <1>4, MoveKeeps

\* A product that is new has no cart row, and its first option was no product's.
LEMMA InsertKeeps ==
  ASSUME IInv, NEW p \in Products, NEW id \in 0..MaxRow, Insert(p, id),
         UNCHANGED <<categoryVars, scenario>>, job' \in [Requests -> Jobs], Works', Alone'
  PROVE  IInv'
<1>1. /\ rows' = rows /\ lastRow' = lastRow /\ scenario' = scenario
      /\ inCarts' = inCarts /\ reviews' = reviews /\ lastReview' = lastReview
  BY DEF Insert, categoryVars, reviewVars
<1> DEFINE g == product[p]
           d == [g EXCEPT !.status = "ACTIVE", !.category = id]
<1>2. /\ product[p].status = "NONE" /\ lastOption < scenario.options /\ lastOption' = lastOption + 1
      /\ options' = [options EXCEPT ![p] = {lastOption + 1}]
      /\ product' = [product EXCEPT ![p] = d]
  BY DEF Insert, Made
<1>3. /\ lastOption \in 0..MaxOption /\ MaxOption \in Nat /\ scenario.options \in 0..MaxOption
      /\ g \in Product /\ product \in [Products -> Product] /\ options \in [Products -> SUBSET (1..MaxOption)]
  BY CatalogueConstants, ScenarioFacts DEF IInv, Types
<1> HIDE DEF g
<1>4. d \in Product /\ d.status = "ACTIVE"
  BY <1>3 DEF Product
<1> HIDE DEF d
<1>5. /\ product' \in [Products -> Product] /\ product'[p] = d
      /\ \A q \in Products : q # p => product'[q] = product[q]
  BY <1>2, <1>3, <1>4
<1>6. lastOption + 1 \in 1..MaxOption /\ lastOption' \in 0..MaxOption
  BY <1>2, <1>3
<1>7. /\ options' \in [Products -> SUBSET (1..MaxOption)] /\ options'[p] = {lastOption + 1}
      /\ \A q \in Products : q # p => options'[q] = options[q]
  BY <1>2, <1>3, <1>6
<1>8. Types'
  BY <1>1, <1>5, <1>6, <1>7 DEF IInv, Types
<1>9. RowsSound' /\ ActiveTitlesDiffer' /\ OneReviewEach'
  BY <1>1 DEF IInv, RowsSound, SlugsAreUnique, ActiveTitlesDiffer, Active, OneReviewEach
<1>10. OptionsSound'
  <2>1. \A q \in Products : options'[q] \subseteq 1..lastOption'
    <3>1. \A q \in Products : options[q] \subseteq 1..lastOption
      BY DEF IInv, OptionsSound
    <3> QED
      BY <1>2, <1>3, <1>7, <3>1
  <2>2. ASSUME NEW x \in Products, NEW y \in Products, x # y
        PROVE  options'[x] \cap options'[y] = {}
    <3>1. \A q \in Products : lastOption + 1 \notin options[q]
      BY <1>3 DEF IInv, OptionsSound
    <3> QED
      BY <1>7, <2>2, <3>1 DEF IInv, OptionsSound
  <2>3. \A i \in inCarts : i.product \in Products /\ i.product # p /\ product[i.product].status # "NONE"
    BY <1>2 DEF IInv, Types, OptionsSound, Made, CartRow
  <2>4. \A i \in inCarts' : product'[i.product].status # "NONE"
    BY <1>1, <1>5, <2>3
  <2>5. CartKeepsItsOption'
    BY <1>1, <1>7, <2>3 DEF IInv, OptionsSound, CartKeepsItsOption
  <2> QED
    BY <2>1, <2>2, <2>4, <2>5 DEF OptionsSound, Made
<1> QED
  BY <1>8, <1>9, <1>10 DEF IInv

\* What an insertion changes in product.
LEMMA InsertIsNew ==
  ASSUME IInv, NEW p \in Products, NEW id, Insert(p, id)
  PROVE  \A q \in Products : product[q].status # "NONE" => product'[q].status # "NONE"
BY DEF IInv, Types, Insert, Made

LEMMA AddProductKeeps ==
  ASSUME IInv, NEW r \in Requests, NEW p \in Products, NEW id \in CategoryIds, AddProduct(r, p, id)
  PROVE  IInv'
<1>1. /\ Insert(p, id) /\ UNCHANGED <<categoryVars, scenario>> /\ job' = job /\ scenario' = scenario
      /\ id \in 0..MaxRow
  BY CategoryIdsAreIds DEF AddProduct
<1>2. scenario.requests = 1 => \A q \in Requests : job[q].step = "idle"
  BY DEF AddProduct, Undisturbed, At
<1>3. Works' /\ Alone'
  BY <1>1, <1>2, InsertIsNew, Still
<1>4. job' \in [Requests -> Jobs]
  BY <1>1 DEF IInv, Types
<1> QED
  BY <1>1, <1>3, <1>4, InsertKeeps

LEMMA HeadAndTail ==
  ASSUME NEW S, NEW list \in Seq(S), Len(list) >= 1
  PROVE  Head(list) \in S /\ (Len(list) # 1 => Tail(list) \in Seq(S) /\ Len(Tail(list)) >= 1)
<1>1. Head(list) \in S
  OBVIOUS
<1>2. Tail(list) \in Seq(S)
  OBVIOUS
<1>3. Len(Tail(list)) = Len(list) - 1
  OBVIOUS
<1> QED
  BY <1>1, <1>2, <1>3

LEMMA UploadNextKeeps ==
  ASSUME IInv, NEW r \in Requests, UploadNext(r)
  PROVE  IInv'
<1> DEFINE g == job[r]
           list == g.list
           rest == Tail(list)
           j == IF Len(list) = 1 THEN Idle ELSE [g EXCEPT !.list = rest]
<1>1. g \in Jobs /\ g.step = "upload" /\ Work(g, product)
  BY DEF IInv, Types, Works, UploadNext, At
<1>2. list \in Seq(Products) /\ Len(list) >= 1
  BY <1>1 DEF Jobs, Work
<1>3. Head(list) \in Products /\ (Len(list) # 1 => rest \in Seq(Products) /\ Len(rest) >= 1)
  BY <1>2, HeadAndTail
<1>4. 0 \in 0..MaxRow
  BY CatalogueConstants
<1>5. /\ Insert(Head(list), 0) /\ UNCHANGED <<categoryVars, scenario>> /\ scenario' = scenario
      /\ IF Len(list) = 1 THEN job' = [job EXCEPT ![r] = Idle] ELSE job' = [job EXCEPT ![r].list = rest]
  BY DEF UploadNext, Done
<1>6. job' = [job EXCEPT ![r] = j]
  BY <1>5
<1>7. job[r].step # "idle"
  BY <1>1
<1> HIDE DEF g, list, rest
<1>8. j \in Jobs /\ Work(j, product') /\ Knows(j, rows', product')
  <2>1. CASE Len(list) = 1
    <3>1. j = Idle
      BY <2>1
    <3> QED
      BY <3>1, IdleFacts
  <2>2. CASE Len(list) # 1
    <3> DEFINE k == [g EXCEPT !.list = rest]
    <3>1. j = k
      BY <2>2
    <3>2. k \in Jobs /\ k.step = "upload" /\ k.slugs = g.slugs /\ k.list = rest
      BY <1>1, <1>3, <2>2 DEF Jobs
    <3> HIDE DEF k, j
    <3>3. Work(k, product')
      BY <1>1, <1>3, <2>2, <3>2 DEF Work
    <3>4. Knows(k, rows', product')
      BY <3>2 DEF Knows
    <3> QED
      BY <3>1, <3>2, <3>3, <3>4
  <2> QED
    BY <2>1, <2>2
<1> HIDE DEF j
<1>9. scenario.requests = 1 => \A q \in Requests \ {r} : job[q].step = "idle"
  BY <1>7, OthersAreIdle
<1>10. \A q \in Products : product[q].status # "NONE" => product'[q].status # "NONE"
  BY <1>3, <1>5, InsertIsNew
<1>11. job' \in [Requests -> Jobs] /\ Works' /\ Alone'
  BY <1>5, <1>6, <1>8, <1>9, <1>10, Together
<1> QED
  BY <1>3, <1>4, <1>5, <1>11, InsertKeeps

\* A request writes a product, its options and their cart rows, and is over.
LEMMA ProductKeeps ==
  ASSUME IInv, NEW r \in Requests, job[r].step # "idle", Done(r),
         UNCHANGED <<categoryVars, reviewVars, scenario>>,
         product' \in [Products -> Product],
         \A q \in Products : product[q].status # "NONE" => product'[q].status # "NONE",
         options' \in [Products -> SUBSET (1..MaxOption)], lastOption' \in 0..MaxOption,
         inCarts' \subseteq CartRow, OptionsSound'
  PROVE  IInv'
<1>1. scenario.requests = 1 => \A q \in Requests \ {r} : job[q].step = "idle"
  BY OthersAreIdle
<1>2. /\ rows' = rows /\ lastRow' = lastRow /\ scenario' = scenario
      /\ reviews' = reviews /\ lastReview' = lastReview
  BY DEF categoryVars, reviewVars
<1>3. job' = [job EXCEPT ![r] = Idle]
  BY DEF Done
<1>4. job' \in [Requests -> Jobs] /\ Works' /\ Alone'
  BY <1>1, <1>2, <1>3, IdleFacts, Together
<1>5. Types'
  BY <1>2, <1>4 DEF IInv, Types
<1>6. RowsSound' /\ ActiveTitlesDiffer' /\ OneReviewEach'
  BY <1>2 DEF IInv, RowsSound, SlugsAreUnique, ActiveTitlesDiffer, Active, OneReviewEach
<1> QED
  BY <1>4, <1>5, <1>6 DEF IInv

\* An update of a subscription replaces its plans; the cart rows of gift cards and
\* top-ups point to none of them.
LEMMA WriteProductKeeps ==
  ASSUME IInv, NEW r \in Requests, WriteProduct(r)
  PROVE  IInv'
<1> DEFINE g == job[r]
           p == g.product
           old == product[p]
           id == IF g.id = 0 THEN old.category ELSE g.id
           d == [old EXCEPT !.status = g.status, !.category = id]
<1>1. /\ g \in Jobs /\ g.step = "write" /\ Work(g, product)
      /\ product \in [Products -> Product] /\ options \in [Products -> SUBSET (1..MaxOption)]
      /\ lastOption \in 0..MaxOption /\ MaxOption \in Nat /\ scenario.options \in 0..MaxOption
      /\ inCarts \subseteq CartRow
  BY CatalogueConstants, ScenarioFacts DEF IInv, Types, Works, WriteProduct, At
<1>2. p \in Products /\ old.status # "NONE" /\ (g.replace => KindOf[p] = "SUBSCRIPTION")
  BY <1>1 DEF Work
<1>3. g.status \in Statuses /\ id \in 0..MaxRow /\ old \in Product
  BY <1>1, <1>2 DEF Jobs, Product
<1>4. /\ product' = [product EXCEPT ![p].status = g.status,
                                    ![p].category = IF g.id = 0 THEN @ ELSE g.id]
      /\ Done(r) /\ UNCHANGED <<categoryVars, reviewVars, scenario>>
      /\ IF g.replace
         THEN /\ lastOption < scenario.options /\ lastOption' = lastOption + 1
              /\ options' = [options EXCEPT ![p] = {lastOption + 1}]
              /\ inCarts' = Unlinked(options[p])
         ELSE options' = options /\ lastOption' = lastOption /\ inCarts' = inCarts
  BY DEF WriteProduct, Replaces
<1>5. product' = [product EXCEPT ![p] = d]
  BY <1>1, <1>2, <1>4
<1> HIDE DEF g, p, old, id
<1>6. d \in Product /\ d.status # "NONE"
  BY <1>3 DEF Product, Statuses
<1> HIDE DEF d
<1>7. /\ product' \in [Products -> Product] /\ product'[p] = d
      /\ \A q \in Products : product[q].status # "NONE" => product'[q].status # "NONE"
  BY <1>1, <1>2, <1>5, <1>6
<1>8. job[r].step # "idle"
  BY <1>1 DEF g
<1>9. \A i \in inCarts : i \in CartRow /\ i.product \in Products /\ product[i.product].status # "NONE"
  BY <1>1 DEF IInv, OptionsSound, Made, CartRow
<1>10. CASE ~g.replace
  <2>1. options' = options /\ lastOption' = lastOption /\ inCarts' = inCarts
    BY <1>4, <1>10
  <2>2. OptionsSound'
    BY <1>7, <1>9, <2>1 DEF IInv, OptionsSound, CartKeepsItsOption, Made
  <2> QED
    BY <1>1, <1>4, <1>7, <1>8, <2>1, <2>2, ProductKeeps
<1>11. CASE g.replace
  <2>1. /\ lastOption < scenario.options /\ lastOption' = lastOption + 1
        /\ options' = [options EXCEPT ![p] = {lastOption + 1}]
        /\ inCarts' = Unlinked(options[p]) /\ KindOf[p] = "SUBSCRIPTION"
    BY <1>2, <1>4, <1>11
  <2>2. lastOption + 1 \in 1..MaxOption /\ lastOption' \in 0..MaxOption
    BY <1>1, <2>1
  <2>3. /\ options' \in [Products -> SUBSET (1..MaxOption)] /\ options'[p] = {lastOption + 1}
        /\ \A q \in Products : q # p => options'[q] = options[q]
    BY <1>1, <1>2, <2>1, <2>2
  <2>4. \A k \in inCarts' : \E i \in inCarts :
          \/ k = i /\ i.option \notin options[p]
          \/ k = [i EXCEPT !.option = NoOption] /\ i.option \in options[p]
    BY <2>1 DEF Unlinked
  <2>5. ASSUME NEW i \in inCarts
        PROVE  /\ [i EXCEPT !.option = NoOption] \in CartRow
               /\ [i EXCEPT !.option = NoOption].product = i.product
    BY <1>9 DEF CartRow
  <2>6. inCarts' \subseteq CartRow
    BY <1>9, <2>4, <2>5
  <2>7. \A k \in inCarts' : product'[k.product].status # "NONE"
    <3>1. \A k \in inCarts' : \E i \in inCarts : k.product = i.product
      BY <2>4, <2>5
    <3> QED
      BY <1>7, <1>9, <3>1
  <2>8. ASSUME NEW k \in inCarts', KindOf[k.product] # "SUBSCRIPTION" PROVE k.option \in options'[k.product]
    <3>1. PICK i \in inCarts :
            \/ k = i /\ i.option \notin options[p]
            \/ k = [i EXCEPT !.option = NoOption] /\ i.option \in options[p]
      BY <2>4
    <3>2. k.product = i.product /\ i.product \in Products /\ i.product # p
      BY <1>9, <2>1, <2>5, <2>8, <3>1
    <3>3. i.option \in options[i.product]
      BY <2>8, <3>2 DEF IInv, OptionsSound, CartKeepsItsOption
    <3>4. options[i.product] \cap options[p] = {}
      BY <1>2, <3>2 DEF IInv, OptionsSound
    <3>5. k = i
      BY <3>1, <3>3, <3>4
    <3> QED
      BY <2>3, <3>2, <3>3, <3>5
  <2>9. \A q \in Products : options'[q] \subseteq 1..lastOption' /\ lastOption + 1 \notin options[q]
    <3>1. \A q \in Products : options[q] \subseteq 1..lastOption
      BY DEF IInv, OptionsSound
    <3> QED
      BY <1>1, <2>1, <2>3, <3>1
  <2>10. \A x, y \in Products : x # y => options'[x] \cap options'[y] = {}
    <3>1. \A x, y \in Products : x # y => options[x] \cap options[y] = {}
      BY DEF IInv, OptionsSound
    <3> QED
      BY <2>3, <2>9, <3>1
  <2>11. OptionsSound'
    BY <2>7, <2>8, <2>9, <2>10 DEF OptionsSound, CartKeepsItsOption, Made
  <2> QED
    BY <1>4, <1>7, <1>8, <2>2, <2>3, <2>6, <2>11, ProductKeeps
<1> QED
  BY <1>10, <1>11

LEMMA ArchiveProductKeeps ==
  ASSUME IInv, NEW r \in Requests, ArchiveProduct(r)
  PROVE  IInv'
<1> DEFINE p == job[r].product
           old == product[p]
           d == Archived(old)
<1>1. /\ job[r].step = "archive" /\ Work(job[r], product) /\ product \in [Products -> Product]
      /\ options \in [Products -> SUBSET (1..MaxOption)] /\ lastOption \in 0..MaxOption
      /\ inCarts \subseteq CartRow
  BY DEF IInv, Types, Works, ArchiveProduct, At
<1>2. p \in Products
  BY <1>1 DEF Work
<1>3. /\ product' = [product EXCEPT ![p] = d]
      /\ Done(r) /\ UNCHANGED <<categoryVars, options, lastOption, inCarts, reviewVars, scenario>>
  BY DEF ArchiveProduct
<1>4. old \in Product
  BY <1>1, <1>2
<1> HIDE DEF p, old
<1>5. d \in Product /\ d.status # "NONE"
  BY <1>4 DEF Product, Archived
<1> HIDE DEF d
<1>6. /\ product' \in [Products -> Product]
      /\ \A q \in Products : product[q].status # "NONE" => product'[q].status # "NONE"
  BY <1>1, <1>2, <1>3, <1>5
<1>7. OptionsSound'
  <2>1. \A i \in inCarts : i.product \in Products
    BY <1>1 DEF CartRow
  <2> QED
    BY <1>3, <1>6, <2>1 DEF IInv, OptionsSound, CartKeepsItsOption, Made
<1>8. UNCHANGED <<categoryVars, reviewVars, scenario>>
  BY <1>3
<1> QED
  BY <1>1, <1>3, <1>6, <1>7, <1>8, ProductKeeps

LEMMA AddToCartKeeps ==
  ASSUME IInv, NEW p \in Products, AddToCart(p)
  PROVE  IInv'
<1>1. PICK o \in options[p] :
        /\ product[p].status # "NONE" /\ inCarts' = inCarts \cup {[product |-> p, option |-> o]}
        /\ UNCHANGED <<categoryVars, product, options, lastOption, reviewVars, job, scenario>>
  BY DEF AddToCart, OnSale, Found, Made
<1>2. /\ rows' = rows /\ lastRow' = lastRow /\ product' = product /\ options' = options
      /\ lastOption' = lastOption /\ reviews' = reviews /\ lastReview' = lastReview
      /\ job' = job /\ scenario' = scenario
  BY <1>1 DEF categoryVars, reviewVars
<1> DEFINE k == [product |-> p, option |-> o]
<1>3. k \in CartRow /\ k.product = p /\ k.option = o
  BY DEF IInv, Types, CartRow
<1>4. inCarts' = inCarts \cup {k}
  BY <1>1
<1> HIDE DEF k
<1>5. Works' /\ Alone'
  BY <1>2, Still
<1>6. Types'
  BY <1>2, <1>3, <1>4 DEF IInv, Types
<1>7. RowsSound' /\ ActiveTitlesDiffer' /\ OneReviewEach'
  BY <1>2 DEF IInv, RowsSound, SlugsAreUnique, ActiveTitlesDiffer, Active, OneReviewEach
<1>8. OptionsSound'
  BY <1>1, <1>2, <1>3, <1>4 DEF IInv, OptionsSound, CartKeepsItsOption, Made
<1> QED
  BY <1>5, <1>6, <1>7, <1>8 DEF IInv

------------------------------------------------------------------------------
(* Reviews *)

LEMMA CreateReviewKeeps ==
  ASSUME IInv, NEW r \in Requests, NEW u \in Users, NEW p \in Products, NEW n \in Ratings,
         CreateReview(r, u, p, n)
  PROVE  IInv'
<1> DEFINE j == [Idle EXCEPT !.step = "existing", !.user = u, !.product = p, !.rating = n]
<1>1. j \in Jobs /\ j.step = "existing" /\ j.slugs = <<>> /\ j.user = u /\ j.product = p
  BY IdleFacts DEF Jobs, Steps
<1>2. Begin(r, "review", j)
  BY DEF CreateReview
<1> HIDE DEF j
<1>3. Work(j, product)
  BY <1>1 DEF Work
<1>4. Knows(j, rows, product)
  BY <1>1 DEF Knows
<1> QED
  BY <1>1, <1>2, <1>3, <1>4, BeginKeeps

LEMMA FindExistingReviewKeeps ==
  ASSUME IInv, NEW r \in Requests, FindExistingReview(r)
  PROVE  IInv'
<1>1. /\ job[r].step = "existing" /\ Goto(r, "insert") /\ "insert" \in Steps
      /\ UNCHANGED <<categoryVars, productVars, reviewVars, scenario>>
  BY DEF FindExistingReview, At, Steps
<1>2. PICK j \in Jobs : /\ job' = [job EXCEPT ![r] = j] /\ j.step = "insert" /\ j.slugs = job[r].slugs
                        /\ j.user = job[r].user /\ j.product = job[r].product
  BY <1>1, GotoIs
<1>3. Work(j, product)
  BY <1>1, <1>2 DEF IInv, Works, Work
<1>4. Knows(j, rows, product)
  BY <1>2 DEF Knows
<1> QED
  BY <1>1, <1>2, <1>3, <1>4, MoveKeeps

\* A customer begins to change or to delete a review.
LEMMA AuthorKeeps ==
  ASSUME IInv, NEW r \in Requests, NEW u \in Users, NEW v \in reviews, NEW n \in Ratings,
         UpdateReview(r, u, v, n) \/ DeleteReview(r, u, v)
  PROVE  IInv'
<1> DEFINE id == v.id
           k == [Idle EXCEPT !.step = "revise", !.user = u, !.review = id, !.rating = n]
           j == [Idle EXCEPT !.step = "remove", !.user = u, !.review = id]
<1>1. id \in 0..MaxReview
  BY CatalogueConstants DEF IInv, Types, Review
<1>2. Begin(r, "revise", k) \/ Begin(r, "remove", j)
  BY DEF UpdateReview, DeleteReview
<1> HIDE DEF id
<1>3. k \in Jobs /\ k.step = "revise" /\ k.slugs = <<>>
  BY <1>1, IdleFacts DEF Jobs, Steps
<1>4. j \in Jobs /\ j.step = "remove" /\ j.slugs = <<>>
  BY <1>1, IdleFacts DEF Jobs, Steps
<1> HIDE DEF j, k
<1>5. Work(j, product) /\ Knows(j, rows, product)
  BY <1>4 DEF Work, Knows
<1>6. Work(k, product) /\ Knows(k, rows, product)
  BY <1>3 DEF Work, Knows
<1>7. CASE Begin(r, "revise", k)
  BY <1>3, <1>6, <1>7, BeginKeeps
<1>8. CASE Begin(r, "remove", j)
  BY <1>4, <1>5, <1>8, BeginKeeps
<1> QED
  BY <1>2, <1>7, <1>8

\* A request writes reviews and is over.
LEMMA ReviewsKeep ==
  ASSUME IInv, NEW r \in Requests, job[r].step # "idle", Done(r),
         UNCHANGED <<categoryVars, productVars, scenario>>,
         reviews' \subseteq Review, lastReview' \in 0..MaxReview, OneReviewEach'
  PROVE  IInv'
<1>1. scenario.requests = 1 => \A q \in Requests \ {r} : job[q].step = "idle"
  BY OthersAreIdle
<1>2. /\ rows' = rows /\ lastRow' = lastRow /\ scenario' = scenario /\ product' = product
      /\ options' = options /\ lastOption' = lastOption /\ inCarts' = inCarts
  BY DEF categoryVars, productVars
<1>3. job' = [job EXCEPT ![r] = Idle]
  BY DEF Done
<1>4. job' \in [Requests -> Jobs] /\ Works' /\ Alone'
  BY <1>1, <1>2, <1>3, IdleFacts, Together
<1>5. Types'
  BY <1>2, <1>4 DEF IInv, Types
<1>6. RowsSound' /\ ActiveTitlesDiffer' /\ OptionsSound'
  BY <1>2 DEF IInv, RowsSound, SlugsAreUnique, ActiveTitlesDiffer, Active, OptionsSound,
              CartKeepsItsOption, Made
<1> QED
  BY <1>4, <1>5, <1>6 DEF IInv

\* The unique key refuses the second review, whatever the request read before.
LEMMA InsertReviewKeeps ==
  ASSUME IInv, NEW r \in Requests, InsertReview(r)
  PROVE  IInv'
<1> DEFINE g == job[r]
           v == [id |-> lastReview', user |-> g.user, product |-> g.product, rating |-> g.rating]
<1>1. /\ g \in Jobs /\ g.step = "insert" /\ Work(g, product)
      /\ lastReview \in 0..MaxReview /\ MaxReview \in Nat /\ reviews \subseteq Review
  BY CatalogueConstants DEF IInv, Types, Works, InsertReview, At
<1>2. g.user \in Users /\ g.product \in Products /\ g.rating \in Ratings
  BY <1>1 DEF Work, Jobs
<1>3. /\ lastReview' = lastReview + 1 /\ lastReview < MaxReview /\ reviews' = reviews \cup {v}
      /\ \A w \in reviews : ~(w.user = g.user /\ w.product = g.product)
      /\ Done(r) /\ UNCHANGED <<categoryVars, productVars, scenario>>
  BY DEF InsertReview, ReviewFree, Reviewed
<1>4. lastReview' \in 1..MaxReview
  BY <1>1, <1>3
<1>5. v \in Review /\ v.user = g.user /\ v.product = g.product
  BY <1>2, <1>4 DEF Review
<1> HIDE DEF v
<1>6. OneReviewEach'
  BY <1>3, <1>5 DEF IInv, OneReviewEach
<1>7. reviews' \subseteq Review /\ lastReview' \in 0..MaxReview
  BY <1>1, <1>3, <1>4, <1>5
<1>8. job[r].step # "idle"
  BY <1>1
<1> QED
  BY <1>3, <1>6, <1>7, <1>8, ReviewsKeep

LEMMA WriteReviewKeeps ==
  ASSUME IInv, NEW r \in Requests, WriteReview(r)
  PROVE  IInv'
<1> DEFINE n == job[r].rating
<1>1. PICK v \in reviews :
        /\ job[r].step = "revise" /\ reviews' = (reviews \ {v}) \cup {[v EXCEPT !.rating = n]}
        /\ Done(r) /\ UNCHANGED <<categoryVars, productVars, lastReview, scenario>>
  BY DEF WriteReview, At
<1>2. v \in Review /\ n \in Ratings
  BY DEF IInv, Types, Jobs
<1> DEFINE w == [v EXCEPT !.rating = n]
<1> HIDE DEF n
<1>3. w \in Review /\ w.user = v.user /\ w.product = v.product
  BY <1>2 DEF Review
<1>4. reviews' = (reviews \ {v}) \cup {w} /\ lastReview' = lastReview
  BY <1>1
<1> HIDE DEF w
<1>5. OneReviewEach' /\ reviews' \subseteq Review /\ lastReview' \in 0..MaxReview
  BY <1>3, <1>4 DEF IInv, Types, OneReviewEach
<1>6. job[r].step # "idle" /\ UNCHANGED <<categoryVars, productVars, scenario>>
  BY <1>1
<1> QED
  BY <1>1, <1>5, <1>6, ReviewsKeep

LEMMA RemoveReviewKeeps ==
  ASSUME IInv, NEW r \in Requests, RemoveReview(r)
  PROVE  IInv'
<1>1. PICK v \in reviews :
        /\ job[r].step = "remove" /\ reviews' = reviews \ {v}
        /\ Done(r) /\ UNCHANGED <<categoryVars, productVars, lastReview, scenario>>
  BY DEF RemoveReview, At
<1>2. OneReviewEach' /\ reviews' \subseteq Review /\ lastReview' \in 0..MaxReview
  BY <1>1 DEF IInv, Types, OneReviewEach
<1>3. job[r].step # "idle" /\ UNCHANGED <<categoryVars, productVars, scenario>>
  BY <1>1
<1> QED
  BY <1>1, <1>2, <1>3, ReviewsKeep

------------------------------------------------------------------------------
(* The theorems *)

LEMMA InitEstablishes == Init => IInv
<1> SUFFICES ASSUME Init PROVE IInv
  OBVIOUS
<1>1. /\ scenario \in Scenarios /\ rows = {} /\ lastRow = 0 /\ options = [p \in Products |-> {}]
      /\ product = [p \in Products |-> [status |-> "NONE", deleted |-> FALSE, category |-> 0]]
      /\ lastOption = 0 /\ inCarts = {} /\ reviews = {} /\ lastReview = 0
      /\ job = [r \in Requests |-> Idle]
  BY DEF Init
<1>2. MaxRow \in Nat /\ MaxOption \in Nat /\ MaxReview \in Nat
  BY CatalogueConstants
<1>3. [status |-> "NONE", deleted |-> FALSE, category |-> 0] \in Product
  BY <1>2 DEF Product
<1>4. Types
  BY <1>1, <1>2, <1>3, IdleFacts DEF Types
<1>5. RowsSound /\ ActiveTitlesDiffer /\ OneReviewEach
  BY <1>1 DEF RowsSound, SlugsAreUnique, ActiveTitlesDiffer, Active, OneReviewEach
<1>6. OptionsSound
  BY <1>1 DEF OptionsSound, CartKeepsItsOption
<1>7. Works /\ Alone
  BY <1>1, IdleFacts DEF Works, Alone, At
<1> QED
  BY <1>4, <1>5, <1>6, <1>7 DEF IInv

LEMMA RefusedKeeps ==
  ASSUME IInv, NEW r \in Requests, Refused(r) \/ UploadFails(r)
  PROVE  IInv'
BY DoneKeeps DEF Refused, UploadFails, StopUpload, At

LEMMA NextKeeps == IInv /\ [Next]_vars => IInv'
<1> SUFFICES ASSUME IInv, [Next]_vars PROVE IInv'
  OBVIOUS
<1>1. CASE UNCHANGED vars
  <2>1. /\ UNCHANGED <<categoryVars, productVars, reviewVars, scenario>> /\ job' = job
        /\ scenario' = scenario /\ rows' = rows /\ product' = product
    BY <1>1 DEF vars, categoryVars, productVars
  <2>2. Works' /\ Alone'
    BY <2>1, Still
  <2>3. job' \in [Requests -> Jobs]
    BY <2>1 DEF IInv, Types
  <2> QED
    BY <2>1, <2>2, <2>3, TablesKeep
<1>2. scenario.products \subseteq Products
  BY ScenarioFacts DEF IInv
<1>3. ASSUME NEW r \in Requests, CategoryStep(r) PROVE IInv'
  <2>1. ASSUME NEW e \in Additions, AddCategory(r, e) PROVE IInv'
    BY <2>1, AddCategoryKeeps
  <2>2. ASSUME NEW e \in Additions, NEW f \in Additions, BulkAddCategories(r, <<e, f>>) PROVE IInv'
    BY <2>2, BulkAddCategoriesKeeps
  <2>3. ASSUME NEW c \in rows, NEW e \in Changes, UpdateCategory(r, c, e) PROVE IInv'
    BY <2>3, UpdateCategoryKeeps
  <2>4. ASSUME NEW c \in rows, DeleteCategory(r, c) PROVE IInv'
    BY <2>4, DeleteCategoryKeeps
  <2>5. CASE PickSlug(r)
    BY <2>5, PickSlugKeeps
  <2>6. CASE CreateCategories(r)
    BY <2>6, CreateCategoriesKeeps
  <2>7. CASE CheckTitle(r)
    BY <2>7, CheckTitleKeeps
  <2>8. CASE UpdateRow(r)
    BY <2>8, UpdateRowKeeps
  <2>9. CASE DeleteRow(r)
    BY <2>9, DeleteRowKeeps
  <2> QED
    BY <1>3, <2>1, <2>2, <2>3, <2>4, <2>5, <2>6, <2>7, <2>8, <2>9, Zenon DEF CategoryStep
<1>4. ASSUME NEW r \in Requests, ProductStep(r) PROVE IInv'
  <2>1. ASSUME NEW p \in scenario.products, DeleteProduct(r, p) PROVE IInv'
    BY <1>2, <2>1, DeleteProductKeeps
  <2>2. ASSUME NEW p \in scenario.products, NEW id \in CategoryIds, AddProduct(r, p, id) PROVE IInv'
    BY <1>2, <2>2, AddProductKeeps
  <2>3. ASSUME NEW list \in Lists, BulkUploadProducts(r, list) PROVE IInv'
    BY <2>3, BulkUploadProductsKeeps
  <2>4. ASSUME NEW p \in scenario.products, NEW s \in {"ACTIVE", "INACTIVE"}, NEW id \in CategoryIds,
               NEW b \in BOOLEAN, UpdateProduct(r, p, s, id, b)
        PROVE  IInv'
    BY <1>2, <2>4, UpdateProductKeeps
  <2>5. CASE UploadNext(r)
    BY <2>5, UploadNextKeeps
  <2>6. CASE UploadFails(r)
    BY <2>6, RefusedKeeps
  <2>7. CASE FindRecord(r)
    BY <2>7, FindRecordKeeps
  <2>8. CASE WriteProduct(r)
    BY <2>8, WriteProductKeeps
  <2>9. CASE ArchiveProduct(r)
    BY <2>9, ArchiveProductKeeps
  <2> QED
    BY <1>4, <2>1, <2>2, <2>3, <2>4, <2>5, <2>6, <2>7, <2>8, <2>9, Zenon DEF ProductStep
<1>5. ASSUME NEW r \in Requests, ReviewStep(r) PROVE IInv'
  <2>1. ASSUME NEW u \in Users, NEW p \in scenario.products, NEW n \in Ratings, CreateReview(r, u, p, n)
        PROVE  IInv'
    BY <1>2, <2>1, CreateReviewKeeps
  <2>2. CASE FindExistingReview(r)
    BY <2>2, FindExistingReviewKeeps
  <2>3. CASE InsertReview(r)
    BY <2>3, InsertReviewKeeps
  <2>4. CASE WriteReview(r)
    BY <2>4, WriteReviewKeeps
  <2>5. CASE RemoveReview(r)
    BY <2>5, RemoveReviewKeeps
  <2>6. ASSUME NEW u \in Users, NEW v \in reviews, DeleteReview(r, u, v) PROVE IInv'
    <3>1. 1 \in Ratings
      BY DEF Ratings
    <3> QED
      BY <2>6, <3>1, AuthorKeeps
  <2>7. ASSUME NEW u \in Users, NEW v \in reviews, NEW n \in Ratings, UpdateReview(r, u, v, n) PROVE IInv'
    BY <2>7, AuthorKeeps
  <2> QED
    BY <1>5, <2>1, <2>2, <2>3, <2>4, <2>5, <2>6, <2>7, Zenon DEF ReviewStep
<1>6. ASSUME NEW r \in Requests, Refused(r) PROVE IInv'
  BY <1>6, RefusedKeeps
<1>7. ASSUME NEW p \in scenario.products, AddToCart(p) PROVE IInv'
  BY <1>2, <1>7, AddToCartKeeps
<1> QED
  BY <1>1, <1>3, <1>4, <1>5, <1>6, <1>7, Zenon DEF Next

\* The slugs of a request that is about to create categories differ, and when it runs
\* alone they are no category's.
LEMMA SearchedSlugsAreFree == IInv => ChosenSlugsAreFree
<1> SUFFICES ASSUME IInv, NEW r \in Requests, scenario.requests = 1, At(r, "create"),
                    NEW i \in DOMAIN job[r].slugs, NEW k \in DOMAIN job[r].slugs
             PROVE  SlugFree(job[r].slugs[i], 0) /\ (job[r].slugs[i] = job[r].slugs[k] => i = k)
  BY DEF ChosenSlugsAreFree
<1> DEFINE g == job[r]
<1>1. g \in Jobs /\ g.step = "create" /\ Work(g, product) /\ Knows(g, rows, product)
  BY DEF IInv, Types, Works, Alone, At
<1>2. DOMAIN g.slugs = 1..Len(g.slugs)
  BY <1>1 DEF Jobs
<1>3. g.id = 0 /\ \A x, y \in 1..Len(g.slugs) : g.slugs[x] = g.slugs[y] => x = y
  BY <1>1 DEF Work
<1>4. \A c \in rows, x \in 1..Len(g.slugs) : c.slug # g.slugs[x]
  BY <1>1, <1>3 DEF Knows
<1> QED
  BY <1>2, <1>3, <1>4 DEF SlugFree

LEMMA InvariantHolds == IInv => CatalogueInvariant
<1> SUFFICES ASSUME IInv PROVE CatalogueInvariant
  OBVIOUS
<1>1. \A r \in Requests : /\ job[r].step \in Steps
                          /\ Range(job[r].entries) \subseteq Entry /\ Range(job[r].slugs) \subseteq Slugs
  <2> SUFFICES ASSUME NEW r \in Requests
               PROVE  /\ job[r].step \in Steps
                      /\ Range(job[r].entries) \subseteq Entry /\ Range(job[r].slugs) \subseteq Slugs
    OBVIOUS
  <2>1. job[r].step \in Steps /\ job[r].entries \in Seq(Entry) /\ job[r].slugs \in Seq(Slugs)
    BY DEF IInv, Types, Jobs
  <2> QED
    BY <2>1 DEF Range
<1>2. TypeOK
  BY <1>1 DEF IInv, Types, TypeOK, CartRow
<1> QED
  BY <1>2, SearchedSlugsAreFree DEF IInv, CatalogueInvariant, RowsSound, OptionsSound

LEMMA IInvHolds == Spec => []IInv
BY InitEstablishes, NextKeeps, PTL DEF Spec

\* However the requests of administrators and customers interleave, one category has a
\* slug, a user has one review of a product, and the cart rows of gift cards and top-ups
\* keep their option; and when requests come one by one, active categories that were
\* not renamed differ in their titles, and the slugs that an addition found are free.
THEOREM CatalogueStaysSound == Spec => []CatalogueInvariant
BY IInvHolds, InvariantHolds, PTL

==============================================================================
