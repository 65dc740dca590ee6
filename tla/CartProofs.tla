------------------------------- MODULE CartProofs -------------------------------
(***************************************************************************)
(* One cart, one row for an option, one order for an Idempotency-Key, and a *)
(* checkout that takes away only what it bought: for every number of        *)
(* requests, options, prices, keys and orders.                              *)
(*                                                                         *)
(* The argument for the last: an id is given to one row only and a row      *)
(* keeps its option, so that the row a purchase deletes by id has the       *)
(* option of the row the request read.  For the types: the lines of an      *)
(* order have different options, so that no purchase takes more codes of an  *)
(* option than the stock that covered its line.                              *)
(***************************************************************************)
EXTENDS Cart, FiniteSetTheorems, TLAPS

RowShape(i) ==
  i = [id |-> i.id, option |-> i.option, quantity |-> i.quantity, price |-> i.price]
OrderShape(o) ==
  o = [number |-> o.number, key |-> o.key, open |-> o.open, url |-> o.url, lines |-> o.lines]
JobShape(j) ==
  j = [step |-> j.step, option |-> j.option, quantity |-> j.quantity, limit |-> j.limit,
       price |-> j.price, seen |-> j.seen, key |-> j.key]

Shapes ==
  /\ job = [r \in Requests |-> job[r]]
  /\ \A r \in Requests : JobShape(job[r])
  /\ \A o \in orders : OrderShape(o)

\* The row s, seen by a request, and the rows of that id that are there now.
SameOption(s, rows) == \A i \in rows : i.id = s.id => i.option = s.option
SeenIn(seen, rows, last) ==
  \A s \in seen : RowShape(s) /\ s.id \in 0..last /\ SameOption(s, rows)

Rows ==
  /\ lastRow \in Nat
  /\ \A i \in items : RowShape(i) /\ i.id \in 1..lastRow /\ SameOption(i, items)
Seen == \A r \in Requests : SeenIn(job[r].seen, items, lastRow)

IInv == Shapes /\ Rows /\ Seen /\ carts \in {0, 1} /\ OneCartOneRow /\ KeyBuysOnce

------------------------------------------------------------------------------
(* Steps of a request that leave the tables alone *)

LEMMA JobStep ==
  ASSUME IInv, NEW r \in Requests, NEW j, job' = [job EXCEPT ![r] = j],
         JobShape(j), SeenIn(j.seen, items, lastRow),
         UNCHANGED <<carts, items, lastRow, orders>>
  PROVE  IInv'
<1>1. /\ job' = [q \in Requests |-> job'[q]] /\ job'[r] = j
      /\ \A q \in Requests : q # r => job'[q] = job[q]
  BY DEF IInv, Shapes
<1>2. Shapes'
  BY <1>1 DEF IInv, Shapes
<1>3. Seen'
  BY <1>1 DEF IInv, Seen
<1> QED
  BY <1>2, <1>3 DEF IInv, Rows, SameOption, OneCartOneRow, KeyBuysOnce

\* A step forward, or back to idle.
LEMMA StepOnly ==
  ASSUME IInv, NEW r \in Requests, NEW step, job' = [job EXCEPT ![r].step = step],
         UNCHANGED <<carts, items, lastRow, orders>>
  PROVE  IInv'
<1> DEFINE j == [step |-> step, option |-> job[r].option, quantity |-> job[r].quantity,
                 limit |-> job[r].limit, price |-> job[r].price, seen |-> job[r].seen,
                 key |-> job[r].key]
<1>1. JobShape(job[r])
  BY DEF IInv, Shapes
<1>2. [job[r] EXCEPT !.step = step] = j
  BY <1>1 DEF JobShape
<1>3. job' = [job EXCEPT ![r] = j]
  BY <1>2
<1>4. JobShape(j) /\ j.seen = job[r].seen
  BY DEF JobShape
<1>5. SeenIn(j.seen, items, lastRow)
  BY <1>4 DEF IInv, Seen
<1> HIDE DEF j
<1> QED
  BY <1>3, <1>4, <1>5, JobStep

\* What a step that reads, prices or orders keeps of the request.
LEMMA StepFields ==
  ASSUME IInv, NEW r \in Requests, NEW step, NEW v
  PROVE  /\ job' = [job EXCEPT ![r].step = step, ![r].seen = v] =>
              job' = [job EXCEPT ![r] = Job(step, job[r].option, job[r].quantity, job[r].limit, job[r].price, v, job[r].key)]
         /\ job' = [job EXCEPT ![r].step = step, ![r].price = v] =>
              job' = [job EXCEPT ![r] = Job(step, job[r].option, job[r].quantity, job[r].limit, v, job[r].seen, job[r].key)]
         /\ job' = [job EXCEPT ![r].step = step, ![r].quantity = v] =>
              job' = [job EXCEPT ![r] = Job(step, job[r].option, v, job[r].limit, job[r].price, job[r].seen, job[r].key)]
<1>1. JobShape(job[r]) /\ job = [q \in Requests |-> job[q]]
  BY DEF IInv, Shapes
<1> DEFINE g == job[r]
<1>2. /\ [g EXCEPT !.step = step, !.seen = v] =
             Job(step, g.option, g.quantity, g.limit, g.price, v, g.key)
      /\ [g EXCEPT !.step = step, !.price = v] =
             Job(step, g.option, g.quantity, g.limit, v, g.seen, g.key)
      /\ [g EXCEPT !.step = step, !.quantity = v] =
             Job(step, g.option, v, g.limit, g.price, g.seen, g.key)
  <2> DEFINE m == Job(step, g.option, g.quantity, g.limit, g.price, g.seen, g.key)
  <2>1. [g EXCEPT !.step = step] = m
    BY <1>1 DEF JobShape, Job
  <2>2. /\ [m EXCEPT !.seen = v] = Job(step, g.option, g.quantity, g.limit, g.price, v, g.key)
        /\ [m EXCEPT !.price = v] = Job(step, g.option, g.quantity, g.limit, v, g.seen, g.key)
        /\ [m EXCEPT !.quantity = v] = Job(step, g.option, v, g.limit, g.price, g.seen, g.key)
    BY DEF Job
  <2> HIDE DEF g, m
  <2>3. /\ [g EXCEPT !.step = step, !.seen = v] = [[g EXCEPT !.step = step] EXCEPT !.seen = v]
        /\ [g EXCEPT !.step = step, !.price = v] = [[g EXCEPT !.step = step] EXCEPT !.price = v]
        /\ [g EXCEPT !.step = step, !.quantity = v] = [[g EXCEPT !.step = step] EXCEPT !.quantity = v]
    OBVIOUS
  <2> QED
    BY <2>1, <2>2, <2>3
<1>3. /\ job' = [job EXCEPT ![r].step = step, ![r].seen = v] =>
             job' = [job EXCEPT ![r] = [g EXCEPT !.step = step, !.seen = v]]
      /\ job' = [job EXCEPT ![r].step = step, ![r].price = v] =>
             job' = [job EXCEPT ![r] = [g EXCEPT !.step = step, !.price = v]]
      /\ job' = [job EXCEPT ![r].step = step, ![r].quantity = v] =>
             job' = [job EXCEPT ![r] = [g EXCEPT !.step = step, !.quantity = v]]
  BY <1>1
<1> QED
  BY <1>2, <1>3, Zenon

LEMMA StepOrdering ==
  ASSUME IInv, NEW r \in Requests, NEW step, NEW n, job' = [job EXCEPT ![r].step = step, ![r].quantity = n]
  PROVE  job' = [job EXCEPT ![r] = Job(step, job[r].option, n, job[r].limit, job[r].price,
                                       job[r].seen, job[r].key)]
BY StepFields, Zenon

LEMMA JobFields ==
  ASSUME NEW step, NEW o, NEW n, NEW limit, NEW p, NEW seen, NEW k
  PROVE  LET j == Job(step, o, n, limit, p, seen, k)
         IN  /\ JobShape(j) /\ j.step = step /\ j.option = o /\ j.quantity = n
             /\ j.price = p /\ j.seen = seen /\ j.key = k
BY DEF JobShape, Job

LEMMA JobBecomes ==
  ASSUME IInv, NEW r \in Requests, NEW j, job' = [job EXCEPT ![r] = j]
  PROVE  /\ job' = [q \in Requests |-> job'[q]] /\ job'[r] = j
         /\ \A q \in Requests : q # r => job'[q] = job[q]
BY DEF IInv, Shapes

\* A step forward with what it read.
LEMMA StepSeeing ==
  ASSUME IInv, NEW r \in Requests, NEW step, NEW seen, SeenIn(seen, items, lastRow),
         job' = [job EXCEPT ![r].step = step, ![r].seen = seen],
         UNCHANGED <<carts, items, lastRow, orders>>
  PROVE  IInv'
<1> DEFINE j == Job(step, job[r].option, job[r].quantity, job[r].limit, job[r].price, seen,
                    job[r].key)
<1>1. job' = [job EXCEPT ![r] = j]
  BY StepFields, Zenon
<1>2. JobShape(j) /\ j.seen = seen
  BY JobFields
<1> HIDE DEF j
<1>3. job' = [job EXCEPT ![r] = j] /\ SeenIn(j.seen, items, lastRow)
  BY <1>1, <1>2, Zenon
<1> QED
  BY <1>2, <1>3, JobStep

\* A step forward with a price.
LEMMA StepPriced ==
  ASSUME IInv, NEW r \in Requests, NEW step, NEW p,
         job' = [job EXCEPT ![r].step = step, ![r].price = p],
         UNCHANGED <<carts, items, lastRow, orders>>
  PROVE  IInv'
<1> DEFINE j == Job(step, job[r].option, job[r].quantity, job[r].limit, p, job[r].seen,
                    job[r].key)
<1>1. job' = [job EXCEPT ![r] = j]
  BY StepFields, Zenon
<1>2. JobShape(j) /\ j.seen = job[r].seen
  BY JobFields
<1>3. SeenIn(job[r].seen, items, lastRow)
  BY DEF IInv, Seen
<1> HIDE DEF j
<1> QED
  BY <1>1, <1>2, <1>3, JobStep

LEMMA NothingSeen == JobShape(Idle) /\ \A rows, last : SeenIn(Idle.seen, rows, last)
BY DEF JobShape, Idle, Job, SeenIn

LEMMA DoneStep ==
  ASSUME IInv, NEW r \in Requests, Done(r), UNCHANGED <<carts, items, lastRow, orders>>
  PROVE  IInv'
BY NothingSeen, JobStep DEF Done, IInv

------------------------------------------------------------------------------
(* Steps that write rows *)

\* The rows after a step of r, and what the other requests have seen.
LEMMA RowsStep ==
  ASSUME IInv, NEW r \in Requests, Done(r), orders' = orders, carts' = carts,
         Rows', OneCartOneRow',
         \A q \in Requests : SeenIn(job[q].seen, items', lastRow')
  PROVE  IInv'
<1>1. /\ job' = [q \in Requests |-> job'[q]] /\ job'[r] = Idle
      /\ \A q \in Requests : q # r => job'[q] = job[q]
  BY DEF IInv, Shapes, Done
<1>2. Shapes'
  BY <1>1, NothingSeen DEF IInv, Shapes
<1>3. Seen'
  BY <1>1, NothingSeen DEF Seen
<1> QED
  BY <1>2, <1>3 DEF IInv, KeyBuysOnce

LEMMA FewerRows ==
  ASSUME IInv, NEW r \in Requests, Done(r), items' \subseteq items,
         UNCHANGED <<carts, lastRow, orders>>
  PROVE  IInv'
<1>1. Rows' /\ OneCartOneRow'
  BY DEF IInv, Rows, SameOption, OneCartOneRow
<1>2. \A q \in Requests : SeenIn(job[q].seen, items', lastRow')
  BY DEF IInv, Seen, SeenIn, SameOption
<1> QED
  BY <1>1, <1>2, RowsStep

LEMMA WriteIInv ==
  ASSUME IInv, NEW r \in Requests, NEW n, Write(r, n)
  PROVE  IInv'
<1>1. PICK i \in items : /\ items' = (items \ {i}) \cup
                               {[i EXCEPT !.quantity = n, !.price = job[r].price]}
                         /\ Done(r) /\ UNCHANGED <<carts, lastRow, orders>>
  BY DEF Write
<1> DEFINE k == [id |-> i.id, option |-> i.option, quantity |-> n, price |-> job[r].price]
<1>2. [i EXCEPT !.quantity = n, !.price = job[r].price] = k
  <2> DEFINE m == [id |-> i.id, option |-> i.option, quantity |-> n, price |-> i.price]
             p == job[r].price
  <2>1. [i EXCEPT !.quantity = n] = m
    BY DEF IInv, Rows, RowShape
  <2>2. [m EXCEPT !.price = p] = k
    OBVIOUS
  <2> HIDE DEF m, p, k
  <2>3. [i EXCEPT !.quantity = n, !.price = p] = [[i EXCEPT !.quantity = n] EXCEPT !.price = p]
    OBVIOUS
  <2>4. [i EXCEPT !.quantity = n, !.price = p] = k
    BY <2>1, <2>2, <2>3
  <2> QED
    BY <2>4 DEF p
<1>3. k.id = i.id /\ k.option = i.option /\ RowShape(k)
  BY DEF RowShape
<1> HIDE DEF k
<1>4. items' = (items \ {i}) \cup {k}
  BY <1>1, <1>2
<1>5. Rows'
  BY <1>1, <1>3, <1>4 DEF IInv, Rows, SameOption
<1>6. OneCartOneRow'
  BY <1>1, <1>3, <1>4 DEF IInv, OneCartOneRow
<1>7. \A q \in Requests : SeenIn(job[q].seen, items', lastRow')
  BY <1>1, <1>3, <1>4 DEF IInv, Seen, SeenIn, SameOption
<1> QED
  BY <1>1, <1>5, <1>6, <1>7, RowsStep

LEMMA InsertIInv ==
  ASSUME IInv, NEW r \in Requests, InsertItem(r)
  PROVE  IInv'
<1> DEFINE k == [id |-> lastRow', option |-> job[r].option,
                 quantity |-> job[r].quantity, price |-> job[r].price]
<1>1. /\ RowOf(job[r].option) = {} /\ lastRow' = lastRow + 1 /\ items' = items \cup {k}
      /\ Done(r) /\ UNCHANGED <<carts, orders>>
  BY DEF InsertItem, RowFree
<1>2. k.id = lastRow' /\ k.option = job[r].option /\ RowShape(k)
  BY DEF RowShape
<1> HIDE DEF k
<1>3. lastRow \in Nat /\ \A i \in items : RowShape(i) /\ i.id \in 1..lastRow /\ SameOption(i, items)
  BY DEF IInv, Rows
<1>4. Rows'
  <2>1. \A i \in items : i.id # k.id
    BY <1>1, <1>2, <1>3
  <2> QED
    BY <1>1, <1>2, <1>3, <2>1 DEF Rows, SameOption
<1>5. OneCartOneRow'
  BY <1>1, <1>2 DEF IInv, OneCartOneRow, RowOf
<1>6. ASSUME NEW q \in Requests PROVE SeenIn(job[q].seen, items', lastRow')
  <2>1. \A s \in job[q].seen : RowShape(s) /\ s.id \in 0..lastRow /\ SameOption(s, items)
    BY DEF IInv, Seen, SeenIn
  <2>2. \A s \in job[q].seen : s.id # k.id /\ s.id \in 0..lastRow'
    BY <1>1, <1>2, <1>3, <2>1
  <2> QED
    BY <1>1, <2>1, <2>2 DEF SeenIn, SameOption
<1> QED
  BY <1>1, <1>4, <1>5, <1>6, RowsStep

------------------------------------------------------------------------------
(* The operations *)

\* A request begins: what it has seen is nothing, rows of the cart, or the line of
\* a direct purchase.
LEMMA BeginStep ==
  ASSUME IInv, NEW r \in Requests, NEW op, NEW step, NEW o, NEW n, NEW limit, NEW p, NEW seen,
         NEW k, Begin(r, op, Job(step, o, n, limit, p, seen, k)),
         SeenIn(seen, items, lastRow), UNCHANGED <<carts, items, lastRow, orders>>
  PROVE  IInv'
<1> DEFINE j == Job(step, o, n, limit, p, seen, k)
<1>1. JobShape(j) /\ j.seen = seen
  BY JobFields
<1>2. job' = [job EXCEPT ![r] = j]
  BY DEF Begin
<1> HIDE DEF j
<1> QED
  BY <1>1, <1>2, JobStep

LEMMA ItemsAreSeen ==
  ASSUME IInv
  PROVE  SeenIn(items, items, lastRow) /\ \A i \in items : SeenIn({i}, items, lastRow)
BY DEF IInv, Rows, SeenIn

LEMMA EditIInv ==
  ASSUME IInv, NEW r \in Requests,
         \/ \E o \in scenario.options, n \in scenario.quantities : AddToCart(r, o, n)
         \/ GetCart(r) \/ CreateCart(r) \/ ReadItem(r) \/ InsertItem(r) \/ UpdateItem(r)
         \/ \E i \in items, n \in scenario.quantities \cup {0} : FindItem(r, i, n, "update")
         \/ \E i \in items : FindItem(r, i, 0, "remove")
         \/ ResolveOption(r) \/ SetItem(r) \/ DeleteItem(r) \/ StartClear(r) \/ ClearCart(r)
  PROVE  IInv'
<1>1. ASSUME NEW o, NEW n, AddToCart(r, o, n) PROVE IInv'
  <2>1. SeenIn({}, items, lastRow)
    BY DEF SeenIn
  <2> QED
    BY <1>1, <2>1, BeginStep DEF AddToCart, cartVars
<1>2. CASE GetCart(r)
  BY <1>2, StepOnly DEF GetCart, Goto, cartVars
<1>3. CASE CreateCart(r)
  <2>1. PICK step : job' = [job EXCEPT ![r].step = step]
    BY <1>3 DEF CreateCart, Goto
  <2>2. carts' = 1 /\ UNCHANGED <<items, lastRow, orders>>
    BY <1>3 DEF CreateCart, CartFree
  <2>3. job' = [q \in Requests |-> job'[q]] /\ \A q \in Requests : JobShape(job'[q]) /\ job'[q].seen = job[q].seen
    BY <2>1 DEF IInv, Shapes, JobShape
  <2>4. Shapes' /\ Seen'
    BY <2>2, <2>3 DEF IInv, Shapes, Seen
  <2> QED
    BY <2>2, <2>4 DEF IInv, Rows, SameOption, OneCartOneRow, KeyBuysOnce
<1>4. CASE ReadItem(r)
  <2>1. CASE Goto(r, "insert")
    BY <1>4, <2>1, StepOnly DEF ReadItem, Goto, cartVars
  <2>2. ASSUME NEW i \in RowOf(job[r].option),
               job' = [job EXCEPT ![r].step = "update", ![r].seen = {i}]
        PROVE  IInv'
    BY <1>4, <2>2, ItemsAreSeen, StepSeeing DEF ReadItem, RowOf, cartVars
  <2> QED
    BY <1>4, <2>1, <2>2 DEF ReadItem
<1>5. CASE InsertItem(r)
  BY <1>5, InsertIInv
<1>6. CASE UpdateItem(r)
  BY <1>6, WriteIInv DEF UpdateItem
<1>7. ASSUME NEW i \in items, NEW n, NEW op, FindItem(r, i, n, op) PROVE IInv'
  BY <1>7, ItemsAreSeen, BeginStep DEF FindItem, cartVars
<1>8. CASE ResolveOption(r)
  BY <1>8, StepPriced DEF ResolveOption, cartVars
<1>9. CASE SetItem(r)
  BY <1>9, WriteIInv DEF SetItem
<1>10. CASE DeleteItem(r)
  BY <1>10, FewerRows DEF DeleteItem
<1>11. CASE StartClear(r)
  <2>1. SeenIn({}, items, lastRow)
    BY DEF SeenIn
  <2> QED
    BY <1>11, <2>1, BeginStep DEF StartClear, cartVars
<1>12. CASE ClearCart(r)
  BY <1>12, FewerRows DEF ClearCart
<1> QED
  BY <1>1, <1>2, <1>3, <1>4, <1>5, <1>6, <1>7, <1>8, <1>9, <1>10, <1>11, <1>12

\* The order a purchase places, and what the step does to the other tables.
LEMMA PurchaseIInv ==
  ASSUME IInv, NEW r \in Requests, CreatePurchase(r)
  PROVE  IInv'
<1> DEFINE lines == job[r].seen
           o == [number |-> Cardinality(orders) + 1, key |-> job[r].key, open |-> TRUE, url |-> FALSE,
                 lines |-> {[l EXCEPT !.price = LinePrice(l)] : l \in lines}]
<1>1. /\ KeyFree(job[r].key) /\ orders' = orders \cup {o} /\ items' \subseteq items
      /\ UNCHANGED <<carts, lastRow>>
  BY DEF CreatePurchase, AfterCheckout
<1>2. OrderShape(o) /\ o.key = job[r].key
  BY DEF OrderShape
<1> HIDE DEF o
<1>3. KeyBuysOnce'
  BY <1>1, <1>2 DEF IInv, KeyBuysOnce, KeyFree, WithKey
<1>4. PICK n : job' = [job EXCEPT ![r].step = "pay", ![r].quantity = n]
  BY DEF CreatePurchase
<1>5. /\ job' = [q \in Requests |-> job'[q]]
      /\ \A q \in Requests : JobShape(job'[q]) /\ job'[q].seen = job[q].seen
  <2> DEFINE j == Job("pay", job[r].option, n, job[r].limit, job[r].price, job[r].seen,
                      job[r].key)
  <2>1. job' = [job EXCEPT ![r] = j]
    BY <1>4, StepOrdering, Zenon
  <2>2. JobShape(j) /\ j.seen = job[r].seen
    BY JobFields
  <2> HIDE DEF j
  <2> QED
    BY <2>1, <2>2, JobBecomes DEF IInv, Shapes
<1>6. Shapes'
  BY <1>1, <1>2, <1>5 DEF IInv, Shapes
<1>7. Rows' /\ OneCartOneRow'
  BY <1>1 DEF IInv, Rows, SameOption, OneCartOneRow
<1>8. Seen'
  BY <1>1, <1>5 DEF IInv, Seen, SeenIn, SameOption
<1> QED
  BY <1>1, <1>3, <1>6, <1>7, <1>8 DEF IInv

\* A step that changes one order and neither its number nor its key.
LEMMA OrderStep ==
  ASSUME IInv, NEW o \in orders, NEW p, Change(o, p), OrderShape(p), p.key = o.key
  PROVE  KeyBuysOnce' /\ \A q \in orders' : OrderShape(q)
BY DEF Change, IInv, Shapes, KeyBuysOnce

LEMMA OrderChanges ==
  ASSUME NEW o, OrderShape(o)
  PROVE  /\ OrderShape([o EXCEPT !.url = TRUE]) /\ OrderShape([o EXCEPT !.open = FALSE])
         /\ [o EXCEPT !.url = TRUE].key = o.key /\ [o EXCEPT !.open = FALSE].key = o.key
         /\ [o EXCEPT !.url = TRUE].number = o.number /\ [o EXCEPT !.open = FALSE].number = o.number
<1>1. ASSUME NEW v
      PROVE  /\ [o EXCEPT !.url = v] =
                  [number |-> o.number, key |-> o.key, open |-> o.open, url |-> v, lines |-> o.lines]
             /\ [o EXCEPT !.open = v] =
                  [number |-> o.number, key |-> o.key, open |-> v, url |-> o.url, lines |-> o.lines]
  BY DEF OrderShape
<1>2. ASSUME NEW v
      PROVE  /\ OrderShape([o EXCEPT !.url = v]) /\ OrderShape([o EXCEPT !.open = v])
             /\ [o EXCEPT !.url = v].key = o.key /\ [o EXCEPT !.open = v].key = o.key
             /\ [o EXCEPT !.url = v].number = o.number /\ [o EXCEPT !.open = v].number = o.number
  BY <1>1 DEF OrderShape
<1> QED
  BY <1>2, Zenon

LEMMA BuyIInv ==
  ASSUME IInv, NEW r \in Requests,
         \/ \E o \in scenario.options, n \in scenario.quantities, k \in scenario.keys \cup {NoKey} :
              BuyNow(r, o, n, k)
         \/ \E k \in scenario.keys \cup {NoKey} : CheckoutCart(r, k)
         \/ ExistingCheckout(r) \/ CreatePurchase(r) \/ CreatePayment(r) \/ Refused(r)
  PROVE  IInv'
<1>1. ASSUME NEW o, NEW n, NEW k, BuyNow(r, o, n, k) PROVE IInv'
  <2> DEFINE seen == {[id |-> 0, option |-> o, quantity |-> n, price |-> NoPrice]}
  <2>1. SeenIn(seen, items, lastRow)
    <3>1. \A i \in items : i.id # 0
      BY DEF IInv, Rows
    <3>2. lastRow \in Nat
      BY DEF IInv, Rows
    <3> QED
      BY <3>1, <3>2 DEF SeenIn, RowShape, SameOption
  <2>2. Begin(r, "buyNow", Job("existing", NoOption, 0, Unlimited, NoPrice, seen, k))
        /\ UNCHANGED <<carts, items, lastRow, orders>>
    BY <1>1 DEF BuyNow, cartVars
  <2> HIDE DEF seen
  <2> QED
    BY <2>1, <2>2, BeginStep
<1>2. ASSUME NEW k, CheckoutCart(r, k) PROVE IInv'
  BY <1>2, ItemsAreSeen, BeginStep DEF CheckoutCart, cartVars
<1>3. CASE ExistingCheckout(r)
  BY <1>3, StepOnly, DoneStep DEF ExistingCheckout, Goto, cartVars
<1>4. CASE CreatePurchase(r)
  BY <1>4, PurchaseIInv
<1>5. CASE CreatePayment(r)
  <2>1. PICK o \in orders : /\ Change(o, [o EXCEPT !.url = TRUE]) /\ Done(r)
                            /\ UNCHANGED cartVars
    BY <1>5 DEF CreatePayment
  <2>2. KeyBuysOnce' /\ \A q \in orders' : OrderShape(q)
    BY <2>1, OrderChanges, OrderStep DEF IInv, Shapes
  <2>3. /\ job' = [q \in Requests |-> job'[q]] /\ job'[r] = Idle
        /\ \A q \in Requests : q # r => job'[q] = job[q]
    BY <2>1 DEF IInv, Shapes, Done
  <2>4. Shapes' /\ Seen'
    BY <2>1, <2>2, <2>3, NothingSeen DEF IInv, Shapes, Seen, cartVars
  <2> QED
    BY <2>1, <2>2, <2>4 DEF IInv, Rows, SameOption, OneCartOneRow, cartVars
<1>6. CASE Refused(r)
  BY <1>6, DoneStep DEF Refused, cartVars
<1> QED
  BY <1>1, <1>2, <1>3, <1>4, <1>5, <1>6

LEMMA InitIInv == Init => IInv
BY NothingSeen DEF Init, IInv, Shapes, Rows, Seen, OneCartOneRow, KeyBuysOnce

LEMMA StepIInv == IInv /\ [Next]_vars => IInv'
<1> SUFFICES ASSUME IInv, [Next]_vars PROVE IInv'
  OBVIOUS
<1>1. ASSUME NEW r \in Requests, Step(r) PROVE IInv'
  BY <1>1, EditIInv, BuyIInv DEF Step
<1>2. ASSUME NEW o \in orders, Release(o) \/ Settle(o) PROVE IInv'
  <2>1. Change(o, [o EXCEPT !.open = FALSE]) /\ UNCHANGED <<cartVars, job>>
    BY <1>2 DEF Release, Settle
  <2>2. KeyBuysOnce' /\ \A q \in orders' : OrderShape(q)
    BY <2>1, OrderChanges, OrderStep DEF IInv, Shapes
  <2> QED
    BY <2>1, <2>2 DEF IInv, Shapes, Rows, Seen, SameOption, OneCartOneRow, cartVars
<1>3. ASSUME NEW o, SetPrice(o) \/ SetActive(o) PROVE IInv'
  BY <1>3 DEF SetPrice, SetActive, cartVars, IInv, Shapes, Rows, Seen, SameOption,
              OneCartOneRow, KeyBuysOnce
<1>4. CASE UNCHANGED vars
  BY <1>4 DEF vars, cartVars, IInv, Shapes, Rows, Seen, SameOption, OneCartOneRow, KeyBuysOnce
<1> QED
  BY <1>1, <1>2, <1>3, <1>4 DEF Next

------------------------------------------------------------------------------
(* Types: what a request carries from one query to the next *)

\* A request that holds an option to write has its price, the rows it has seen have
\* quantities, and what it is about to buy are gift cards.
JobTyped(j) ==
  /\ j.step \in Steps /\ j.key \in Keys \cup {NoKey} /\ j.quantity \in Nat
  /\ \A s \in j.seen : s.option \in Options /\ s.quantity \in Nat
  /\ j.step \in {"existing", "buy"} => \A s \in j.seen : s.option \in GiftCards
  /\ j.step \in {"cart", "create"} =>
       j.option = NoOption \/ (j.option \in Options /\ j.price \in Prices)
  /\ j.step \in {"item", "insert", "update", "resolve", "set"} => j.option \in Options
  /\ j.step \in {"item", "insert", "update", "set"} => j.price \in Prices

Typed == TypeOK /\ IsFiniteSet(orders) /\ \A r \in Requests : JobTyped(job[r])

OrderTyped(o) ==
  /\ o.number \in 1..MaxOrders /\ o.key \in Keys \cup {NoKey}
  /\ o.open \in BOOLEAN /\ o.url \in BOOLEAN /\ \A l \in o.lines : l \in Line

\* A step of one request that leaves the catalogue alone.
LEMMA RequestTyped ==
  ASSUME Typed, NEW r \in Requests, JobTyped(job'[r]),
         \A q \in Requests : q # r => job'[q] = job[q],
         UNCHANGED <<catalogueVars, scenario>>,
         carts' \in Nat, lastRow' \in 0..MaxRow, \A i \in items' : i \in Item,
         \A o \in orders' : OrderTyped(o), IsFiniteSet(orders')
  PROVE  Typed'
<1>1. \A q \in Requests : JobTyped(job'[q])
  BY DEF Typed
<1>2. TypeOK'
  BY <1>1 DEF Typed, TypeOK, catalogueVars, OrderTyped, JobTyped
<1> QED
  BY <1>1, <1>2 DEF Typed

\* A query that reads, or refuses.
LEMMA ReadTyped ==
  ASSUME Typed, NEW r \in Requests, JobTyped(job'[r]),
         \A q \in Requests : q # r => job'[q] = job[q],
         UNCHANGED <<catalogueVars, cartVars, orders, scenario>>
  PROVE  Typed'
<1>1. \A o \in orders : OrderTyped(o)
  BY DEF Typed, TypeOK, OrderTyped
<1> QED
  BY <1>1, RequestTyped DEF Typed, TypeOK, cartVars

LEMMA IdleTyped == JobTyped(Idle)
BY DEF JobTyped, Idle, Job, Steps

LEMMA DoneFields ==
  ASSUME IInv, NEW r \in Requests, Done(r)
  PROVE  JobTyped(job'[r]) /\ \A q \in Requests : q # r => job'[q] = job[q]
BY IdleTyped DEF IInv, Shapes, Done

\* What a step forward keeps.
LEMMA GotoFields ==
  ASSUME IInv, NEW r \in Requests, NEW step, job' = [job EXCEPT ![r].step = step]
  PROVE  /\ job'[r] = [step |-> step, option |-> job[r].option, quantity |-> job[r].quantity,
                       limit |-> job[r].limit, price |-> job[r].price, seen |-> job[r].seen,
                       key |-> job[r].key]
         /\ \A q \in Requests : q # r => job'[q] = job[q]
<1>1. JobShape(job[r]) /\ job = [q \in Requests |-> job[q]]
  BY DEF IInv, Shapes
<1>2. [job[r] EXCEPT !.step = step] =
        [step |-> step, option |-> job[r].option, quantity |-> job[r].quantity,
         limit |-> job[r].limit, price |-> job[r].price, seen |-> job[r].seen,
         key |-> job[r].key]
  BY <1>1 DEF JobShape
<1> QED
  BY <1>1, <1>2

\* A request begins with what its schema let through and what it read.
LEMMA BeginTyped ==
  ASSUME IInv, Typed, NEW r \in Requests, NEW op, NEW step, NEW o, NEW n, NEW limit, NEW p,
         NEW seen, NEW k, Begin(r, op, Job(step, o, n, limit, p, seen, k)),
         JobTyped(Job(step, o, n, limit, p, seen, k)),
         UNCHANGED <<catalogueVars, cartVars, orders, scenario>>
  PROVE  Typed'
<1> DEFINE j == Job(step, o, n, limit, p, seen, k)
<1>1. job' = [job EXCEPT ![r] = j]
  BY DEF Begin
<1> HIDE DEF j
<1>2. job'[r] = j /\ \A q \in Requests : q # r => job'[q] = job[q]
  BY <1>1 DEF IInv, Shapes
<1>3. JobTyped(j)
  BY DEF j
<1> QED
  BY <1>2, <1>3, ReadTyped

LEMMA CustomerInput ==
  ASSUME Typed
  PROVE  /\ scenario.options \subseteq Options /\ scenario.quantities \subseteq Nat
         /\ scenario.prices \subseteq Prices /\ scenario.keys \subseteq Keys
         /\ scenario.rows \in 0..MaxRow /\ scenario.orders \in 0..MaxOrders
         /\ MaxRow \in Nat /\ MaxOrders \in Nat /\ MaxLine \in Nat /\ GiftCards \subseteq Options
         /\ NoOption \notin Options
BY CartConstants DEF Typed, TypeOK, Scenario

\* A row written by id: the quantity is a number, the price one of the catalogue's.
LEMMA WriteTyped ==
  ASSUME IInv, Typed, NEW r \in Requests, NEW n \in Nat, job[r].price \in Prices, Write(r, n)
  PROVE  Typed'
<1>1. PICK i \in items : /\ items' = (items \ {i}) \cup
                               {[i EXCEPT !.quantity = n, !.price = job[r].price]}
                         /\ Done(r) /\ UNCHANGED <<catalogueVars, carts, lastRow, orders, scenario>>
  BY DEF Write
<1>2. i \in Item
  BY DEF Typed, TypeOK
<1>3. [i EXCEPT !.quantity = n, !.price = job[r].price] \in Item
  <2>1. [i EXCEPT !.quantity = n] \in Item
    BY <1>2 DEF Item
  <2> DEFINE m == [i EXCEPT !.quantity = n]
             p == job[r].price
  <2>2. [m EXCEPT !.price = p] \in Item
    BY <2>1 DEF Item
  <2>3. [i EXCEPT !.quantity = n, !.price = p] = [m EXCEPT !.price = p]
    <3> HIDE DEF p
    <3> QED
      OBVIOUS
  <2> QED
    BY <2>2, <2>3
<1>4. \A k \in items' : k \in Item
  BY <1>1, <1>3 DEF Typed, TypeOK
<1>5. \A o \in orders : OrderTyped(o)
  BY DEF Typed, TypeOK, OrderTyped
<1> QED
  BY <1>1, <1>4, <1>5, DoneFields, RequestTyped DEF Typed, TypeOK

LEMMA FewerRowsTyped ==
  ASSUME IInv, Typed, NEW r \in Requests, Done(r), items' \subseteq items,
         UNCHANGED <<catalogueVars, carts, lastRow, orders, scenario>>
  PROVE  Typed'
<1>1. \A o \in orders : OrderTyped(o)
  BY DEF Typed, TypeOK, OrderTyped
<1> QED
  BY <1>1, DoneFields, RequestTyped DEF Typed, TypeOK

LEMMA InsertTyped ==
  ASSUME IInv, Typed, NEW r \in Requests, InsertItem(r)
  PROVE  Typed'
<1> DEFINE k == [id |-> lastRow', option |-> job[r].option,
                 quantity |-> job[r].quantity, price |-> job[r].price]
<1>1. /\ At(r, "insert") /\ lastRow < scenario.rows /\ lastRow' = lastRow + 1
      /\ items' = items \cup {k} /\ Done(r) /\ UNCHANGED <<catalogueVars, carts, orders, scenario>>
  BY DEF InsertItem
<1>2. lastRow' \in 1..MaxRow
  BY <1>1, CustomerInput DEF Typed, TypeOK
<1>3. job[r].option \in Options /\ job[r].price \in Prices /\ job[r].quantity \in Nat
  BY <1>1 DEF Typed, JobTyped, At
<1>4. k \in Item
  BY <1>2, <1>3 DEF Item
<1> HIDE DEF k
<1>5. \A i \in items' : i \in Item
  BY <1>1, <1>4 DEF Typed, TypeOK
<1>6. \A o \in orders : OrderTyped(o)
  BY DEF Typed, TypeOK, OrderTyped
<1> QED
  BY <1>1, <1>2, <1>5, <1>6, DoneFields, RequestTyped DEF Typed, TypeOK

LEMMA EditTyped ==
  ASSUME IInv, Typed, NEW r \in Requests,
         \/ \E o \in scenario.options, n \in scenario.quantities : AddToCart(r, o, n)
         \/ GetCart(r) \/ CreateCart(r) \/ ReadItem(r) \/ InsertItem(r) \/ UpdateItem(r)
         \/ \E i \in items, n \in scenario.quantities \cup {0} : FindItem(r, i, n, "update")
         \/ \E i \in items : FindItem(r, i, 0, "remove")
         \/ ResolveOption(r) \/ SetItem(r) \/ DeleteItem(r) \/ StartClear(r) \/ ClearCart(r)
  PROVE  Typed'
<1> USE DEF At
<1>r. JobTyped(job[r])
  BY DEF Typed
<1>o. \A o \in orders : OrderTyped(o)
  BY DEF Typed, TypeOK, OrderTyped
<1>1. ASSUME NEW o \in scenario.options, NEW n \in scenario.quantities, AddToCart(r, o, n)
      PROVE  Typed'
  <2>1. JobTyped(Job("cart", o, n, stock[o], price[o], {}, NoKey))
    BY <1>1, CustomerInput DEF Typed, TypeOK, JobTyped, Job, Steps
  <2> QED
    BY <1>1, <2>1, BeginTyped DEF AddToCart
<1>2. CASE GetCart(r)
  <2>1. JobTyped(job'[r])
    BY <1>2, <1>r, GotoFields DEF GetCart, Goto, JobTyped, Steps
  <2> QED
    BY <1>2, <2>1, GotoFields, ReadTyped DEF GetCart, Goto
<1>3. CASE CreateCart(r)
  <2>1. JobTyped(job'[r])
    BY <1>3, <1>r, GotoFields DEF CreateCart, Goto, JobTyped, Steps
  <2> QED
    BY <1>3, <1>o, <2>1, GotoFields, RequestTyped DEF CreateCart, Goto, Typed, TypeOK
<1>4. CASE ReadItem(r)
  <2>1. CASE Goto(r, "insert")
    <3>1. JobTyped(job'[r])
      BY <1>4, <1>r, <2>1, GotoFields DEF ReadItem, Goto, JobTyped, Steps
    <3> QED
      BY <1>4, <2>1, <3>1, GotoFields, ReadTyped DEF ReadItem, Goto
  <2>2. ASSUME NEW i \in RowOf(job[r].option),
               job' = [job EXCEPT ![r].step = "update", ![r].seen = {i}]
        PROVE  Typed'
    <3>1. i.option \in Options /\ i.quantity \in Nat
      BY DEF RowOf, Typed, TypeOK, Item
    <3>2. /\ job'[r].step = "update" /\ job'[r].seen = {i} /\ job'[r].option = job[r].option
          /\ job'[r].quantity = job[r].quantity /\ job'[r].price = job[r].price
          /\ job'[r].key = job[r].key
          /\ \A q \in Requests : q # r => job'[q] = job[q]
      <4> DEFINE j == Job("update", job[r].option, job[r].quantity, job[r].limit, job[r].price, {i}, job[r].key)
      <4>1. job' = [job EXCEPT ![r] = j]
        BY <2>2, StepFields, Zenon
      <4>2. job'[r] = j /\ \A q \in Requests : q # r => job'[q] = job[q]
        BY <4>1, JobBecomes
      <4> QED
        BY <4>2, JobFields
    <3>3. JobTyped(job'[r])
      BY <1>4, <1>r, <3>1, <3>2 DEF ReadItem, JobTyped, Steps
    <3> QED
      BY <1>4, <3>2, <3>3, ReadTyped DEF ReadItem
  <2> QED
    BY <1>4, <2>1, <2>2 DEF ReadItem
<1>5. CASE InsertItem(r)
  BY <1>5, InsertTyped
<1>6. CASE UpdateItem(r)
  <2>1. PICK s \in job[r].seen : Write(r, s.quantity + job[r].quantity)
    BY <1>6 DEF UpdateItem
  <2>2. s.quantity + job[r].quantity \in Nat /\ job[r].price \in Prices
    BY <1>6, <1>r DEF UpdateItem, JobTyped
  <2> QED
    BY <2>1, <2>2, WriteTyped
<1>7. ASSUME NEW i \in items, NEW n \in scenario.quantities \cup {0}, NEW op, FindItem(r, i, n, op)
      PROVE  Typed'
  <2>1. n \in Nat /\ i.option \in Options /\ i.quantity \in Nat
    BY CustomerInput DEF Typed, TypeOK, Item
  <2> DEFINE step == IF op = "remove" \/ n = 0 THEN "delete" ELSE "resolve"
  <2>2. JobTyped(Job(step, i.option, n, Unlimited, NoPrice, {i}, NoKey))
    BY <2>1 DEF JobTyped, Job, Steps
  <2>3. Begin(r, op, Job(step, i.option, n, Unlimited, NoPrice, {i}, NoKey))
        /\ UNCHANGED <<catalogueVars, cartVars, orders, scenario>>
    BY <1>7 DEF FindItem
  <2> HIDE DEF step
  <2> QED
    BY <2>2, <2>3, BeginTyped
<1>8. CASE ResolveOption(r)
  <2>1. /\ job' = [job EXCEPT ![r].step = "set", ![r].price = price[job[r].option]]
        /\ job[r].step = "resolve" /\ UNCHANGED <<catalogueVars, cartVars, orders, scenario>>
    BY <1>8 DEF ResolveOption
  <2>2. price[job[r].option] \in Prices
    BY <1>r, <2>1 DEF JobTyped, Typed, TypeOK
  <2>3. /\ job'[r].step = "set" /\ job'[r].seen = job[r].seen /\ job'[r].option = job[r].option
        /\ job'[r].quantity = job[r].quantity /\ job'[r].price = price[job[r].option]
        /\ job'[r].key = job[r].key
        /\ \A q \in Requests : q # r => job'[q] = job[q]
    <3> DEFINE j == Job("set", job[r].option, job[r].quantity, job[r].limit, price[job[r].option], job[r].seen, job[r].key)
    <3>1. job' = [job EXCEPT ![r] = j]
      BY <2>1, StepFields, Zenon
    <3>2. job'[r] = j /\ \A q \in Requests : q # r => job'[q] = job[q]
      BY <3>1, JobBecomes
    <3> QED
      BY <3>2, JobFields
  <2>4. JobTyped(job'[r])
    BY <1>r, <2>1, <2>2, <2>3 DEF JobTyped, Steps
  <2> QED
    BY <2>1, <2>3, <2>4, ReadTyped
<1>9. CASE SetItem(r)
  BY <1>9, <1>r, WriteTyped DEF SetItem, JobTyped
<1>10. CASE DeleteItem(r)
  BY <1>10, FewerRowsTyped DEF DeleteItem
<1>11. CASE StartClear(r)
  <2>1. JobTyped(Job("cart", NoOption, 0, Unlimited, NoPrice, {}, NoKey))
    BY DEF JobTyped, Job, Steps
  <2> QED
    BY <1>11, <2>1, BeginTyped DEF StartClear
<1>12. CASE ClearCart(r)
  BY <1>12, FewerRowsTyped DEF ClearCart
<1> QED
  BY <1>1, <1>2, <1>3, <1>4, <1>5, <1>6, <1>7, <1>8, <1>9, <1>10, <1>11, <1>12

\* The lines of an order, with the catalogue's prices.
LEMMA LinesTyped ==
  ASSUME IInv, Typed, NEW r \in Requests, CreatePurchase(r), NEW l \in job[r].seen
  PROVE  [l EXCEPT !.price = LinePrice(l)] \in Line
<1>1. RowShape(l) /\ l.id \in 0..MaxRow
  <2>1. RowShape(l) /\ l.id \in 0..lastRow
    BY DEF IInv, Seen, SeenIn
  <2> QED
    BY <2>1, CustomerInput DEF Typed, TypeOK
<1>2. l.option \in GiftCards /\ l.quantity \in 1..MaxLine
  BY DEF CreatePurchase, At, Typed, JobTyped
<1>3. LinePrice(l) \in Prices
  BY <1>2, CustomerInput DEF LinePrice, Typed, TypeOK
<1> DEFINE p == LinePrice(l)
<1>4. [l EXCEPT !.price = p] = [id |-> l.id, option |-> l.option, quantity |-> l.quantity, price |-> p]
  <2> HIDE DEF p
  <2> QED
    BY <1>1 DEF RowShape
<1>5. [id |-> l.id, option |-> l.option, quantity |-> l.quantity, price |-> p] \in Line
  BY <1>1, <1>2, <1>3 DEF Line
<1> QED
  BY <1>4, <1>5

\* What a purchase takes of an option is in stock, and what it returns is a number.
LEMMA BoughtIsCovered ==
  ASSUME NEW lines, NEW o, NEW left \in Nat,
         \A l \in lines : l.option = o => l.quantity \in Nat /\ Covers(left, l.quantity)
  PROVE  Bought(lines, o) \in Nat /\ Bought(lines, o) <= left
<1>1. CASE \E l \in lines : l.option = o
  <2> DEFINE b == CHOOSE l \in lines : l.option = o
  <2>1. b \in lines /\ b.option = o
    BY <1>1
  <2>2. Bought(lines, o) = b.quantity
    BY <1>1 DEF Bought
  <2> HIDE DEF b
  <2> QED
    BY <2>1, <2>2 DEF Covers
<1>2. CASE ~\E l \in lines : l.option = o
  BY <1>2 DEF Bought
<1> QED
  BY <1>1, <1>2

LEMMA BoughtIsNatural ==
  ASSUME NEW lines, NEW o, \A l \in lines : l.quantity \in Nat
  PROVE  Bought(lines, o) \in Nat
<1>1. CASE \E l \in lines : l.option = o
  <2> DEFINE b == CHOOSE l \in lines : l.option = o
  <2>1. b \in lines
    BY <1>1
  <2>2. Bought(lines, o) = b.quantity
    BY <1>1 DEF Bought
  <2> HIDE DEF b
  <2> QED
    BY <2>1, <2>2
<1>2. CASE ~\E l \in lines : l.option = o
  BY <1>2 DEF Bought
<1> QED
  BY <1>1, <1>2

LEMMA PurchaseTyped ==
  ASSUME IInv, Typed, NEW r \in Requests, CreatePurchase(r)
  PROVE  Typed'
<1> DEFINE lines == job[r].seen
           ordered == {[l EXCEPT !.price = LinePrice(l)] : l \in lines}
           n == Cardinality(orders)
           o == [number |-> n + 1, key |-> job[r].key, open |-> TRUE, url |-> FALSE,
                 lines |-> ordered]
<1>1. /\ job[r].step = "buy" /\ n < scenario.orders
      /\ \A l \in lines : l.quantity \in 1..MaxLine /\ Covers(stock[l.option], l.quantity)
      /\ orders' = orders \cup {o}
      /\ stock' = [p \in Options |-> stock[p] - Bought(lines, p)]
      /\ items' \subseteq items
      /\ job' = [job EXCEPT ![r].step = "pay", ![r].quantity = Cardinality(orders')]
      /\ UNCHANGED <<active, price, carts, lastRow, scenario>>
  BY DEF CreatePurchase, At, AfterCheckout
<1>2. JobTyped(job[r]) /\ IsFiniteSet(orders) /\ stock \in [Options -> Nat]
  BY DEF Typed, TypeOK
<1>3. n \in Nat /\ IsFiniteSet(orders') /\ Cardinality(orders') \in Nat
  BY <1>1, <1>2, FS_CardinalityType, FS_AddElement
<1>4. \A l \in ordered : l \in Line
  BY LinesTyped
<1> HIDE DEF ordered
<1>5. OrderTyped(o)
  BY <1>1, <1>2, <1>3, <1>4, CustomerInput DEF OrderTyped, JobTyped
<1>6. stock' \in [Options -> Nat]
  <2> SUFFICES ASSUME NEW p \in Options PROVE stock[p] - Bought(lines, p) \in Nat
    BY <1>1
  <2>1. stock[p] \in Nat
    BY <1>2
  <2>2. \A l \in lines : l.option = p => l.quantity \in Nat /\ Covers(stock[p], l.quantity)
    BY <1>1, CustomerInput
  <2>3. Bought(lines, p) \in Nat /\ Bought(lines, p) <= stock[p]
    BY <2>1, <2>2, BoughtIsCovered
  <2> QED
    BY <2>1, <2>3
<1>7. /\ job'[r].step = "pay" /\ job'[r].seen = job[r].seen
      /\ job'[r].quantity \in Nat /\ job'[r].key = job[r].key
      /\ \A q \in Requests : q # r => job'[q] = job[q]
  <2> DEFINE j == Job("pay", job[r].option, Cardinality(orders'), job[r].limit, job[r].price, job[r].seen, job[r].key)
  <2>1. job' = [job EXCEPT ![r] = j]
    BY <1>1, StepOrdering, Zenon
  <2>2. job'[r] = j /\ \A q \in Requests : q # r => job'[q] = job[q]
    BY <2>1, JobBecomes
  <2>3. /\ j.step = "pay" /\ j.seen = job[r].seen /\ j.quantity = Cardinality(orders')
        /\ j.key = job[r].key
    BY JobFields
  <2> HIDE DEF j
  <2> QED
    BY <1>3, <2>2, <2>3
<1>8. JobTyped(job'[r])
  BY <1>2, <1>7 DEF JobTyped, Steps
<1>9. \A q \in Requests : JobTyped(job'[q])
  BY <1>7, <1>8 DEF Typed
<1> HIDE DEF o
<1>10. TypeOK'
  BY <1>1, <1>5, <1>6, <1>9 DEF Typed, TypeOK, OrderTyped, JobTyped
<1> QED
  BY <1>3, <1>9, <1>10 DEF Typed

\* An order changes and keeps its number, key and lines.
LEMMA ChangeTyped ==
  ASSUME IInv, Typed, NEW o \in orders,
         NEW p, p \in {[o EXCEPT !.url = TRUE], [o EXCEPT !.open = FALSE]}, Change(o, p)
  PROVE  (\A q \in orders' : OrderTyped(q)) /\ IsFiniteSet(orders')
<1>1. OrderTyped(o) /\ OrderShape(o)
  BY DEF Typed, TypeOK, OrderTyped, IInv, Shapes
<1>2. OrderTyped(p)
  BY <1>1 DEF OrderTyped, OrderShape
<1>3. IsFiniteSet(orders \ {o}) /\ IsFiniteSet((orders \ {o}) \cup {p})
  <2>1. IsFiniteSet(orders)
    BY DEF Typed
  <2>2. IsFiniteSet(orders \ {o})
    BY <2>1, FS_Subset
  <2> QED
    BY <2>2, FS_AddElement
<1> QED
  BY <1>2, <1>3 DEF Change, Typed, TypeOK, OrderTyped

LEMMA BuyTyped ==
  ASSUME IInv, Typed, NEW r \in Requests,
         \/ \E o \in scenario.options, n \in scenario.quantities, k \in scenario.keys \cup {NoKey} :
              BuyNow(r, o, n, k)
         \/ \E k \in scenario.keys \cup {NoKey} : CheckoutCart(r, k)
         \/ ExistingCheckout(r) \/ CreatePurchase(r) \/ CreatePayment(r) \/ Refused(r)
  PROVE  Typed'
<1>r. JobTyped(job[r])
  BY DEF Typed
<1>1. ASSUME NEW o \in scenario.options, NEW n \in scenario.quantities,
             NEW k \in scenario.keys \cup {NoKey}, BuyNow(r, o, n, k)
      PROVE  Typed'
  <2> DEFINE seen == {[id |-> 0, option |-> o, quantity |-> n, price |-> NoPrice]}
  <2>1. JobTyped(Job("existing", NoOption, 0, Unlimited, NoPrice, seen, k))
    BY <1>1, CustomerInput DEF BuyNow, JobTyped, Job, Steps
  <2>2. Begin(r, "buyNow", Job("existing", NoOption, 0, Unlimited, NoPrice, seen, k))
        /\ UNCHANGED <<catalogueVars, cartVars, orders, scenario>>
    BY <1>1 DEF BuyNow
  <2> HIDE DEF seen
  <2> QED
    BY <2>1, <2>2, BeginTyped
<1>2. ASSUME NEW k \in scenario.keys \cup {NoKey}, CheckoutCart(r, k) PROVE Typed'
  <2>1. JobTyped(Job("existing", NoOption, 0, Unlimited, NoPrice, items, k))
    BY <1>2, CustomerInput DEF CheckoutCart, JobTyped, Job, Steps, Typed, TypeOK, Item
  <2> QED
    BY <1>2, <2>1, BeginTyped DEF CheckoutCart
<1>3. CASE ExistingCheckout(r)
  <2>1. CASE Goto(r, "buy")
    <3>1. JobTyped(job'[r])
      BY <1>3, <1>r, <2>1, GotoFields DEF ExistingCheckout, At, Goto, JobTyped, Steps
    <3> QED
      BY <1>3, <2>1, <3>1, GotoFields, ReadTyped DEF ExistingCheckout, Goto
  <2>2. CASE Done(r)
    BY <1>3, <2>2, DoneFields, ReadTyped DEF ExistingCheckout
  <2> QED
    BY <1>3, <2>1, <2>2 DEF ExistingCheckout
<1>4. CASE CreatePurchase(r)
  BY <1>4, PurchaseTyped
<1>5. CASE CreatePayment(r)
  <2>1. PICK o \in orders : /\ Change(o, [o EXCEPT !.url = TRUE]) /\ Done(r)
                            /\ UNCHANGED <<catalogueVars, cartVars, scenario>>
    BY <1>5 DEF CreatePayment
  <2>2. (\A q \in orders' : OrderTyped(q)) /\ IsFiniteSet(orders')
    BY <2>1, ChangeTyped
  <2> QED
    BY <2>1, <2>2, DoneFields, RequestTyped DEF cartVars, Typed, TypeOK
<1>6. CASE Refused(r)
  BY <1>6, DoneFields, ReadTyped DEF Refused
<1> QED
  BY <1>1, <1>2, <1>3, <1>4, <1>5, <1>6

LEMMA InitTyped == Init => Typed
<1> SUFFICES ASSUME Init PROVE Typed
  OBVIOUS
<1>1. scenario \in Scenarios /\ scenario.prices # {} /\ scenario.prices \subseteq Prices
      /\ Stock \in [Options -> Nat] /\ MaxRow \in Nat
  BY CartConstants DEF Init, Scenario
<1>2. (CHOOSE p \in scenario.prices : TRUE) \in Prices
  BY <1>1
<1>3. \A r \in Requests : JobTyped(job[r])
  BY IdleTyped DEF Init
<1>4. TypeOK
  BY <1>1, <1>2, <1>3 DEF Init, TypeOK, JobTyped
<1> QED
  BY <1>3, <1>4, FS_EmptySet DEF Init, Typed

LEMMA StepTyped == IInv /\ Typed /\ [Next]_vars => Typed'
<1> SUFFICES ASSUME IInv, Typed, [Next]_vars PROVE Typed'
  OBVIOUS
<1>o. \A o \in orders : OrderTyped(o)
  BY DEF Typed, TypeOK, OrderTyped
<1>1. ASSUME NEW r \in Requests, Step(r) PROVE Typed'
  BY <1>1, EditTyped, BuyTyped DEF Step
<1>2. ASSUME NEW o \in orders, Release(o) \/ Settle(o) PROVE Typed'
  <2>1. /\ Change(o, [o EXCEPT !.open = FALSE]) /\ stock' \in {stock, Returned(o)}
        /\ UNCHANGED <<active, price, cartVars, job, scenario>>
    BY <1>2 DEF Release, Settle, catalogueVars
  <2>2. (\A q \in orders' : OrderTyped(q)) /\ IsFiniteSet(orders')
    BY <2>1, ChangeTyped
  <2>3. stock' \in [Options -> Nat]
    <3>1. \A l \in o.lines : l.quantity \in Nat
      BY <1>o, CustomerInput DEF OrderTyped, Line
    <3>2. \A p \in Options : Bought(o.lines, p) \in Nat
      BY <3>1, BoughtIsNatural
    <3> QED
      BY <2>1, <3>2 DEF Returned, Typed, TypeOK
  <2> QED
    BY <2>1, <2>2, <2>3 DEF Typed, TypeOK, OrderTyped, cartVars
<1>3. ASSUME NEW o \in scenario.edited, SetPrice(o) \/ SetActive(o) PROVE Typed'
  <2>1. o \in Options /\ scenario.prices \subseteq Prices
    BY CartConstants DEF Typed, TypeOK, Scenario
  <2>2. price' \in [Options -> Prices] /\ active' \subseteq Options
    BY <1>3, <2>1 DEF SetPrice, SetActive, Typed, TypeOK
  <2> QED
    BY <1>3, <2>2 DEF SetPrice, SetActive, cartVars, Typed, TypeOK
<1>4. CASE UNCHANGED vars
  BY <1>4 DEF vars, catalogueVars, cartVars, Typed, TypeOK
<1> QED
  BY <1>1, <1>2, <1>3, <1>4 DEF Next

\* However the requests of the customer interleave, the unique keys leave one cart
\* and one row for an option, although the rows are written by id; what is written
\* is well-typed, and no purchase takes more codes than there are.
THEOREM CartIsOne == Spec => []CartInvariant
<1>1. Init => IInv /\ Typed
  BY InitIInv, InitTyped
<1>2. IInv /\ Typed /\ [Next]_vars => IInv' /\ Typed'
  BY StepIInv, StepTyped
<1>3. IInv /\ Typed => CartInvariant
  BY DEF IInv, Typed, CartInvariant
<1> QED
  BY <1>1, <1>2, <1>3, PTL DEF Spec

\* Two requests with one Idempotency-Key buy once (createPurchase, existingCheckout).
THEOREM KeyIsSpentOnce == Spec => []KeyBuysOnce
<1>1. IInv => KeyBuysOnce
  BY DEF IInv
<1> QED
  BY InitIInv, StepIInv, <1>1, PTL DEF Spec

\* The rows createPurchase deletes by id are rows the request read, and have the
\* options it buys.
LEMMA DeletedIsBought ==
  ASSUME IInv, NEW r \in Requests, CreatePurchase(r), NEW o \in orders',
         \A p \in orders : p.number # o.number, NEW i \in items \ items'
  PROVE  \E l \in o.lines : l.option = i.option
<1> DEFINE lines == job[r].seen
<1>1. o.lines = {[l EXCEPT !.price = LinePrice(l)] : l \in lines}
  BY DEF CreatePurchase
<1>2. PICK l \in lines : l.id = i.id
  BY DEF CreatePurchase, AfterCheckout
<1>3. i.option = l.option /\ RowShape(l)
  BY <1>2 DEF IInv, Seen, SeenIn, SameOption
<1>4. [l EXCEPT !.price = LinePrice(l)].option = l.option
  BY <1>3 DEF RowShape
<1> QED
  BY <1>1, <1>2, <1>3, <1>4

\* A checkout takes away only rows it bought, also when items are added, changed
\* and removed while it runs.
THEOREM CheckoutLeavesTheRest == Spec => UnboughtStays
<1> DEFINE New(o) == \A p \in orders : p.number # o.number
           Keeps == \A o \in orders' : New(o) =>
                      \A i \in items \ items' : \E l \in o.lines : l.option = i.option
<1>1. IInv /\ [Next]_vars => [Keeps]_vars
  <2> SUFFICES ASSUME IInv, Next, NEW o \in orders', New(o), NEW i \in items \ items'
               PROVE  \E l \in o.lines : l.option = i.option
    OBVIOUS
  <2>1. o \notin orders
    OBVIOUS
  <2>2. \A p \in orders : p.number = [p EXCEPT !.url = TRUE].number
                         /\ p.number = [p EXCEPT !.open = FALSE].number
    BY OrderChanges DEF IInv, Shapes
  <2>3. \A r \in Requests : CreatePayment(r) => FALSE
    BY <2>1, <2>2 DEF CreatePayment, Change
  <2>4. \A p \in orders : Release(p) \/ Settle(p) => FALSE
    BY <2>1, <2>2 DEF Release, Settle, Change
  <2>5. PICK r \in Requests : CreatePurchase(r)
    BY <2>1, <2>3, <2>4 DEF Next, Step, SetPrice, SetActive, AddToCart, GetCart, CreateCart,
       ReadItem, InsertItem, UpdateItem, Write, FindItem, ResolveOption, SetItem, DeleteItem,
       StartClear, ClearCart, BuyNow, CheckoutCart, ExistingCheckout, Refused
  <2> QED
    BY <2>5, DeletedIsBought
<1> QED
  BY InitIInv, StepIInv, <1>1, PTL DEF Spec, UnboughtStays
==============================================================================
