---------------------------------- MODULE Cart ----------------------------------
(***************************************************************************)
(* The cart of one customer and the orders that come out of it: requests    *)
(* that add, change, remove and clear items, the checkout of the cart, the   *)
(* direct purchase, and the Idempotency-Key that makes a purchase           *)
(* repeatable.                                                              *)
(*                                                                         *)
(* A request reads the catalogue, the cart and the item one query after the *)
(* other and writes by row id: each query is a step, and several requests   *)
(* of the customer may be between two of theirs.  createPurchase's          *)
(* transaction is one step.  Which codes a purchase reserves is in          *)
(* GiftCardCheckout; here a gift card has a number of codes in stock.       *)
(***************************************************************************)
EXTENDS Integers, FiniteSets

CONSTANTS
  Requests,
  Options,      \* denominations, packages and plans: what an optionKey names
  GiftCards,    \* those that are denominations of gift cards
  Stock,        \* [Options -> Nat]: codes or stockQuantity, Unlimited for null
  Unlimited,    \* a number no quantity reaches
  Prices,
  MaxLine,      \* the most of one gift card in an order (20)
  Keys,         \* the values of Idempotency-Key
  NoKey, NoOption,
  MaxRow,       \* bound: cart items ever inserted
  MaxOrders,    \* bound: orders ever placed
  Scenarios     \* the values of scenario

Ops == {"add", "update", "remove", "clear", "checkoutCart", "buyNow"}

\* What happens in a behaviour: the options, quantities and keys the customer
\* enters, the prices administrators set, the operations requests call, how many
\* of them run at once, the options administrators edit meanwhile, and bounds on
\* rows and orders.
Scenario ==
  [options : SUBSET Options, quantities : SUBSET Nat, prices : SUBSET Prices,
   keys : SUBSET Keys, ops : SUBSET Ops, requests : Nat,
   edited : SUBSET Options, rows : 0..MaxRow, orders : 0..MaxOrders]

ASSUME CartConstants ==
  /\ GiftCards \subseteq Options /\ Stock \in [Options -> Nat]
  /\ MaxLine \in Nat /\ Unlimited \in Nat
  /\ NoKey \notin Keys /\ NoOption \notin Options
  /\ MaxRow \in Nat /\ MaxOrders \in Nat
  /\ \A s \in Scenarios : s \in Scenario /\ s.prices # {}   \* every option has a sellingPriceBDT

VARIABLES
  active,    \* the options on sale, their products included
  price,     \* their sellingPriceBDT
  stock,     \* available codes, or the option's stockQuantity
  carts,     \* the customer's rows in carts, as a number
  items,     \* the rows of cart_items
  lastRow,   \* the id of the last row inserted
  orders,    \* the customer's orders: open is PENDING with its payment
             \* PROCESSING, url says that the payment has its paymentUrl
  scenario,  \* fixed by the initial state
  job        \* what each request is doing

catalogueVars == <<active, price, stock>>
cartVars == <<carts, items, lastRow>>
vars == <<catalogueVars, cartVars, orders, scenario, job>>

NoPrice == 0
Item == [id : 1..MaxRow, option : Options, quantity : Nat, price : Prices]
\* id is 0 for a line that comes from a direct purchase and not from a row.
Line == [id : 0..MaxRow, option : GiftCards, quantity : 1..MaxLine, price : Prices \cup {NoPrice}]
Steps == {"idle", "cart", "create", "item", "update", "insert", "resolve", "set", "delete",
          "clear", "existing", "buy", "pay"}
Job(step, o, n, limit, p, seen, k) ==
  [step |-> step, option |-> o, quantity |-> n, limit |-> limit, price |-> p, seen |-> seen, key |-> k]
Idle == Job("idle", NoOption, 0, Unlimited, NoPrice, {}, NoKey)

TypeOK ==
  /\ active \subseteq Options /\ price \in [Options -> Prices] /\ stock \in [Options -> Nat]
  /\ carts \in Nat /\ lastRow \in 0..MaxRow
  /\ \A i \in items : i \in Item
  /\ \A o \in orders : /\ o.number \in 1..MaxOrders /\ o.key \in Keys \cup {NoKey}
                         /\ o.open \in BOOLEAN /\ o.url \in BOOLEAN
                         /\ \A l \in o.lines : l \in Line
  /\ scenario \in Scenarios
  /\ \A r \in Requests : job[r].step \in Steps /\ job[r].key \in Keys \cup {NoKey}

Init ==
  /\ scenario \in Scenarios
  /\ active = Options /\ price = [o \in Options |-> CHOOSE p \in scenario.prices : TRUE] /\ stock = Stock
  /\ carts = 0 /\ items = {} /\ lastRow = 0 /\ orders = {}
  /\ job = [r \in Requests |-> Idle]

At(r, step) == job[r].step = step
Begin(r, op, rec) ==
  /\ At(r, "idle") /\ op \in scenario.ops
  /\ Cardinality({q \in Requests : ~At(q, "idle")}) < scenario.requests
  /\ job' = [job EXCEPT ![r] = rec]
Goto(r, step) == job' = [job EXCEPT ![r].step = step]
Done(r) == job' = [job EXCEPT ![r] = Idle]
RowOf(o) == {i \in items : i.option = o}

------------------------------------------------------------------------------
(* Adding: the option, the cart, the item *)

Covers(limit, n) == n <= limit

\* addToCart: resolveProductOption and the first look at the stock.
AddToCart(r, o, n) ==
  /\ n > 0 /\ o \in active /\ Covers(stock[o], n)
  /\ Begin(r, "add", Job("cart", o, n, stock[o], price[o], {}, NoKey))
  /\ UNCHANGED <<catalogueVars, cartVars, orders, scenario>>

\* getOrCreateCart, also for getCart and clearCart.
GetCart(r) ==
  /\ At(r, "cart")
  /\ Goto(r, IF carts = 0 THEN "create" ELSE IF job[r].option = NoOption THEN "clear" ELSE "item")
  /\ UNCHANGED <<catalogueVars, cartVars, orders, scenario>>

\* The unique key on userId.
CartFree(r) == carts = 0

CreateCart(r) ==
  /\ At(r, "create") /\ CartFree(r) /\ carts' = carts + 1
  /\ Goto(r, IF job[r].option = NoOption THEN "clear" ELSE "item")
  /\ UNCHANGED <<catalogueVars, items, lastRow, orders, scenario>>

StockForSum(limit, old, n) == Covers(limit, old + n)

ReadItem(r) ==
  /\ At(r, "item")
  /\ \/ RowOf(job[r].option) = {} /\ Goto(r, "insert")
     \/ \E i \in RowOf(job[r].option) :
          /\ StockForSum(job[r].limit, i.quantity, job[r].quantity)
          /\ job' = [job EXCEPT ![r].step = "update", ![r].seen = {i}]
  /\ UNCHANGED <<catalogueVars, cartVars, orders, scenario>>

\* Mistake: the table has no unique key for the option.
AnyRow(r) == TRUE
\* The unique key on cart, product type and optionKey.
RowFree(r) == RowOf(job[r].option) = {}

InsertItem(r) ==
  /\ At(r, "insert") /\ RowFree(r) /\ lastRow < scenario.rows
  /\ lastRow' = lastRow + 1
  /\ items' = items \cup {[id |-> lastRow', option |-> job[r].option,
                           quantity |-> job[r].quantity, price |-> job[r].price]}
  /\ Done(r) /\ UNCHANGED <<catalogueVars, carts, orders, scenario>>

\* The update goes by id: a row that is gone refuses it.
Write(r, n) ==
  /\ \E i \in items, s \in job[r].seen :
       /\ i.id = s.id
       /\ items' = (items \ {i}) \cup {[i EXCEPT !.quantity = n, !.price = job[r].price]}
  /\ Done(r) /\ UNCHANGED <<catalogueVars, carts, lastRow, orders, scenario>>

UpdateItem(r) ==
  /\ At(r, "update")
  /\ \E s \in job[r].seen : Write(r, s.quantity + job[r].quantity)

------------------------------------------------------------------------------
(* Changing, removing, clearing *)

\* updateCartItem and removeFromCart: findCartItem; quantity 0 removes the item.
FindItem(r, i, n, op) ==
  /\ carts > 0 /\ i \in items
  /\ Begin(r, op, Job(IF op = "remove" \/ n = 0 THEN "delete" ELSE "resolve",
                         i.option, n, Unlimited, NoPrice, {i}, NoKey))
  /\ UNCHANGED <<catalogueVars, cartVars, orders, scenario>>

ResolveOption(r) ==
  LET o == job[r].option
  IN  /\ At(r, "resolve") /\ o \in active /\ Covers(stock[o], job[r].quantity)
      /\ job' = [job EXCEPT ![r].step = "set", ![r].price = price[o]]
      /\ UNCHANGED <<catalogueVars, cartVars, orders, scenario>>

SetItem(r) == At(r, "set") /\ Write(r, job[r].quantity)

DeleteItem(r) ==
  /\ At(r, "delete")
  /\ \E i \in items, s \in job[r].seen : i.id = s.id /\ items' = items \ {i}
  /\ Done(r) /\ UNCHANGED <<catalogueVars, carts, lastRow, orders, scenario>>

StartClear(r) ==
  /\ Begin(r, "clear", Job("cart", NoOption, 0, Unlimited, NoPrice, {}, NoKey)) /\ UNCHANGED <<catalogueVars, cartVars, orders, scenario>>
ClearCart(r) ==
  /\ At(r, "clear") /\ items' = {}
  /\ Done(r) /\ UNCHANGED <<catalogueVars, carts, lastRow, orders, scenario>>

------------------------------------------------------------------------------
(* Buying *)

\* buyNow and instantBuy: one line and no cart.
BuyNow(r, o, n, k) ==
  /\ o \in GiftCards /\ n > 0
  /\ Begin(r, "buyNow",
       Job("existing", NoOption, 0, Unlimited, NoPrice,
           {[id |-> 0, option |-> o, quantity |-> n, price |-> NoPrice]}, k))
  /\ UNCHANGED <<catalogueVars, cartVars, orders, scenario>>

\* checkoutCart reads the cart; only gift cards are bought from it.
CheckoutCart(r, k) ==
  /\ items # {} /\ \A i \in items : i.option \in GiftCards
  /\ Begin(r, "checkoutCart", Job("existing", NoOption, 0, Unlimited, NoPrice, items, k))
  /\ UNCHANGED <<catalogueVars, cartVars, orders, scenario>>

WithKey(k) == {o \in orders : k # NoKey /\ o.key = k}

\* existingCheckout: an order with the key answers with its paymentUrl or as a
\* duplicate.
ExistingCheckout(r) ==
  /\ At(r, "existing")
  /\ \/ WithKey(job[r].key) = {} /\ Goto(r, "buy")
     \/ WithKey(job[r].key) # {} /\ Done(r)
  /\ UNCHANGED <<catalogueVars, cartVars, orders, scenario>>

\* Mistake: the order does not carry a unique checkoutKey.
AnyKey(k) == TRUE
\* The unique key on userId and checkoutKey.
KeyFree(k) == WithKey(k) = {}
LinePrice(l) == price[l.option]
\* Mistake: the checkout clears the cart.
WholeCart(lines) == {}
AfterCheckout(lines) == {i \in items : \A l \in lines : l.id # i.id}

Bought(lines, o) ==
  IF \E l \in lines : l.option = o THEN (CHOOSE l \in lines : l.option = o).quantity ELSE 0

\* createPurchase's transaction.
CreatePurchase(r) ==
  LET lines == job[r].seen
  IN  /\ At(r, "buy") /\ Cardinality(orders) < scenario.orders
      /\ \A l \in lines : /\ l.quantity \in 1..MaxLine /\ l.option \in active
                          /\ Covers(stock[l.option], l.quantity)
      /\ KeyFree(job[r].key)
      /\ orders' = orders \cup
           {[number |-> Cardinality(orders) + 1, key |-> job[r].key, open |-> TRUE, url |-> FALSE,
             lines |-> {[l EXCEPT !.price = LinePrice(l)] : l \in lines}]}
      /\ stock' = [o \in Options |-> stock[o] - Bought(lines, o)]
      /\ items' = AfterCheckout(lines)
      /\ job' = [job EXCEPT ![r].step = "pay", ![r].quantity = Cardinality(orders')]
      /\ UNCHANGED <<active, price, carts, lastRow, scenario>>

Change(o, p) == orders' = (orders \ {o}) \cup {p}
Returned(o) == [p \in Options |-> stock[p] + Bought(o.lines, p)]

\* createPayment stores the URL, or the gateway rejects and the codes go back.
CreatePayment(r) ==
  \E o \in orders :
    /\ At(r, "pay") /\ o.number = job[r].quantity /\ o.open
    /\ Change(o, [o EXCEPT !.url = TRUE]) /\ Done(r)
    /\ UNCHANGED <<catalogueVars, cartVars, scenario>>
Release(o) ==
  /\ o.open /\ Change(o, [o EXCEPT !.open = FALSE]) /\ stock' = Returned(o)
  /\ UNCHANGED <<active, price, cartVars, job, scenario>>
Settle(o) ==
  /\ o.open /\ o.url /\ Change(o, [o EXCEPT !.open = FALSE])
  /\ UNCHANGED <<catalogueVars, cartVars, job, scenario>>

\* A guard refuses, a row is gone, a key is taken, a query fails.
Refused(r) ==
  /\ ~At(r, "idle") /\ Done(r) /\ UNCHANGED <<catalogueVars, cartVars, orders, scenario>>

------------------------------------------------------------------------------

\* The catalogue is edited meanwhile, or between requests that run one by one.
Undisturbed == scenario.requests > 1 \/ \A q \in Requests : At(q, "idle")
SetPrice(o) ==
  /\ Undisturbed
  /\ \E p \in scenario.prices : price' = [price EXCEPT ![o] = p]
  /\ UNCHANGED <<active, stock, cartVars, orders, job, scenario>>
SetActive(o) ==
  /\ Undisturbed
  /\ active' = (IF o \in active THEN active \ {o} ELSE active \cup {o})
  /\ UNCHANGED <<price, stock, cartVars, orders, job, scenario>>

Step(r) ==
  \/ \E o \in scenario.options, n \in scenario.quantities : AddToCart(r, o, n)
  \/ GetCart(r) \/ CreateCart(r) \/ ReadItem(r) \/ InsertItem(r) \/ UpdateItem(r)
  \/ \E i \in items, n \in scenario.quantities \cup {0} : FindItem(r, i, n, "update")
  \/ \E i \in items : FindItem(r, i, 0, "remove")
  \/ ResolveOption(r) \/ SetItem(r) \/ DeleteItem(r) \/ StartClear(r) \/ ClearCart(r)
  \/ \E o \in scenario.options, n \in scenario.quantities, k \in scenario.keys \cup {NoKey} : BuyNow(r, o, n, k)
  \/ \E k \in scenario.keys \cup {NoKey} : CheckoutCart(r, k)
  \/ ExistingCheckout(r) \/ CreatePurchase(r) \/ CreatePayment(r) \/ Refused(r)

Next ==
  \/ \E r \in Requests : Step(r)
  \/ \E o \in orders : Release(o) \/ Settle(o)
  \/ \E o \in scenario.edited : SetPrice(o) \/ SetActive(o)

Spec == Init /\ [][Next]_vars

------------------------------------------------------------------------------

\* However the requests of the customer interleave, there is one cart and one
\* row for an option.
OneCartOneRow == carts <= 1 /\ \A i, j \in items : i.option = j.option => i = j

\* A cart that the customer can keep using: well-typed, one of it, and one row
\* to change for an option.
CartInvariant == TypeOK /\ OneCartOneRow

\* Two requests with one key, at the same time or one after the other, buy once.
KeyBuysOnce == \A o, p \in orders : o.key # NoKey /\ o.key = p.key => o = p

\* A checkout takes away only rows it bought: an item added while it ran stays.
UnboughtStays ==
  [][\A o \in orders' : (\A p \in orders : p.number # o.number) =>
       \A i \in items \ items' : \E l \in o.lines : l.option = i.option]_vars
==============================================================================
