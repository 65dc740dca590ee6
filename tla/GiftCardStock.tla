----------------------------- MODULE GiftCardStock -----------------------------
(***************************************************************************)
(* The stock behind gift-card orders and its administration: a product, its *)
(* denominations and their codes, edited by administrators while checkouts  *)
(* reserve codes and settlements sell them.                                 *)
(*                                                                         *)
(* An administrator's request reads and checks in one step and writes by id *)
(* in another; a checkout, a settlement and a release are transactions and  *)
(* one step each (GiftCardCheckout has the payment around them).  A secret  *)
(* stands for a code's plaintext; which of the sellable codes SKIP LOCKED   *)
(* picks is left open.                                                      *)
(***************************************************************************)
EXTENDS Naturals, FiniteSets, PaymentStates

CONSTANTS
  Codes,         \* rows of gift_card_codes
  Secrets,       \* plaintexts of codes
  LegacySecret,  \* the plaintext of a row that is there from the beginning
  Denominations,
  Orders,
  Wanted,        \* the denomination an order buys
  Admins,        \* administrators' requests
  Scenarios,     \* the values of scenario
  NoOrder, NoSecret, NoCode, NoDenomination

ProductOps == {"activateProduct", "deactivateProduct", "archiveProduct"}
DenominationOps ==
  {"createDenomination", "updateDenomination", "deleteDenomination", "deactivateDenomination"}
CodeOps == {"addCodes", "updateCode", "deleteCode"}
AdminOps == ProductOps \cup DenominationOps \cup CodeOps
Expiries == {"keep", "never", "future", "past"}

\* What happens in a behaviour: the codes that are there already, in plaintext
\* without codeHash, the denominations, the orders and how many codes each buys,
\* what administrators call and enter in their forms ("keep" is an empty field),
\* how many of their requests run at once, whether other steps may happen between
\* a request's read and its write, and whether the server restarts.
Scenario ==
  [legacy : SUBSET Codes, denominations : SUBSET Denominations,
   orders : SUBSET Orders, quantity : Nat \ {0},
   ops : SUBSET AdminOps, statuses : SUBSET (GiftCardCodeStatus \cup {"keep"}),
   expiries : SUBSET Expiries, requests : Nat, staleEdits : BOOLEAN,
   restarts : BOOLEAN]

ASSUME StockConstants ==
  /\ LegacySecret \in [Codes -> Secrets]
  /\ \A c, d \in Codes : LegacySecret[c] = LegacySecret[d] => c = d
  /\ Wanted \in [Orders -> Denominations] /\ Scenarios \subseteq Scenario
  /\ IsFiniteSet(Codes) /\ NoOrder \notin Orders /\ NoSecret \notin Secrets
  /\ NoCode \notin Codes /\ NoDenomination \notin Denominations

VARIABLES
  product,       \* gift_card_products.status
  archived,      \* gift_card_products.deletedAt is set
  denomination,  \* active, inactive, or NoRow
  codeStatus,    \* gift_card_codes.status, NoRow for a row that is not there
  codeOf,        \* gift_card_codes.denominationId
  secret,        \* the plaintext behind gift_card_codes.code
  hashed,        \* gift_card_codes.codeHash is set
  expiry,        \* gift_card_codes.expiryDate: never, future, past
  owner,         \* gift_card_codes.orderItemId, as the item's order
  delivery,      \* the order gift_card_deliveries has a row of the code for
  order,         \* none, pending, completed, cancelled, refund
  startExpired,  \* the codes whose expiry date had passed when the server started
  scenario,      \* fixed by the initial state
  job            \* what each administrator's request is doing

catalogueVars == <<product, archived, denomination>>
codeVars == <<codeStatus, codeOf, secret, hashed, expiry, owner>>
vars == <<catalogueVars, codeVars, delivery, order, startExpired, scenario, job>>

Exists(c) == codeStatus[c] # NoRow
Request(op, c, d, s, e, S) ==
  [op |-> op, code |-> c, denomination |-> d, status |-> s, expiry |-> e, secrets |-> S]
Idle == Request("none", NoCode, NoDenomination, "keep", "keep", {})
Job == [op : {"none"} \cup AdminOps, code : Codes \cup {NoCode},
        denomination : Denominations \cup {NoDenomination},
        status : GiftCardCodeStatus \cup {"keep"},
        expiry : Expiries, secrets : SUBSET Secrets]

\* Without stale edits nothing happens between a read and its write.
Free == scenario.staleEdits \/ \A a \in Admins : job[a] = Idle

TypeOK ==
  /\ product \in {"ACTIVE", "INACTIVE", "ARCHIVED"} /\ archived \in BOOLEAN
  /\ denomination \in [Denominations -> {NoRow, "active", "inactive"}]
  /\ codeStatus \in [Codes -> GiftCardCodeStatus \cup {NoRow}]
  /\ codeOf \in [Codes -> Denominations \cup {NoDenomination}]
  /\ secret \in [Codes -> Secrets \cup {NoSecret}] /\ hashed \in [Codes -> BOOLEAN]
  /\ expiry \in [Codes -> {"never", "future", "past"}]
  /\ owner \in [Codes -> Orders \cup {NoOrder}] /\ delivery \in [Codes -> Orders \cup {NoOrder}]
  /\ order \in [Orders -> {"none", "pending", "completed", "cancelled", "refund"}]
  /\ startExpired \subseteq Codes /\ scenario \in Scenarios /\ job \in [Admins -> Job]

Init ==
  /\ scenario \in Scenarios
  /\ product = "ACTIVE" /\ archived = FALSE
  /\ denomination = [d \in Denominations |-> IF d \in scenario.denominations THEN "active" ELSE NoRow]
  /\ codeStatus = [c \in Codes |-> IF c \in scenario.legacy THEN "AVAILABLE" ELSE NoRow]
  /\ codeOf \in [Codes -> scenario.denominations \cup {NoDenomination}]
  /\ \A c \in Codes : (codeOf[c] = NoDenomination) = (c \notin scenario.legacy)
  /\ secret = [c \in Codes |-> IF c \in scenario.legacy THEN LegacySecret[c] ELSE NoSecret]
  /\ hashed = [c \in Codes |-> FALSE]
  /\ expiry = [c \in Codes |-> IF c \in scenario.legacy THEN "future" ELSE "never"]
  /\ owner = [c \in Codes |-> NoOrder] /\ delivery = [c \in Codes |-> NoOrder]
  /\ order = [o \in Orders |-> "none"]
  /\ startExpired = {} /\ job = [a \in Admins |-> Idle]

------------------------------------------------------------------------------
(* Checkout, settlement, release, late payment *)

Sellable(c) == codeStatus[c] = "AVAILABLE" /\ expiry[c] # "past"
Held(o, statuses) == {c \in Codes : owner[c] = o /\ codeStatus[c] \in statuses}
Picks(o) ==
  {S \in SUBSET {c \in Codes : Sellable(c) /\ codeOf[c] = Wanted[o]} : Cardinality(S) = scenario.quantity}
SetCodes(S, status, o) ==
  /\ codeStatus' = [c \in Codes |-> IF c \in S THEN status ELSE codeStatus[c]]
  /\ owner' = [c \in Codes |-> IF c \in S THEN o ELSE owner[c]]
  /\ UNCHANGED <<codeOf, secret, hashed, expiry>>
SetOrder(o, s) == order' = [order EXCEPT ![o] = s]
Elsewhere == Free /\ UNCHANGED <<catalogueVars, startExpired, scenario, job>>

\* createPurchase's transaction: the selections, then reserveCodes.
CreatePurchase(o) ==
  /\ order[o] = "none" /\ product = "ACTIVE" /\ ~archived
  /\ denomination[Wanted[o]] = "active"
  /\ \E S \in Picks(o) : SetCodes(S, "RESERVED", o)
  /\ SetOrder(o, "pending") /\ Elsewhere /\ UNCHANGED delivery

\* finalizeGiftCardOrder; a code keeps the delivery row it has (skipDuplicates).
Sell(S, o) ==
  /\ SetCodes(S, "SOLD", o) /\ SetOrder(o, "completed") /\ Elsewhere
  /\ delivery' = [c \in Codes |-> IF c \in S /\ delivery[c] = NoOrder THEN o ELSE delivery[c]]

\* Mistake: an order is completed with the codes that are left.
EnoughOrNot(o) == Held(o, {"RESERVED"}) # {}
Complete(o) == Cardinality(Held(o, {"RESERVED"})) = scenario.quantity

Finalize(o) == order[o] = "pending" /\ Complete(o) /\ Sell(Held(o, {"RESERVED"}), o)

ReleaseCodes(o) == SetCodes(Held(o, {"RESERVED"}), "AVAILABLE", NoOrder)

Release(o) ==
  /\ order[o] = "pending" /\ ReleaseCodes(o)
  /\ SetOrder(o, "cancelled") /\ Elsewhere /\ UNCHANGED delivery

Refund(o) == SetOrder(o, "refund") /\ Elsewhere /\ UNCHANGED <<codeVars, delivery>>

\* A payment verified after the release: reserveGiftCardInventoryForLatePayment
\* takes codes that are AVAILABLE and have no orderItemId, or the money goes back.
LatePayment(o) ==
  LET held == Held(o, {"RESERVED", "SOLD"})
  IN  /\ order[o] = "cancelled"
      /\ \/ held # {} /\ Complete(o) /\ Sell(held, o)
         \/ held # {} /\ Cardinality(held) # scenario.quantity /\ Refund(o)
         \/ held = {} /\ Picks(o) = {} /\ Refund(o)
         \/ /\ held = {}
            /\ \E S \in Picks(o) :
                 IF \A c \in S : owner[c] = NoOrder THEN Sell(S, o) ELSE Refund(o)

\* verifyPaymentIssue on a payment that is UNKNOWN: no code is touched.
VerifyPaymentIssue(o) == order[o] = "pending" /\ Refund(o)

------------------------------------------------------------------------------
(* Administration: a request reads and checks, then writes *)

Begin(a, rec) ==
  /\ job[a] = Idle /\ rec.op \in scenario.ops /\ Free
  /\ Cardinality({b \in Admins : job[b] # Idle}) < scenario.requests
  /\ job' = [job EXCEPT ![a] = rec]
  /\ UNCHANGED <<catalogueVars, codeVars, delivery, order, startExpired, scenario>>
Done(a) == job' = [job EXCEPT ![a] = Idle]
Written == UNCHANGED <<delivery, order, startExpired, scenario>>

\* updateProduct, updateGiftCard and archiveProduct, deleteGiftCard.
ProductRead(a, op) == ~archived /\ Begin(a, Request(op, NoCode, NoDenomination, "keep", "keep", {}))
ProductWrite(a) ==
  /\ \/ job[a].op = "activateProduct" /\ product' = "ACTIVE" /\ UNCHANGED archived
     \/ job[a].op = "deactivateProduct" /\ product' = "INACTIVE" /\ UNCHANGED archived
     \/ job[a].op = "archiveProduct" /\ product' = "ARCHIVED" /\ archived' = TRUE
  /\ Done(a) /\ Written /\ UNCHANGED <<denomination, codeVars>>

\* createDenomination: value and currency are unique within the product.
CreateDenomination(d) ==
  /\ "createDenomination" \in scenario.ops /\ Free /\ ~archived /\ denomination[d] = NoRow
  /\ \E s \in {"active", "inactive"} : denomination' = [denomination EXCEPT ![d] = s]
  /\ Written /\ UNCHANGED <<product, archived, codeVars, job>>

UpdateDenomination(d) ==
  /\ "updateDenomination" \in scenario.ops /\ Free /\ ~archived /\ denomination[d] # NoRow
  /\ \E s \in {"active", "inactive"} : denomination' = [denomination EXCEPT ![d] = s]
  /\ Written /\ UNCHANGED <<product, archived, codeVars, job>>

CodesOf(d) == {c \in Codes : Exists(c) /\ codeOf[c] = d}
OrdersOf(d) == {o \in Orders : order[o] # "none" /\ Wanted[o] = d}
\* Mistake: the foreign key of the codes does not restrict the deletion.
DeletableUnlessOrdered(d) == OrdersOf(d) = {}
\* The foreign keys: RESTRICT for codes, SET NULL for order items.
Deletable(d) == CodesOf(d) = {}

DeleteDenominationRead(a, d) ==
  /\ ~archived /\ denomination[d] # NoRow
  /\ LET op == IF CodesOf(d) \cup OrdersOf(d) = {} THEN "deleteDenomination" ELSE "deactivateDenomination"
     IN  Begin(a, Request(op, NoCode, d, "keep", "keep", {}))
DeleteDenomination(a) ==
  LET d == job[a].denomination
  IN  /\ d # NoDenomination /\ denomination[d] # NoRow
      /\ \/ /\ job[a].op = "deactivateDenomination"
            /\ denomination' = [denomination EXCEPT ![d] = "inactive"]
         \/ /\ job[a].op = "deleteDenomination" /\ Deletable(d)
            /\ denomination' = [denomination EXCEPT ![d] = NoRow]
      /\ Done(a) /\ Written /\ UNCHANGED <<product, archived, codeVars>>

\* Mistake: only the hashes are compared, legacy rows have none.
HashTaken(s) == \E c \in Codes : Exists(c) /\ secret[c] = s /\ hashed[c]
Taken(s) == \E c \in Codes : Exists(c) /\ secret[c] = s
\* The unique key on codeHash; ciphertexts are never equal.
HashFree(S, except) == \A c \in Codes \ {except} : Exists(c) /\ hashed[c] => secret[c] \notin S

\* addCode (one secret) and addCodesBulk.
AddCodesRead(a, d, S, e) ==
  /\ ~archived /\ denomination[d] # NoRow
  /\ \A s \in S : ~Taken(s)
  /\ Begin(a, Request("addCodes", NoCode, d, "keep", e, S))
AddCodes(a) ==
  LET S == job[a].secrets
      d == job[a].denomination
      e == IF job[a].expiry = "keep" THEN "never" ELSE job[a].expiry
      s == IF e = "past" THEN "EXPIRED" ELSE "AVAILABLE"
  IN  /\ job[a].op = "addCodes" /\ denomination[d] # NoRow /\ HashFree(S, NoCode)
      /\ \E R \in SUBSET {c \in Codes : ~Exists(c)} : \E f \in [R -> S] :
           /\ Cardinality(R) = Cardinality(S) /\ {f[c] : c \in R} = S
           /\ codeStatus' = [c \in Codes |-> IF c \in R THEN s ELSE codeStatus[c]]
           /\ codeOf' = [c \in Codes |-> IF c \in R THEN d ELSE codeOf[c]]
           /\ secret' = [c \in Codes |-> IF c \in R THEN f[c] ELSE secret[c]]
           /\ hashed' = [c \in Codes |-> c \in R \/ hashed[c]]
           /\ expiry' = [c \in Codes |-> IF c \in R THEN e ELSE expiry[c]]
      /\ Done(a) /\ Written /\ UNCHANGED <<catalogueVars, owner>>

allowedTransitions ==
  [AVAILABLE |-> {"DISABLED", "EXPIRED"}, RESERVED |-> {"AVAILABLE"}, SOLD |-> {},
   DISABLED |-> {"AVAILABLE", "EXPIRED"}, EXPIRED |-> {"DISABLED"}]
NextStatus(s, e) == IF e = "past" THEN "EXPIRED" ELSE s
ExpiryAfter(c, e) == IF e = "keep" THEN expiry[c] ELSE e
\* Mistake: sold codes are not refused.
SoldToo(c) == TRUE
Editable(c) == codeStatus[c] # "SOLD"

UpdateCodeRead(a, c, s, e, x) ==
  /\ Exists(c) /\ Editable(c)
  /\ s \in {"keep", codeStatus[c]} \cup allowedTransitions[codeStatus[c]]
  /\ \A y \in x \ {secret[c]} : ~Taken(y)
  /\ NextStatus(s, e) = "AVAILABLE" => expiry[c] # "past" \/ e = "future"
  /\ Begin(a, Request("updateCode", c, NoDenomination, NextStatus(s, e), e, x))
\* The write goes by id: orderItemId and whatever changed meanwhile stay.
UpdateCode(a) ==
  LET c == job[a].code
      x == job[a].secrets
  IN  /\ job[a].op = "updateCode" /\ Exists(c) /\ HashFree(x, c)
      /\ codeStatus' = [codeStatus EXCEPT ![c] = IF job[a].status = "keep" THEN @ ELSE job[a].status]
      /\ expiry' = [expiry EXCEPT ![c] = ExpiryAfter(c, job[a].expiry)]
      /\ secret' = [secret EXCEPT ![c] = IF x = {} THEN @ ELSE CHOOSE y \in x : TRUE]
      /\ hashed' = [hashed EXCEPT ![c] = @ \/ x # {}]
      /\ Done(a) /\ Written /\ UNCHANGED <<catalogueVars, codeOf, owner>>

DeleteCodeRead(a, c) ==
  /\ Exists(c) /\ codeStatus[c] \notin {"SOLD", "RESERVED"} /\ owner[c] = NoOrder
  /\ Begin(a, Request("deleteCode", c, NoDenomination, "keep", "keep", {}))
\* The delivery row's foreign key restricts the deletion.
DeleteCode(a) ==
  LET c == job[a].code
  IN  /\ job[a].op = "deleteCode" /\ Exists(c) /\ delivery[c] = NoOrder
      /\ codeStatus' = [codeStatus EXCEPT ![c] = NoRow]
      /\ codeOf' = [codeOf EXCEPT ![c] = NoDenomination]
      /\ secret' = [secret EXCEPT ![c] = NoSecret]
      /\ hashed' = [hashed EXCEPT ![c] = FALSE]
      /\ expiry' = [expiry EXCEPT ![c] = "never"] /\ owner' = [owner EXCEPT ![c] = NoOrder]
      /\ Done(a) /\ Written /\ UNCHANGED catalogueVars

\* The write is refused by a key, or the row is gone.
Refused(a) ==
  /\ job[a] # Idle /\ Done(a) /\ UNCHANGED <<catalogueVars, codeVars, delivery, order, startExpired, scenario>>

------------------------------------------------------------------------------
(* Time and the public catalogue *)

ExpiryPasses(c) ==
  /\ expiry[c] = "future" /\ Free
  /\ expiry' = [expiry EXCEPT ![c] = "past"]
  /\ UNCHANGED <<catalogueVars, codeStatus, codeOf, secret, hashed, owner, delivery, order, startExpired, scenario, job>>

\* The filter of the public catalogue holds the time at which its module loaded.
ServerStarts ==
  /\ scenario.restarts /\ Free
  /\ startExpired' = {c \in Codes : expiry[c] = "past"}
  /\ job' = [a \in Admins |-> Idle]
  /\ UNCHANGED <<catalogueVars, codeVars, delivery, order, scenario>>

\* publicProduct's inStock, of a denomination that getGiftCards lists.
InStock(d) ==
  /\ product = "ACTIVE" /\ ~archived /\ denomination[d] = "active"
  /\ \E c \in CodesOf(d) : codeStatus[c] = "AVAILABLE" /\ (expiry[c] # "past" \/ c \notin startExpired)

Commerce ==
  \E o \in scenario.orders :
    CreatePurchase(o) \/ Finalize(o) \/ Release(o) \/ LatePayment(o) \/ VerifyPaymentIssue(o)

Read(a) ==
  \/ \E op \in ProductOps \cap scenario.ops : ProductRead(a, op)
  \/ \E d \in scenario.denominations :
       \/ DeleteDenominationRead(a, d)
       \/ \E S \in SUBSET Secrets \ {{}}, e \in scenario.expiries : AddCodesRead(a, d, S, e)
  \/ \E c \in Codes :
       \/ DeleteCodeRead(a, c)
       \/ \E s \in scenario.statuses, e \in scenario.expiries, x \in {{}} \cup {{y} : y \in Secrets} :
            UpdateCodeRead(a, c, s, e, x)
Write(a) ==
  ProductWrite(a) \/ DeleteDenomination(a) \/ AddCodes(a) \/ UpdateCode(a) \/ DeleteCode(a) \/ Refused(a)

Next ==
  \/ Commerce
  \/ \E a \in Admins : Read(a) \/ Write(a)
  \/ \E d \in scenario.denominations : CreateDenomination(d) \/ UpdateDenomination(d)
  \/ \E c \in Codes : ExpiryPasses(c)
  \/ ServerStarts

Spec == Init /\ [][Next]_vars

------------------------------------------------------------------------------

\* No two rows hold the same secret, legacy rows in plaintext included, however
\* the checks and the writes of several administrators interleave.
SecretsAreUnique ==
  \A c, d \in Codes : Exists(c) /\ Exists(d) /\ secret[c] = secret[d] => c = d

\* An order that is completed owns, at that moment, as many sold codes as it
\* ordered, even when administrators free, expire or delete codes under it.
CompletedWithItsCodes ==
  [][\A o \in Orders :
       order[o] # "completed" /\ order'[o] = "completed" =>
         Cardinality({c \in Codes : owner'[c] = o /\ codeStatus'[c] = "SOLD"}) = scenario.quantity]_vars

\* A denomination is not deleted from under codes that were added after the
\* request counted none.
CodesKeepTheirDenomination ==
  \A c \in Codes : Exists(c) => codeOf[c] \in Denominations /\ denomination[codeOf[c]] # NoRow

\* What a checkout could sell, the catalogue shows in stock, with the filter as
\* old as the server.  (The converse fails: see the README.)
SellableIsShown ==
  \A c \in Codes :
    /\ Sellable(c) /\ product = "ACTIVE" /\ ~archived
    /\ denomination[codeOf[c]] = "active"
    => InStock(codeOf[c])

\* A sold code stays sold to its order and is delivered to it alone.
SoldIsImmutable ==
  [][\A c \in Codes : codeStatus[c] = "SOLD" => codeStatus'[c] = "SOLD" /\ owner'[c] = owner[c]]_vars

\* As long as nothing happens between an edit's read and its write, sold codes
\* stay sold to their orders, whatever administrators freed, expired or deleted
\* before.
UninterruptedEditsKeepSold ==
  [][\A c \in Codes : ~scenario.staleEdits /\ codeStatus[c] = "SOLD"
       => codeStatus'[c] = "SOLD" /\ owner'[c] = owner[c]]_vars

\* A reserved code is held for an order that may still be paid, or whose money
\* an administrator sent back (as long as nothing interrupts an edit).
ReservedForAnOrder ==
  \A c \in Codes :
    ~scenario.staleEdits /\ codeStatus[c] = "RESERVED" =>
      owner[c] # NoOrder /\ order[owner[c]] \in {"pending", "refund"}

\* Whatever is edited meanwhile: a code has its denomination, a reserved one its
\* order, and what can be sold is shown.
StockInvariant ==
  TypeOK /\ CodesKeepTheirDenomination /\ ReservedForAnOrder /\ SellableIsShown
==============================================================================
