-------------------------- MODULE GiftCardStockProofs --------------------------
(***************************************************************************)
(* What the edits of administrators cannot break in the stock of gift       *)
(* cards, for every number of codes, orders, requests and edits.            *)
(*                                                                         *)
(* The argument: a sold code belongs to a completed order, whatever edits   *)
(* did before, so an order that settles counts no code twice.  An edit that *)
(* passed its checks conflicts with no row in plaintext, and the unique key *)
(* refuses the rest.  As long as nothing interrupts an edit, at most one is *)
(* between its read and its write, and the code is still as it was read.    *)
(***************************************************************************)
EXTENDS GiftCardStock, FiniteSetTheorems, TLAPS

Types ==
  /\ codeStatus \in [Codes -> GiftCardCodeStatus \cup {NoRow}]
  /\ codeOf \in [Codes -> Denominations \cup {NoDenomination}]
  /\ secret \in [Codes -> Secrets \cup {NoSecret}] /\ hashed \in [Codes -> BOOLEAN]
  /\ owner \in [Codes -> Orders \cup {NoOrder}]
  /\ order \in [Orders -> {"none", "pending", "completed", "cancelled", "refund"}]
  /\ denomination \in [Denominations -> {NoRow, "active", "inactive"}]
  /\ scenario \in Scenario

SoldIsPaid ==
  \A c \in Codes : codeStatus[c] = "SOLD" => owner[c] \in Orders /\ order[owner[c]] = "completed"

ReservedIsAwaited ==
  \A c \in Codes : ~scenario.staleEdits /\ codeStatus[c] = "RESERVED" =>
    owner[c] \in Orders /\ order[owner[c]] \in {"pending", "refund"}

\* What the check of a request j established.
JobSound(j) ==
  /\ j.op = "addCodes" => j.denomination \in Denominations
  /\ j.op \in {"updateCode", "deleteCode"} => j.code \in Codes
  /\ j.op = "updateCode" => j.status # "SOLD" /\ \A x, y \in j.secrets : x = y
  /\ \A c \in Codes : Exists(c) /\ ~hashed[c] /\ (j.op = "addCodes" \/ (j.op = "updateCode" /\ c # j.code))
       => secret[c] \notin j.secrets

\* What is still true of the code of a request that nothing interrupts.
Fresh(j) ==
  /\ j.op \in {"updateCode", "deleteCode"} => codeStatus[j.code] # "SOLD"
  /\ j.op = "updateCode" /\ j.status = "RESERVED" => codeStatus[j.code] = "RESERVED"

JobsSound ==
  /\ job \in [Admins -> Job]
  /\ \A a \in Admins : JobSound(job[a])
  /\ ~scenario.staleEdits =>
       /\ \A a, b \in Admins : job[a] # Idle /\ job[b] # Idle => a = b
       /\ \A a \in Admins : Fresh(job[a])

IInv ==
  /\ Types /\ SoldIsPaid /\ ReservedIsAwaited
  /\ CodesKeepTheirDenomination /\ SecretsAreUnique /\ JobsSound

------------------------------------------------------------------------------

LEMMA IdleFacts ==
  /\ Idle \in Job /\ Idle.op = "none" /\ JobSound(Idle) /\ Fresh(Idle)
BY DEF Idle, Request, Job, Expiries, JobSound, Fresh

LEMMA Statuses ==
  /\ NoRow \notin GiftCardCodeStatus /\ NoOrder \notin Orders
  /\ {"AVAILABLE", "RESERVED", "SOLD", "DISABLED", "EXPIRED"} = GiftCardCodeStatus
  /\ NoRow \notin {"active", "inactive"}
BY StockConstants DEF NoRow, GiftCardCodeStatus

LEMMA InitIInv == Init => IInv
<1> SUFFICES ASSUME Init PROVE IInv
  OBVIOUS
<1>1. scenario \in Scenario
  BY StockConstants DEF Init
<1>2. Types
  BY <1>1, StockConstants, Statuses DEF Init, Types, Scenario
<1>3. \A c \in Codes : codeStatus[c] \in {"AVAILABLE", NoRow} /\ (Exists(c) <=> c \in scenario.legacy)
  BY Statuses DEF Init, Exists
<1>4. SoldIsPaid /\ ReservedIsAwaited
  BY <1>3, Statuses DEF SoldIsPaid, ReservedIsAwaited
<1>5. CodesKeepTheirDenomination
  BY <1>1, <1>3, Statuses, StockConstants DEF Init, CodesKeepTheirDenomination, Scenario
<1>6. SecretsAreUnique
  BY <1>3, StockConstants DEF Init, SecretsAreUnique
<1>7. JobsSound
  BY IdleFacts DEF Init, JobsSound
<1> QED
  BY <1>2, <1>4, <1>5, <1>6, <1>7 DEF IInv

------------------------------------------------------------------------------
(* Checkouts, settlements, releases *)

\* They change only status and owner of codes that are there, and orders, and run
\* beside no request unless edits may be stale.
LEMMA OrderStep ==
  ASSUME IInv, Elsewhere, UNCHANGED <<codeOf, secret, hashed>>,
         codeStatus' \in [Codes -> GiftCardCodeStatus \cup {NoRow}], owner' \in [Codes -> Orders \cup {NoOrder}],
         order' \in [Orders -> {"none", "pending", "completed", "cancelled", "refund"}],
         \A c \in Codes : Exists(c)' <=> Exists(c), SoldIsPaid', ReservedIsAwaited'
  PROVE  IInv'
<1>1. /\ UNCHANGED <<denomination, job, scenario, codeOf, secret, hashed>>
      /\ scenario.staleEdits \/ \A a \in Admins : job[a] = Idle
  BY DEF Elsewhere, Free, catalogueVars
<1>2. Types' /\ CodesKeepTheirDenomination' /\ SecretsAreUnique'
  BY <1>1 DEF IInv, Types, CodesKeepTheirDenomination, SecretsAreUnique
<1>3. \A a \in Admins : JobSound(job[a])'
  BY <1>1 DEF IInv, JobsSound, JobSound
<1>4. ~scenario.staleEdits => \A a \in Admins : Fresh(job[a])'
  BY <1>1, IdleFacts DEF Fresh
<1>5. JobsSound'
  BY <1>1, <1>3, <1>4 DEF IInv, JobsSound
<1> QED
  BY <1>2, <1>5 DEF IInv

\* Codes S are set to a status and an owner, and order o to a state.
LEMMA SetStep ==
  ASSUME IInv, NEW S \in SUBSET Codes, NEW status \in GiftCardCodeStatus, NEW w \in Orders \cup {NoOrder},
         NEW o \in Orders, NEW s \in {"pending", "completed", "cancelled", "refund"},
         SetCodes(S, status, w), SetOrder(o, s), Elsewhere,
         \A c \in S : Exists(c),
         order[o] # "completed",
         \A c \in Codes \ S : ~scenario.staleEdits /\ codeStatus[c] = "RESERVED" /\ owner[c] = o => s \in {"pending", "refund"},
         status = "SOLD" => w = o /\ s = "completed",
         status = "RESERVED" => w = o /\ s = "pending"
  PROVE  IInv'
<1>1. /\ codeStatus' = [c \in Codes |-> IF c \in S THEN status ELSE codeStatus[c]]
      /\ owner' = [c \in Codes |-> IF c \in S THEN w ELSE owner[c]]
      /\ UNCHANGED <<codeOf, secret, hashed>> /\ order' = [order EXCEPT ![o] = s]
      /\ scenario' = scenario
  BY DEF SetCodes, SetOrder, Elsewhere
<1>2. /\ codeStatus' \in [Codes -> GiftCardCodeStatus \cup {NoRow}]
      /\ owner' \in [Codes -> Orders \cup {NoOrder}]
      /\ order' \in [Orders -> {"none", "pending", "completed", "cancelled", "refund"}]
      /\ \A c \in Codes : Exists(c)' <=> Exists(c)
  BY <1>1, Statuses DEF IInv, Types, Exists
<1>3. SoldIsPaid'
  BY <1>1 DEF IInv, Types, SoldIsPaid
<1>4. ReservedIsAwaited'
  BY <1>1 DEF IInv, Types, ReservedIsAwaited
<1> QED
  BY <1>1, <1>2, <1>3, <1>4, OrderStep

LEMMA PicksAreAvailable ==
  ASSUME IInv, NEW o, NEW S \in Picks(o)
  PROVE  /\ S \in SUBSET Codes /\ Cardinality(S) = scenario.quantity
         /\ \A c \in S : codeStatus[c] = "AVAILABLE" /\ Exists(c)
BY Statuses DEF Picks, Sellable, Exists, NoRow

LEMMA HeldExist ==
  ASSUME IInv, NEW o, NEW statuses \in SUBSET GiftCardCodeStatus
  PROVE  Held(o, statuses) \in SUBSET Codes /\ \A c \in Held(o, statuses) : Exists(c)
BY Statuses DEF Held, Exists

LEMMA RefundIInv ==
  ASSUME IInv, NEW o \in Orders, order[o] # "completed", Refund(o)
  PROVE  IInv'
<1>1. /\ order' = [order EXCEPT ![o] = "refund"] /\ scenario' = scenario /\ Elsewhere
      /\ UNCHANGED <<codeStatus, codeOf, secret, hashed, owner>>
  BY DEF Refund, SetOrder, Elsewhere, codeVars
<1>2. SoldIsPaid' /\ ReservedIsAwaited'
  BY <1>1 DEF IInv, Types, SoldIsPaid, ReservedIsAwaited
<1> QED
  BY <1>1, <1>2, OrderStep DEF IInv, Types, Exists

LEMMA CommerceIInv ==
  ASSUME IInv, NEW o \in Orders,
         CreatePurchase(o) \/ Finalize(o) \/ Release(o) \/ LatePayment(o) \/ VerifyPaymentIssue(o)
  PROVE  IInv'
<1>1. CASE CreatePurchase(o)
  <2>1. PICK S \in Picks(o) : SetCodes(S, "RESERVED", o)
    BY <1>1 DEF CreatePurchase
  <2>2. order[o] = "none" /\ SetOrder(o, "pending") /\ Elsewhere
    BY <1>1 DEF CreatePurchase
  <2> QED
    BY <2>1, <2>2, PicksAreAvailable, Statuses, SetStep
<1>2. ASSUME NEW S \in SUBSET Codes, Sell(S, o), order[o] # "completed", \A c \in S : Exists(c),
             \A c \in Codes \ S : ~scenario.staleEdits /\ codeStatus[c] = "RESERVED" => owner[c] # o
      PROVE  IInv'
  <2>1. SetCodes(S, "SOLD", o) /\ SetOrder(o, "completed") /\ Elsewhere
    BY <1>2 DEF Sell
  <2> QED
    BY <1>2, <2>1, Statuses, SetStep
<1>3. CASE Finalize(o)
  <2>1. order[o] = "pending" /\ Sell(Held(o, {"RESERVED"}), o) /\ {"RESERVED"} \in SUBSET GiftCardCodeStatus
    BY <1>3, Statuses DEF Finalize
  <2> QED
    BY <1>2, <2>1, HeldExist DEF Held
<1>4. CASE Release(o)
  <2>1. /\ order[o] = "pending" /\ SetCodes(Held(o, {"RESERVED"}), "AVAILABLE", NoOrder)
        /\ SetOrder(o, "cancelled") /\ Elsewhere /\ {"RESERVED"} \in SUBSET GiftCardCodeStatus
    BY <1>4, Statuses DEF Release, ReleaseCodes
  <2>2. \A c \in Codes \ Held(o, {"RESERVED"}) : ~(codeStatus[c] = "RESERVED" /\ owner[c] = o)
    BY DEF Held
  <2> QED
    BY <2>1, <2>2, HeldExist, Statuses, SetStep
<1>5. CASE LatePayment(o)
  <2>1. order[o] = "cancelled"
    BY <1>5 DEF LatePayment
  <2>2. \A c \in Codes : ~scenario.staleEdits /\ codeStatus[c] = "RESERVED" => owner[c] # o
    BY <2>1 DEF IInv, ReservedIsAwaited
  <2>3. CASE Refund(o)
    BY <2>1, <2>3, RefundIInv
  <2>4. CASE Sell(Held(o, {"RESERVED", "SOLD"}), o)
    BY <1>2, <2>1, <2>2, <2>4, HeldExist, Statuses
  <2>5. ASSUME NEW S \in Picks(o), Sell(S, o) PROVE IInv'
    BY <1>2, <2>1, <2>2, <2>5, PicksAreAvailable
  <2> QED
    BY <1>5, <2>3, <2>4, <2>5 DEF LatePayment
<1>6. CASE VerifyPaymentIssue(o)
  BY <1>6, RefundIInv DEF VerifyPaymentIssue
<1> QED
  BY <1>1, <1>3, <1>4, <1>5, <1>6

------------------------------------------------------------------------------
(* An edit reads and checks *)

LEMMA BeginIInv ==
  ASSUME IInv, NEW a \in Admins, NEW rec \in Job, Begin(a, rec), JobSound(rec),
         ~scenario.staleEdits => Fresh(rec)
  PROVE  IInv'
<1>1. /\ job' = [job EXCEPT ![a] = rec] /\ (scenario.staleEdits \/ \A b \in Admins : job[b] = Idle)
      /\ UNCHANGED <<denomination, codeStatus, codeOf, secret, hashed, owner, order, scenario>>
  BY DEF Begin, Free, catalogueVars, codeVars
<1>2. Types' /\ SoldIsPaid' /\ ReservedIsAwaited' /\ CodesKeepTheirDenomination' /\ SecretsAreUnique'
  BY <1>1 DEF IInv, Types, SoldIsPaid, ReservedIsAwaited, CodesKeepTheirDenomination, SecretsAreUnique, Exists
<1>3. /\ job' \in [Admins -> Job] /\ job'[a] = rec
      /\ \A b \in Admins : b # a => job'[b] = job[b]
  BY <1>1 DEF IInv, JobsSound
<1>4. ASSUME NEW b \in Admins PROVE JobSound(job[b])'
  <2>1. JobSound(job'[b])
    BY <1>3 DEF IInv, JobsSound
  <2> QED
    BY <1>1, <2>1 DEF JobSound, Exists
<1>5. ASSUME ~scenario.staleEdits, NEW b \in Admins PROVE Fresh(job[b])'
  <2>1. Fresh(job'[b])
    BY <1>3, <1>5 DEF IInv, JobsSound
  <2> QED
    BY <1>1, <2>1 DEF Fresh
<1>6. ~scenario.staleEdits => \A b, c \in Admins : job'[b] # Idle /\ job'[c] # Idle => b = c
  BY <1>1, <1>3
<1>7. JobsSound'
  BY <1>1, <1>3, <1>4, <1>5, <1>6 DEF JobsSound
<1> QED
  BY <1>2, <1>7 DEF IInv

LEMMA UpdateCodeReadIInv ==
  ASSUME IInv, NEW a \in Admins, NEW c \in Codes, NEW s \in scenario.statuses, NEW e \in scenario.expiries,
         NEW x \in {{}} \cup {{y} : y \in Secrets}, UpdateCodeRead(a, c, s, e, x)
  PROVE  IInv'
<1> DEFINE rec == Request("updateCode", c, NoDenomination, NextStatus(s, e), e, x)
<1>1. /\ Exists(c) /\ codeStatus[c] \in GiftCardCodeStatus \ {"SOLD"}
      /\ s \in {"keep", codeStatus[c]} \cup allowedTransitions[codeStatus[c]]
      /\ \A y \in x \ {secret[c]} : ~Taken(y)
      /\ Begin(a, rec)
  BY DEF UpdateCodeRead, Editable, Exists, IInv, Types
<1>2. allowedTransitions[codeStatus[c]] \subseteq {"AVAILABLE", "DISABLED", "EXPIRED"}
  BY <1>1, Statuses DEF allowedTransitions
<1>3. /\ NextStatus(s, e) \in GiftCardCodeStatus \cup {"keep"} /\ NextStatus(s, e) # "SOLD"
      /\ NextStatus(s, e) = "RESERVED" => codeStatus[c] = "RESERVED"
  BY <1>1, <1>2, Statuses DEF NextStatus
<1>4. e \in Expiries /\ x \in SUBSET Secrets /\ \A y, z \in x : y = z
  BY DEF IInv, Types, Scenario
<1>5. /\ rec \in Job /\ rec.op = "updateCode" /\ rec.code = c /\ rec.status = NextStatus(s, e)
      /\ rec.secrets = x
  BY <1>3, <1>4 DEF Request, Job, AdminOps, CodeOps
<1>6. \A d \in Codes : Exists(d) /\ d # c => secret[d] \notin x
  BY <1>1 DEF Taken, IInv, SecretsAreUnique
<1> HIDE DEF rec
<1>7. JobSound(rec) /\ Fresh(rec)
  BY <1>1, <1>3, <1>4, <1>5, <1>6 DEF JobSound, Fresh
<1> QED
  BY <1>1, <1>5, <1>7, BeginIInv

LEMMA AddCodesReadIInv ==
  ASSUME IInv, NEW a \in Admins, NEW d \in scenario.denominations, NEW S \in SUBSET Secrets \ {{}},
         NEW e \in scenario.expiries, AddCodesRead(a, d, S, e)
  PROVE  IInv'
<1> DEFINE rec == Request("addCodes", NoCode, d, "keep", e, S)
<1>1. (\A y \in S : ~Taken(y)) /\ Begin(a, rec)
  BY DEF AddCodesRead
<1>2. /\ rec \in Job /\ rec.op = "addCodes" /\ rec.denomination = d /\ d \in Denominations
      /\ rec.secrets = S
  BY DEF Request, Job, AdminOps, CodeOps, IInv, Types, Scenario
<1> HIDE DEF rec
<1>3. JobSound(rec) /\ Fresh(rec)
  BY <1>1, <1>2 DEF JobSound, Fresh, Taken
<1> QED
  BY <1>1, <1>2, <1>3, BeginIInv

LEMMA OtherReadIInv ==
  ASSUME IInv, NEW a \in Admins,
         \/ \E op \in ProductOps \cap scenario.ops : ProductRead(a, op)
         \/ \E d \in scenario.denominations : DeleteDenominationRead(a, d)
         \/ \E c \in Codes : DeleteCodeRead(a, c)
  PROVE  IInv'
<1>1. ASSUME NEW op \in ProductOps, ProductRead(a, op) PROVE IInv'
  <2> DEFINE rec == Request(op, NoCode, NoDenomination, "keep", "keep", {})
  <2>1. rec \in Job /\ rec.op = op /\ Begin(a, rec)
    BY <1>1 DEF ProductRead, Request, Job, AdminOps, Expiries
  <2> HIDE DEF rec
  <2>2. JobSound(rec) /\ Fresh(rec)
    BY <2>1 DEF JobSound, Fresh, ProductOps
  <2> QED
    BY <2>1, <2>2, BeginIInv
<1>2. ASSUME NEW d \in scenario.denominations, NEW op \in {"deleteDenomination", "deactivateDenomination"},
             Begin(a, Request(op, NoCode, d, "keep", "keep", {}))
      PROVE  IInv'
  <2> DEFINE rec == Request(op, NoCode, d, "keep", "keep", {})
  <2>1. rec \in Job /\ rec.op = op /\ Begin(a, rec)
    BY <1>2 DEF Request, Job, AdminOps, DenominationOps, Expiries, IInv, Types, Scenario
  <2> HIDE DEF rec
  <2>2. JobSound(rec) /\ Fresh(rec)
    BY <2>1 DEF JobSound, Fresh
  <2> QED
    BY <2>1, <2>2, BeginIInv
<1>3. ASSUME NEW c \in Codes, DeleteCodeRead(a, c) PROVE IInv'
  <2> DEFINE rec == Request("deleteCode", c, NoDenomination, "keep", "keep", {})
  <2>1. /\ rec \in Job /\ rec.op = "deleteCode" /\ rec.code = c /\ Begin(a, rec)
        /\ codeStatus[c] # "SOLD"
    BY <1>3 DEF DeleteCodeRead, Request, Job, AdminOps, CodeOps, Expiries
  <2> HIDE DEF rec
  <2>2. JobSound(rec) /\ Fresh(rec)
    BY <2>1 DEF JobSound, Fresh
  <2> QED
    BY <2>1, <2>2, BeginIInv
<1> QED
  BY <1>1, <1>2, <1>3 DEF DeleteDenominationRead

------------------------------------------------------------------------------
(* An edit writes *)

\* After a write no row is in plaintext that was not, and without stale edits no
\* request is running.
LEMMA WriteStep ==
  ASSUME IInv, NEW a \in Admins, job[a] # Idle, Done(a), scenario' = scenario, Types', SoldIsPaid',
         ReservedIsAwaited', CodesKeepTheirDenomination', SecretsAreUnique',
         \A c \in Codes : Exists(c)' /\ ~hashed'[c] => Exists(c) /\ ~hashed[c] /\ secret'[c] = secret[c]
  PROVE  IInv'
<1>1. /\ job' \in [Admins -> Job] /\ job'[a] = Idle
      /\ \A b \in Admins : b # a => job'[b] = job[b]
  BY IdleFacts DEF Done, IInv, JobsSound
<1>2. ASSUME NEW b \in Admins PROVE JobSound(job[b])'
  <2>1. JobSound(job'[b])
    BY <1>1, IdleFacts DEF IInv, JobsSound
  <2> QED
    BY <2>1 DEF JobSound
<1>3. ASSUME ~scenario.staleEdits, NEW b \in Admins PROVE job'[b] = Idle
  BY <1>1, <1>3 DEF IInv, JobsSound
<1>4. JobsSound'
  BY <1>1, <1>2, <1>3, IdleFacts DEF JobsSound, Fresh
<1> QED
  BY <1>4 DEF IInv

\* Writes that leave the codes alone.
LEMMA CatalogueIInv ==
  ASSUME IInv, NEW a \in Admins, ProductWrite(a) \/ DeleteDenomination(a) \/ Refused(a)
  PROVE  IInv'
<1>1. /\ job[a] # Idle /\ Done(a)
      /\ UNCHANGED <<codeStatus, codeOf, secret, hashed, owner, order, scenario>>
  BY DEF ProductWrite, DeleteDenomination, Refused, Written, codeVars, Idle, Request, ProductOps
<1>2. /\ denomination' \in [Denominations -> {NoRow, "active", "inactive"}]
      /\ CodesKeepTheirDenomination'
  <2>1. CASE UNCHANGED denomination
    BY <1>1, <2>1 DEF IInv, Types, CodesKeepTheirDenomination, Exists
  <2>2. CASE DeleteDenomination(a)
    <3> DEFINE d == job[a].denomination
    <3>1. /\ denomination' = [denomination EXCEPT ![d] = "inactive"]
             \/ (denomination' = [denomination EXCEPT ![d] = NoRow] /\ CodesOf(d) = {})
      BY <2>2 DEF DeleteDenomination, Deletable
    <3> QED
      BY <1>1, <3>1, Statuses DEF IInv, Types, CodesKeepTheirDenomination, Exists, CodesOf
  <2> QED
    BY <2>1, <2>2 DEF ProductWrite, Refused, catalogueVars
<1>3. Types' /\ SoldIsPaid' /\ ReservedIsAwaited' /\ SecretsAreUnique'
  BY <1>1, <1>2 DEF IInv, Types, SoldIsPaid, ReservedIsAwaited, SecretsAreUnique, Exists
<1> QED
  BY <1>1, <1>2, <1>3, WriteStep DEF Exists

\* As many rows as secrets: no two of the new rows share one.
LEMMA OneRowEach ==
  ASSUME NEW R \in SUBSET Codes, NEW S, NEW f \in [R -> S],
         Cardinality(R) = Cardinality(S), {f[c] : c \in R} = S,
         NEW c \in R, NEW d \in R, f[c] = f[d]
  PROVE  c = d
<1>1. IsFiniteSet(R)
  BY StockConstants, FS_Subset
<1>2. f \in Surjection(R, S)
  BY DEF Surjection
<1>3. f \in Injection(R, S)
  BY <1>1, <1>2, FS_SurjSameCardinalityImpliesInj
<1> QED
  BY <1>3 DEF Injection, IsInjective

LEMMA AddCodesIInv ==
  ASSUME IInv, NEW a \in Admins, AddCodes(a)
  PROVE  IInv'
<1> DEFINE S == job[a].secrets
           d == job[a].denomination
<1> DEFINE e == IF job[a].expiry = "keep" THEN "never" ELSE job[a].expiry
           s == IF e = "past" THEN "EXPIRED" ELSE "AVAILABLE"
<1>s. s \in {"AVAILABLE", "EXPIRED"}
  OBVIOUS
<1>0. PICK R \in SUBSET {c \in Codes : ~Exists(c)} : \E f \in [R -> S] :
        /\ Cardinality(R) = Cardinality(S) /\ {f[c] : c \in R} = S
        /\ codeStatus' = [c \in Codes |-> IF c \in R THEN s ELSE codeStatus[c]]
        /\ codeOf' = [c \in Codes |-> IF c \in R THEN d ELSE codeOf[c]]
        /\ secret' = [c \in Codes |-> IF c \in R THEN f[c] ELSE secret[c]]
        /\ hashed' = [c \in Codes |-> c \in R \/ hashed[c]]
  BY Zenon DEF AddCodes
<1> HIDE DEF s
<1>1. PICK f \in [R -> S] :
        /\ Cardinality(R) = Cardinality(S) /\ {f[c] : c \in R} = S
        /\ codeStatus' = [c \in Codes |-> IF c \in R THEN s ELSE codeStatus[c]]
        /\ codeOf' = [c \in Codes |-> IF c \in R THEN d ELSE codeOf[c]]
        /\ secret' = [c \in Codes |-> IF c \in R THEN f[c] ELSE secret[c]]
        /\ hashed' = [c \in Codes |-> c \in R \/ hashed[c]]
  BY <1>0, Zenon
<1>2. /\ job[a].op = "addCodes" /\ job[a] # Idle /\ Done(a) /\ denomination[d] # NoRow /\ HashFree(S, NoCode)
      /\ UNCHANGED <<denomination, owner, order, scenario>>
  BY DEF AddCodes, Idle, Request, Written, catalogueVars
<1>3. d \in Denominations /\ S \in SUBSET Secrets
  BY <1>2 DEF IInv, JobsSound, JobSound, Job
<1>4. \A c \in Codes : Exists(c) => secret[c] \notin S
  BY <1>2, StockConstants DEF IInv, JobsSound, JobSound, HashFree, Types
<1> HIDE DEF S, d
<1>5. /\ \A c \in R : c \in Codes /\ ~Exists(c) /\ codeStatus'[c] = s /\ codeOf'[c] = d /\ secret'[c] = f[c] /\ hashed'[c]
      /\ \A c \in Codes \ R : /\ codeStatus'[c] = codeStatus[c] /\ codeOf'[c] = codeOf[c]
                              /\ secret'[c] = secret[c] /\ (hashed'[c] <=> hashed[c])
  BY <1>1
<1>6. /\ codeStatus' \in [Codes -> GiftCardCodeStatus \cup {NoRow}]
      /\ codeOf' \in [Codes -> Denominations \cup {NoDenomination}]
      /\ secret' \in [Codes -> Secrets \cup {NoSecret}]
  BY <1>s, <1>1, <1>3, Statuses DEF IInv, Types
<1>7. hashed' \in [Codes -> BOOLEAN]
  BY <1>1, Zenon
<1>8. Types'
  BY <1>2, <1>6, <1>7 DEF IInv, Types
<1>9. SoldIsPaid' /\ ReservedIsAwaited'
  BY <1>s, <1>2, <1>5 DEF IInv, SoldIsPaid, ReservedIsAwaited
<1>10. CodesKeepTheirDenomination'
  BY <1>2, <1>3, <1>5 DEF IInv, CodesKeepTheirDenomination, Exists
<1>11. SecretsAreUnique'
  <2> SUFFICES ASSUME NEW c \in Codes, NEW c2 \in Codes, Exists(c)', Exists(c2)', secret'[c] = secret'[c2]
               PROVE  c = c2
    BY DEF SecretsAreUnique
  <2>1. CASE c \in R /\ c2 \in R
    BY <1>1, <1>5, <2>1, OneRowEach
  <2>2. CASE c \notin R /\ c2 \notin R
    BY <1>5, <2>2 DEF IInv, SecretsAreUnique, Exists
  <2>3. ASSUME NEW x \in R, NEW y \in Codes \ R, Exists(y)', secret'[x] = secret'[y] PROVE FALSE
    BY <1>1, <1>4, <1>5, <2>3 DEF Exists
  <2> QED
    BY <2>1, <2>2, <2>3
<1> QED
  BY <1>2, <1>5, <1>8, <1>9, <1>10, <1>11, WriteStep DEF Exists

LEMMA UpdateCodeIInv ==
  ASSUME IInv, NEW a \in Admins, UpdateCode(a)
  PROVE  IInv'
<1> DEFINE c == job[a].code
           x == job[a].secrets
<1>1. PICK s, y :
        /\ codeStatus' = [codeStatus EXCEPT ![c] = s] /\ secret' = [secret EXCEPT ![c] = y]
        /\ s = (IF job[a].status = "keep" THEN codeStatus[c] ELSE job[a].status)
        /\ y = (IF x = {} THEN secret[c] ELSE CHOOSE z \in x : TRUE)
        /\ hashed' = [hashed EXCEPT ![c] = @ \/ x # {}]
  BY DEF UpdateCode
<1>2. /\ job[a].op = "updateCode" /\ job[a] # Idle /\ Exists(c) /\ HashFree(x, c) /\ Done(a)
      /\ UNCHANGED <<denomination, codeOf, owner, order, scenario>>
  BY DEF UpdateCode, Idle, Request, Written, catalogueVars
<1>3. /\ c \in Codes /\ job[a] \in Job /\ JobSound(job[a]) /\ job[a].status # "SOLD"
      /\ ~scenario.staleEdits => Fresh(job[a])
  BY <1>2 DEF IInv, JobsSound, JobSound
<1>4. x \in SUBSET Secrets /\ job[a].status \in GiftCardCodeStatus \cup {"keep"}
  BY <1>3 DEF Job
<1>5. /\ s \in GiftCardCodeStatus
      /\ s = "SOLD" => codeStatus[c] = "SOLD"
      /\ ~scenario.staleEdits /\ s = "RESERVED" => codeStatus[c] = "RESERVED"
  BY <1>1, <1>2, <1>3, <1>4 DEF Exists, IInv, Types, Fresh
<1>6. \A d \in Codes : Exists(d) /\ d # c => secret[d] # y
  <2>1. CASE x = {}
    BY <1>1, <1>2, <1>3, <2>1 DEF IInv, SecretsAreUnique
  <2>2. CASE x # {}
    <3>1. y \in x
      BY <1>1, <2>2
    <3>2. \A d \in Codes : Exists(d) /\ d # c => secret[d] \notin x
      BY <1>2, <1>3 DEF JobSound, HashFree
    <3> QED
      BY <3>1, <3>2
  <2> QED
    BY <2>1, <2>2
<1>7. y \in Secrets \cup {NoSecret}
  BY <1>1, <1>3, <1>4 DEF IInv, Types
<1>8. PICK b \in BOOLEAN : hashed' = [hashed EXCEPT ![c] = b] /\ (~b => ~hashed[c] /\ x = {})
  <2> DEFINE b == hashed[c] \/ x # {}
  <2>1. b \in BOOLEAN /\ hashed' = [hashed EXCEPT ![c] = b] /\ (~b => ~hashed[c] /\ x = {})
    BY <1>1, Zenon
  <2> QED
    BY <2>1, Zenon
<1> HIDE DEF c, x
<1>9. Types'
  BY <1>1, <1>2, <1>5, <1>7, <1>8 DEF IInv, Types
<1>10. SoldIsPaid' /\ ReservedIsAwaited' /\ CodesKeepTheirDenomination' /\ SecretsAreUnique'
  BY <1>1, <1>2, <1>3, <1>5, <1>6, Statuses
     DEF IInv, Types, SoldIsPaid, ReservedIsAwaited, CodesKeepTheirDenomination, SecretsAreUnique, Exists
<1>11. ASSUME NEW d \in Codes, Exists(d)', ~hashed'[d]
       PROVE  Exists(d) /\ ~hashed[d] /\ secret'[d] = secret[d]
  BY <1>1, <1>2, <1>3, <1>8, <1>11 DEF IInv, Types, Exists
<1> QED
  BY <1>2, <1>9, <1>10, <1>11, WriteStep

LEMMA DeleteCodeIInv ==
  ASSUME IInv, NEW a \in Admins, DeleteCode(a)
  PROVE  IInv'
<1> DEFINE c == job[a].code
<1>1. /\ codeStatus' = [codeStatus EXCEPT ![c] = NoRow]
      /\ codeOf' = [codeOf EXCEPT ![c] = NoDenomination]
      /\ secret' = [secret EXCEPT ![c] = NoSecret]
      /\ hashed' = [hashed EXCEPT ![c] = FALSE]
      /\ owner' = [owner EXCEPT ![c] = NoOrder]
      /\ job[a].op = "deleteCode" /\ job[a] # Idle /\ Done(a)
      /\ UNCHANGED <<denomination, order, scenario>>
  BY DEF DeleteCode, Idle, Request, Written, catalogueVars
<1>2. c \in Codes
  BY <1>1 DEF IInv, JobsSound, JobSound
<1> HIDE DEF c
<1>3. Types'
  BY <1>1, <1>2 DEF IInv, Types
<1>4. /\ codeStatus'[c] = NoRow
      /\ \A d \in Codes : d # c => /\ codeStatus'[d] = codeStatus[d] /\ codeOf'[d] = codeOf[d]
                                   /\ secret'[d] = secret[d] /\ owner'[d] = owner[d] /\ hashed'[d] = hashed[d]
  BY <1>1, <1>2 DEF IInv, Types
<1>5. SoldIsPaid' /\ ReservedIsAwaited' /\ CodesKeepTheirDenomination' /\ SecretsAreUnique'
  BY <1>1, <1>4, Statuses
     DEF IInv, SoldIsPaid, ReservedIsAwaited, CodesKeepTheirDenomination, SecretsAreUnique, Exists, NoRow
<1>6. \A d \in Codes : Exists(d)' /\ ~hashed'[d] => Exists(d) /\ ~hashed[d] /\ secret'[d] = secret[d]
  BY <1>4 DEF Exists
<1> QED
  BY <1>1, <1>3, <1>5, <1>6, WriteStep

------------------------------------------------------------------------------
(* The rest, and what follows *)

\* Denominations appear or change, time passes, the server restarts.
LEMMA OtherIInv ==
  ASSUME IInv,
         \/ UNCHANGED vars \/ ServerStarts
         \/ \E d \in scenario.denominations : CreateDenomination(d) \/ UpdateDenomination(d)
         \/ \E c \in Codes : ExpiryPasses(c)
  PROVE  IInv'
<1>1. /\ UNCHANGED <<codeStatus, codeOf, secret, hashed, owner, order, scenario>>
      /\ job' = job \/ job' = [a \in Admins |-> Idle]
  BY DEF vars, ServerStarts, CreateDenomination, UpdateDenomination, ExpiryPasses, catalogueVars, codeVars, Written
<1>2. /\ denomination' \in [Denominations -> {NoRow, "active", "inactive"}]
      /\ \A d \in Denominations : denomination[d] # NoRow => denomination'[d] # NoRow
  <2>1. \/ UNCHANGED denomination
        \/ \E d \in Denominations, s \in {"active", "inactive"} : denomination' = [denomination EXCEPT ![d] = s]
    BY DEF vars, ServerStarts, CreateDenomination, UpdateDenomination, ExpiryPasses, catalogueVars, IInv, Types, Scenario
  <2> QED
    BY <2>1, Statuses DEF IInv, Types
<1>3. Types' /\ SoldIsPaid' /\ ReservedIsAwaited' /\ CodesKeepTheirDenomination' /\ SecretsAreUnique'
  BY <1>1, <1>2 DEF IInv, Types, SoldIsPaid, ReservedIsAwaited, CodesKeepTheirDenomination, SecretsAreUnique, Exists
<1>4. CASE job' = job
  <2>1. \A a \in Admins : JobSound(job[a])'
    BY <1>1, <1>4 DEF IInv, JobsSound, JobSound, Exists
  <2>2. ~scenario.staleEdits => \A a \in Admins : Fresh(job[a])'
    BY <1>1, <1>4 DEF IInv, JobsSound, Fresh
  <2>3. JobsSound'
    BY <1>1, <1>4, <2>1, <2>2 DEF IInv, JobsSound
  <2> QED
    BY <1>3, <2>3 DEF IInv
<1>5. CASE job' = [a \in Admins |-> Idle]
  <2>1. \A a \in Admins : job'[a] = Idle /\ JobSound(job[a])' /\ Fresh(job[a])'
    BY <1>5, IdleFacts DEF JobSound, Fresh
  <2>2. JobsSound'
    BY <1>5, <2>1, IdleFacts DEF JobsSound
  <2> QED
    BY <1>3, <2>2 DEF IInv
<1> QED
  BY <1>1, <1>4, <1>5

LEMMA StepIInv == IInv /\ [Next]_vars => IInv'
<1> SUFFICES ASSUME IInv, [Next]_vars PROVE IInv'
  OBVIOUS
<1>1. scenario.orders \subseteq Orders
  BY DEF IInv, Types, Scenario
<1>2. Commerce => IInv'
  BY <1>1, CommerceIInv DEF Commerce
<1>3. ASSUME NEW a \in Admins, Read(a) PROVE IInv'
  BY <1>3, UpdateCodeReadIInv, AddCodesReadIInv, OtherReadIInv, Zenon DEF Read
<1>4. ASSUME NEW a \in Admins, Write(a) PROVE IInv'
  BY <1>4, CatalogueIInv, AddCodesIInv, UpdateCodeIInv, DeleteCodeIInv, Zenon DEF Write
<1> QED
  BY <1>2, <1>3, <1>4, OtherIInv, Zenon DEF Next

LEMMA Invariance == Spec => []IInv
BY InitIInv, StepIInv, PTL DEF Spec

\* No two rows hold one secret, the rows in plaintext from before codeHash
\* included: addCode, addCodesBulk and updateCode compare with those, and their
\* set only shrinks between the check and the write.
THEOREM SecretsStayUnique == Spec => []SecretsAreUnique
<1>1. IInv => SecretsAreUnique
  BY DEF IInv
<1> QED
  BY <1>1, Invariance, PTL

\* finalizeGiftCardOrder and the late payment complete an order with exactly the
\* codes it ordered, also after updateCode freed or deleteCode removed reserved
\* ones: what they sold before belongs to other orders.
THEOREM NoOrderIsShort == Spec => CompletedWithItsCodes
<1> DEFINE A == \A o \in Orders : order[o] # "completed" /\ order'[o] = "completed" =>
                  Cardinality({c \in Codes : owner'[c] = o /\ codeStatus'[c] = "SOLD"}) = scenario.quantity
<1>1. ASSUME IInv, NEW o \in Orders, order[o] # "completed", NEW S \in SUBSET Codes, Sell(S, o),
             Cardinality(S) = scenario.quantity
      PROVE  A
  <2>1. /\ \A p \in Orders : p # o => order'[p] = order[p]
        /\ codeStatus' = [c \in Codes |-> IF c \in S THEN "SOLD" ELSE codeStatus[c]]
        /\ owner' = [c \in Codes |-> IF c \in S THEN o ELSE owner[c]]
    BY <1>1 DEF Sell, SetCodes, SetOrder, IInv, Types
  <2>2. {c \in Codes : owner'[c] = o /\ codeStatus'[c] = "SOLD"} = S
    BY <1>1, <2>1 DEF IInv, SoldIsPaid
  <2> QED
    BY <1>1, <2>1, <2>2
<1>2. ASSUME NEW o \in Orders, NEW s \in {"pending", "cancelled", "refund"}, IInv, SetOrder(o, s) PROVE A
  BY <1>2 DEF SetOrder, IInv, Types
<1>3. ASSUME UNCHANGED order PROVE A
  BY <1>3
<1> HIDE DEF A
<1>4. ASSUME IInv, NEW o \in Orders,
             CreatePurchase(o) \/ Finalize(o) \/ Release(o) \/ LatePayment(o) \/ VerifyPaymentIssue(o)
      PROVE  A
  <2>1. CASE CreatePurchase(o) \/ Release(o) \/ VerifyPaymentIssue(o)
    BY <1>2, <1>4, <2>1 DEF CreatePurchase, Release, VerifyPaymentIssue, Refund
  <2>2. CASE Finalize(o)
    <3>1. /\ order[o] = "pending" /\ Sell(Held(o, {"RESERVED"}), o)
          /\ Cardinality(Held(o, {"RESERVED"})) = scenario.quantity /\ Held(o, {"RESERVED"}) \in SUBSET Codes
      BY <2>2 DEF Finalize, Complete, Held
    <3> QED
      BY <1>1, <1>4, <3>1
  <2>3. CASE LatePayment(o)
    <3>1. order[o] = "cancelled"
      BY <2>3 DEF LatePayment
    <3>2. Held(o, {"RESERVED", "SOLD"}) = Held(o, {"RESERVED"}) /\ Held(o, {"RESERVED"}) \in SUBSET Codes
      BY <1>4, <3>1 DEF Held, IInv, SoldIsPaid
    <3>3. CASE Complete(o) /\ Sell(Held(o, {"RESERVED", "SOLD"}), o)
      BY <1>1, <1>4, <3>1, <3>2, <3>3 DEF Complete
    <3>4. ASSUME NEW S \in Picks(o), Sell(S, o) PROVE A
      BY <1>1, <1>4, <3>1, <3>4, PicksAreAvailable
    <3>5. CASE Refund(o)
      BY <1>2, <1>4, <3>5 DEF Refund
    <3> QED
      BY <2>3, <3>3, <3>4, <3>5 DEF LatePayment
  <2> QED
    BY <1>4, <2>1, <2>2, <2>3
<1>5. ASSUME [Next]_vars, ~Commerce PROVE UNCHANGED order
  <2>1. ASSUME NEW a \in Admins, Read(a) \/ Write(a) PROVE UNCHANGED order
    BY <2>1 DEF Read, Write, ProductRead, DeleteDenominationRead, AddCodesRead, UpdateCodeRead, DeleteCodeRead,
       Begin, ProductWrite, DeleteDenomination, AddCodes, UpdateCode, DeleteCode, Refused, Written
  <2>2. ASSUME \/ \E d \in scenario.denominations : CreateDenomination(d) \/ UpdateDenomination(d)
               \/ \E c \in Codes : ExpiryPasses(c)
               \/ ServerStarts \/ UNCHANGED vars
        PROVE  UNCHANGED order
    BY <2>2 DEF CreateDenomination, UpdateDenomination, ExpiryPasses, ServerStarts, vars, Written
  <2> QED
    BY <1>5, <2>1, <2>2, Zenon DEF Next
<1>6. IInv /\ [Next]_vars => A
  BY <1>3, <1>4, <1>5 DEF Commerce, IInv, Types, Scenario
<1> QED
  BY <1>6, Invariance, PTL DEF A, Spec, CompletedWithItsCodes

\* A sold code stays sold to its order as long as nothing happens between the
\* read and the write of updateCode and deleteCode: no checkout, release, late
\* payment or other edit takes it.
THEOREM SoldStaysSold == Spec => UninterruptedEditsKeepSold
<1> DEFINE A == \A c \in Codes : ~scenario.staleEdits /\ codeStatus[c] = "SOLD"
                                   => codeStatus'[c] = "SOLD" /\ owner'[c] = owner[c]
<1>1. ASSUME NEW S \in SUBSET Codes, NEW status, NEW w, SetCodes(S, status, w),
             \A c \in S : codeStatus[c] = "SOLD" => status = "SOLD" /\ w = owner[c]
      PROVE  A
  BY <1>1 DEF SetCodes
<1>2. ASSUME UNCHANGED <<codeStatus, owner>> PROVE A
  BY <1>2
<1>3. ASSUME IInv, NEW a \in Admins, AddCodes(a) \/ UpdateCode(a) \/ DeleteCode(a) PROVE A
  <2>1. CASE AddCodes(a)
    <3> DEFINE e == IF job[a].expiry = "keep" THEN "never" ELSE job[a].expiry
               s == IF e = "past" THEN "EXPIRED" ELSE "AVAILABLE"
    <3>1. /\ owner' = owner
          /\ \E R \in SUBSET {c \in Codes : ~Exists(c)} :
               codeStatus' = [c \in Codes |-> IF c \in R THEN s ELSE codeStatus[c]]
      BY <2>1, Zenon DEF AddCodes
    <3> HIDE DEF s
    <3> QED
      BY <3>1 DEF Exists, NoRow
  <2>2. CASE UpdateCode(a) \/ DeleteCode(a)
    <3> DEFINE c == job[a].code
    <3>1. /\ job[a].op \in {"updateCode", "deleteCode"}
          /\ \E s : codeStatus' = [codeStatus EXCEPT ![c] = s]
          /\ \E w : owner' = [owner EXCEPT ![c] = w] \/ owner' = owner
      BY <2>2 DEF UpdateCode, DeleteCode
    <3>2. ~scenario.staleEdits => codeStatus[c] # "SOLD"
      BY <1>3, <3>1 DEF IInv, JobsSound, Fresh
    <3> QED
      BY <1>3, <3>1, <3>2 DEF IInv, Types
  <2> QED
    BY <1>3, <2>1, <2>2
<1> HIDE DEF A
<1>4. ASSUME IInv, NEW o \in Orders,
             CreatePurchase(o) \/ Finalize(o) \/ Release(o) \/ LatePayment(o) \/ VerifyPaymentIssue(o)
      PROVE  A
  <2>1. CASE Refund(o)
    BY <1>2, <2>1 DEF Refund, codeVars
  <2>2. ASSUME NEW S \in Picks(o), SetCodes(S, "RESERVED", o) \/ SetCodes(S, "SOLD", o) PROVE A
    BY <1>1, <1>4, <2>2, PicksAreAvailable
  <2>3. ASSUME NEW statuses \in {{"RESERVED"}, {"RESERVED", "SOLD"}}, SetCodes(Held(o, statuses), "SOLD", o) PROVE A
    <3>1. Held(o, statuses) \in SUBSET Codes /\ \A c \in Held(o, statuses) : owner[c] = o
      BY DEF Held
    <3> QED
      BY <1>1, <2>3, <3>1
  <2>4. CASE Release(o)
    <3>1. /\ SetCodes(Held(o, {"RESERVED"}), "AVAILABLE", NoOrder)
          /\ Held(o, {"RESERVED"}) \in SUBSET Codes /\ \A c \in Held(o, {"RESERVED"}) : codeStatus[c] # "SOLD"
      BY <2>4 DEF Release, ReleaseCodes, Held
    <3> QED
      BY <1>1, <3>1
  <2> QED
    BY <1>4, <2>1, <2>2, <2>3, <2>4 DEF CreatePurchase, Finalize, LatePayment, Sell, VerifyPaymentIssue
<1>5. ASSUME NEW a \in Admins,
             Read(a) \/ ProductWrite(a) \/ DeleteDenomination(a) \/ Refused(a)
      PROVE  UNCHANGED <<codeStatus, owner>>
  BY <1>5 DEF Read, ProductRead, DeleteDenominationRead, AddCodesRead, UpdateCodeRead, DeleteCodeRead,
     Begin, ProductWrite, DeleteDenomination, Refused, codeVars
<1>6. ASSUME \/ \E d \in scenario.denominations : CreateDenomination(d) \/ UpdateDenomination(d)
             \/ \E c \in Codes : ExpiryPasses(c)
             \/ ServerStarts \/ UNCHANGED vars
      PROVE  UNCHANGED <<codeStatus, owner>>
  BY <1>6 DEF CreateDenomination, UpdateDenomination, ExpiryPasses, ServerStarts, vars, codeVars
<1>7. ASSUME IInv, Commerce PROVE A
  BY <1>4, <1>7 DEF Commerce, IInv, Types, Scenario
<1>8. IInv /\ [Next]_vars => A
  BY <1>2, <1>3, <1>5, <1>6, <1>7, Zenon DEF Next, Write
<1> QED
  BY <1>8, Invariance, PTL DEF A, Spec, UninterruptedEditsKeepSold

------------------------------------------------------------------------------
(* Types, and what is filed, reserved and shown *)

Dates == {"never", "future", "past"}

Rest ==
  /\ product \in {"ACTIVE", "INACTIVE", "ARCHIVED"} /\ archived \in BOOLEAN
  /\ expiry \in [Codes -> Dates] /\ delivery \in [Codes -> Orders \cup {NoOrder}]
  /\ startExpired \subseteq Codes /\ scenario \in Scenarios

LEMMA CommerceRest ==
  ASSUME Rest, NEW o \in Orders,
         CreatePurchase(o) \/ Finalize(o) \/ Release(o) \/ LatePayment(o) \/ VerifyPaymentIssue(o)
  PROVE  Rest'
<1>1. UNCHANGED <<product, archived, expiry, startExpired, scenario>>
  BY DEF CreatePurchase, Finalize, Release, ReleaseCodes, LatePayment, VerifyPaymentIssue, Refund, Sell, SetCodes,
     Elsewhere, catalogueVars, codeVars
<1>2. \/ delivery' = delivery
      \/ \E S : delivery' = [c \in Codes |-> IF c \in S /\ delivery[c] = NoOrder THEN o ELSE delivery[c]]
  BY DEF CreatePurchase, Finalize, Release, LatePayment, VerifyPaymentIssue, Refund, Sell
<1> QED
  BY <1>1, <1>2 DEF Rest

LEMMA WriteRest ==
  ASSUME IInv, Rest, NEW a \in Admins, Write(a)
  PROVE  Rest'
<1>1. CASE ProductWrite(a)
  <2>1. /\ product' \in {"ACTIVE", "INACTIVE", "ARCHIVED"} /\ archived' \in {archived, TRUE}
        /\ UNCHANGED <<expiry, delivery, startExpired, scenario>>
    BY <1>1 DEF ProductWrite, Written, codeVars
  <2> QED
    BY <2>1 DEF Rest
<1>2. CASE DeleteDenomination(a)
  BY <1>2 DEF DeleteDenomination, Written, codeVars, Rest
<1>3. CASE Refused(a)
  BY <1>3 DEF Refused, catalogueVars, codeVars, Rest
<1>4. ASSUME UNCHANGED <<product, archived, delivery, startExpired, scenario>>, expiry' \in [Codes -> Dates]
      PROVE  Rest'
  BY <1>4 DEF Rest
<1>5. CASE AddCodes(a)
  <2> DEFINE e == IF job[a].expiry = "keep" THEN "never" ELSE job[a].expiry
  <2>1. PICK R : expiry' = [c \in Codes |-> IF c \in R THEN e ELSE expiry[c]]
    BY <1>5, Zenon DEF AddCodes
  <2>2. e \in Dates
    BY DEF IInv, JobsSound, Job, Expiries, Dates
  <2> HIDE DEF e
  <2>3. expiry' \in [Codes -> Dates]
    BY <2>1, <2>2 DEF Rest
  <2>4. UNCHANGED <<product, archived, delivery, startExpired, scenario>>
    BY <1>5 DEF AddCodes, Written, catalogueVars
  <2> QED
    BY <1>4, <2>3, <2>4
<1>6. CASE UpdateCode(a)
  <2> DEFINE c == job[a].code
  <2>1. expiry' = [expiry EXCEPT ![c] = ExpiryAfter(c, job[a].expiry)] /\ c \in Codes
    BY <1>6 DEF UpdateCode, IInv, JobsSound, JobSound
  <2>2. ExpiryAfter(c, job[a].expiry) \in Dates
    BY <2>1 DEF ExpiryAfter, IInv, JobsSound, Job, Expiries, Dates, Rest
  <2>3. expiry' \in [Codes -> Dates]
    BY <2>1, <2>2 DEF Rest
  <2>4. UNCHANGED <<product, archived, delivery, startExpired, scenario>>
    BY <1>6 DEF UpdateCode, Written, catalogueVars
  <2> QED
    BY <1>4, <2>3, <2>4
<1>7. CASE DeleteCode(a)
  <2>1. expiry' \in [Codes -> Dates]
    BY <1>7 DEF DeleteCode, Rest, Dates
  <2>2. UNCHANGED <<product, archived, delivery, startExpired, scenario>>
    BY <1>7 DEF DeleteCode, Written, catalogueVars
  <2> QED
    BY <1>4, <2>1, <2>2
<1> QED
  BY <1>1, <1>2, <1>3, <1>5, <1>6, <1>7 DEF Write

LEMMA RestStep == IInv /\ Rest /\ [Next]_vars => Rest'
<1> SUFFICES ASSUME IInv, Rest, [Next]_vars PROVE Rest'
  OBVIOUS
<1>1. scenario.orders \subseteq Orders
  BY DEF IInv, Types, Scenario
<1>2. Commerce => Rest'
  BY <1>1, CommerceRest DEF Commerce
<1>3. ASSUME NEW a \in Admins, Read(a) PROVE Rest'
  <2>1. \E rec : Begin(a, rec)
    BY <1>3 DEF Read, ProductRead, DeleteDenominationRead, AddCodesRead, DeleteCodeRead, UpdateCodeRead
  <2> QED
    BY <2>1 DEF Begin, Rest, catalogueVars, codeVars
<1>4. ASSUME NEW a \in Admins, Write(a) PROVE Rest'
  BY <1>4, WriteRest
<1>5. ASSUME NEW d, CreateDenomination(d) \/ UpdateDenomination(d) PROVE Rest'
  BY <1>5 DEF CreateDenomination, UpdateDenomination, Written, codeVars, Rest
<1>6. ASSUME NEW c \in Codes, ExpiryPasses(c) PROVE Rest'
  BY <1>6 DEF ExpiryPasses, catalogueVars, Rest, Dates
<1>7. CASE ServerStarts
  BY <1>7 DEF ServerStarts, catalogueVars, codeVars, Rest
<1>8. CASE UNCHANGED vars
  BY <1>8 DEF vars, catalogueVars, codeVars, Rest
<1> QED
  BY <1>2, <1>3, <1>4, <1>5, <1>6, <1>7, <1>8, Zenon DEF Next

\* Whatever administrators edit meanwhile: a denomination with codes is never
\* removed (deleteDenomination counts, the foreign key refuses what came since),
\* reservations end with their order, and the catalogue shows what can be sold.
THEOREM StockStaysSound == Spec => []StockInvariant
<1>1. Init => Rest
  <2> SUFFICES ASSUME Init PROVE Rest
    OBVIOUS
  <2>1. expiry \in [Codes -> Dates]
    BY DEF Init, Dates
  <2> QED
    BY <2>1 DEF Init, Rest
<1>2. IInv /\ Rest => TypeOK
  BY DEF IInv, Types, JobsSound, Rest, TypeOK, Dates
<1>3. IInv => CodesKeepTheirDenomination /\ ReservedForAnOrder
  BY Statuses DEF IInv, ReservedIsAwaited, ReservedForAnOrder
<1>4. SellableIsShown
  BY DEF SellableIsShown, InStock, Sellable, CodesOf, Exists, NoRow
<1> QED
  BY <1>1, <1>2, <1>3, <1>4, RestStep, Invariance, PTL DEF Spec, StockInvariant
==============================================================================
