--------------------------- MODULE GiftCardCheckout ---------------------------
(***************************************************************************)
(* Gift-card checkout and payment settlement: the reservation of codes, the *)
(* payment row and its order, the hosted gateway, the callbacks, customer   *)
(* verifications and reconciliation sweeps that race to settle the payment, *)
(* and the administrator's manual interventions.                            *)
(*                                                                         *)
(* One variable stands for one column of the database.  Handlers are the    *)
(* requests being served, Workers the reconciliation loop (two of them      *)
(* also cover a sweep that works through a batch it read earlier).  A       *)
(* transaction that locks the order row, then the payment row, is one       *)
(* action; every await between transactions is a place where other actions  *)
(* interleave; markUnknown, which locks nothing, reads and writes in two.    *)
(* A lock-order deadlock makes PostgreSQL abort one of the transactions,    *)
(* which is the same as that handler stopping: see Abandon.                 *)
(***************************************************************************)
EXTENDS PaymentStates, FiniteSets, Naturals

CONSTANTS
  Orders,         \* checkouts: one per (customer, checkoutKey)
  Codes,          \* gift-card codes in stock, unexpired
  Denominations,
  CodeDenom,      \* [Codes -> Denominations]
  Lines,          \* [Orders -> [Denominations -> Nat]]: the order's items
  Handlers,       \* requests and callbacks being served
  Workers,        \* runs of the reconciliation worker
  NoOrder,        \* not an order: the orderItemId of a free code
  DbFaults,       \* BOOLEAN: a transaction may fail in the database
  Verdicts,       \* the verdicts an administrator records on payment issues
  Overrides       \* order statuses an administrator sets by hand

Procs == Handlers \cup Workers

ASSUME CheckoutConstants ==
  /\ CodeDenom \in [Codes -> Denominations]
  /\ Lines \in [Orders -> [Denominations -> Nat]]
  /\ \A o \in Orders : \E d \in Denominations : Lines[o][d] > 0
  /\ NoOrder \notin Orders
  /\ DbFaults \in BOOLEAN
  /\ Verdicts \subseteq RefundVerdicts
  /\ Overrides \subseteq OrderStatus

VARIABLES
  orderStatus,    \* orders.status, NoRow before the checkout
  orderPay,       \* orders.paymentStatus
  codeStatus,     \* gift_card_codes.status
  codeOwner,      \* gift_card_codes.orderItemId, as the item's order
  delivery,       \* the order gift_card_deliveries has a row of the code for
  expired,        \* the reservation's reservationExpiresAt has passed
  pay,            \* payments.paymentStatus, NoRow before initiation
  attempt,        \* payment_attempts.status
  hasUrl,         \* payments.providerResponse holds a paymentUrl
  reason,         \* payments.reconciliationReason
  gateway,        \* the gateway's session of the order
  job             \* what each process is doing

orderVars == <<orderStatus, orderPay>>
stockVars == <<codeStatus, codeOwner, delivery, expired>>
paymentVars == <<pay, attempt, hasUrl, reason>>
vars == <<orderVars, stockVars, paymentVars, gateway, job>>

------------------------------------------------------------------------------
(* The gateway's session: SENT while the initiation request travels; then    *)
(* REJECTED, or PENDING until the customer pays, fails or cancels.           *)
(* RECOVERED is reported as PAID, after a FAILED or CANCELLED was reportable. *)

GatewayState ==
  {"NONE", "SENT", "REJECTED", "PENDING", "PAID", "FAILED", "CANCELLED", "RECOVERED"}
Captured == {"PAID", "RECOVERED"}

Reason ==
  {"none", "unconfirmed", "unavailable", "nonTerminal", "expired", "noStock", "admin"}

Step == {"idle", "claim", "release", "releaseWrite", "gateway", "attempt",
         "query", "complete", "refund", "fail", "reread", "mark", "markWrite"}

\* What a process has learnt and carries from one await to the next: the
\* verdict to record when failing, the reason to record when marking.
Job == [step : Step, order : Orders \cup {NoOrder},
        carry : {"none", "FAILED", "CANCELLED"} \cup Reason, sweep : BOOLEAN]

Idle == [step |-> "idle", order |-> NoOrder, carry |-> "none", sweep |-> FALSE]

Busy(p, step, o) == job[p].step = step /\ job[p].order = o
Start(p, step, o, sweep) ==
  job' = [job EXCEPT ![p] = [step |-> step, order |-> o, carry |-> "none", sweep |-> sweep]]
Continue(p, step, carry) ==
  job' = [job EXCEPT ![p].step = step, ![p].carry = carry]
Finish(p) == job' = [job EXCEPT ![p] = Idle]

------------------------------------------------------------------------------
(* Stock *)

Available == {c \in Codes : codeStatus[c] = "AVAILABLE"}
HeldBy(o) == {c \in Codes : codeOwner[c] = o /\ codeStatus[c] = "RESERVED"}
SoldTo(o) == {c \in Codes : codeOwner[c] = o /\ codeStatus[c] = "SOLD"}
AssignedTo(o) == HeldBy(o) \cup SoldTo(o)

\* mergeLines leaves one item per denomination: (o, d) identifies an item.
OfDenom(S, d) == {c \in S : CodeDenom[c] = d}
Fills(S, o) == \A d \in Denominations : Cardinality(OfDenom(S, d)) = Lines[o][d]

\* S completes, item by item, what the order is assigned: an item has all of
\* its codes already, or has none and takes them all from stock.
Completes(S, o) ==
  \A d \in Denominations :
    IF Cardinality(OfDenom(AssignedTo(o), d)) = Lines[o][d]
      THEN OfDenom(S, d) = {}
      ELSE OfDenom(AssignedTo(o), d) = {} /\ Cardinality(OfDenom(S, d)) = Lines[o][d]

\* What releaseGiftCardReservation writes, once it read that the order has
\* gift-card items and is not PAID.
ReleaseGiftCardReservation(o, status) ==
  /\ codeOwner' = [c \in Codes |-> IF c \in HeldBy(o) THEN NoOrder ELSE codeOwner[c]]
  /\ codeStatus' = [c \in Codes |-> IF c \in HeldBy(o) THEN "AVAILABLE" ELSE codeStatus[c]]
  /\ orderStatus' = [orderStatus EXCEPT ![o] = "CANCELLED"]
  /\ orderPay' = [orderPay EXCEPT ![o] = status]
  /\ UNCHANGED <<delivery, expired>>

\* The settlement of an order with the codes S: they are SOLD to it, each gets
\* a delivery row unless it has one (skipDuplicates), the order is COMPLETED.
SettleTo(o, S, owner) ==
  /\ Fills(S, o)
  /\ codeOwner' = [c \in Codes |-> IF c \in S THEN owner[c] ELSE codeOwner[c]]
  /\ codeStatus' = [c \in Codes |-> IF c \in S THEN "SOLD" ELSE codeStatus[c]]
  /\ delivery' = [c \in Codes |->
                    IF c \in S /\ delivery[c] = NoOrder THEN o ELSE delivery[c]]
  /\ orderStatus' = [orderStatus EXCEPT ![o] = "COMPLETED"]
  /\ orderPay' = [orderPay EXCEPT ![o] = "PAID"]
  /\ pay' = [pay EXCEPT ![o] = "PAID"]
  /\ attempt' = [attempt EXCEPT ![o] = "PAID"]
  /\ hasUrl' = [hasUrl EXCEPT ![o] = FALSE]
  /\ reason' = [reason EXCEPT ![o] = "none"]
  /\ UNCHANGED <<expired, gateway>>

\* Mistake: codes allocated late keep an empty orderItemId.
SettleWithoutOwner(o, S) == SettleTo(o, S, codeOwner)

SettleWith(o, S) == SettleTo(o, S, [c \in S |-> o])

------------------------------------------------------------------------------
(* Checkout and initiation *)

Init ==
  /\ orderStatus = [o \in Orders |-> NoRow]
  /\ orderPay = [o \in Orders |-> NoRow]
  /\ codeStatus = [c \in Codes |-> "AVAILABLE"]
  /\ codeOwner = [c \in Codes |-> NoOrder]
  /\ delivery = [c \in Codes |-> NoOrder]
  /\ expired = [o \in Orders |-> FALSE]
  /\ pay = [o \in Orders |-> NoRow]
  /\ attempt = [o \in Orders |-> NoRow]
  /\ hasUrl = [o \in Orders |-> FALSE]
  /\ reason = [o \in Orders |-> "none"]
  /\ gateway = [o \in Orders |-> "NONE"]
  /\ job = [p \in Procs |-> Idle]

\* createPurchase, its Serializable transaction: the order is created and the
\* locked codes, one of the sets in Choices, are reserved.
PlaceOrder(p, o, Choices) ==
  /\ p \in Handlers /\ job[p] = Idle
  /\ orderStatus[o] = NoRow
  /\ \E S \in Choices :
       /\ codeStatus' = [c \in Codes |-> IF c \in S THEN "RESERVED" ELSE codeStatus[c]]
       /\ codeOwner' = [c \in Codes |-> IF c \in S THEN o ELSE codeOwner[c]]
  /\ orderStatus' = [orderStatus EXCEPT ![o] = "PENDING"]
  /\ orderPay' = [orderPay EXCEPT ![o] = "PENDING"]
  /\ Start(p, "claim", o, FALSE)
  /\ UNCHANGED <<delivery, expired, paymentVars, gateway>>

\* Mistake: fewer codes than ordered could be locked, and nobody counted them.
PartialPurchase(p, o) ==
  PlaceOrder(p, o, {S \in SUBSET Available :
    \A d \in Denominations : Cardinality(OfDenom(S, d)) <= Lines[o][d]})

\* All the codes or none.  SKIP LOCKED may pass over any available code.
CreatePurchase(p, o) ==
  PlaceOrder(p, o, {S \in SUBSET Available : Fills(S, o)})

\* createPayment, its first transaction, called by createPurchase or by the
\* initiation endpoint; the caller then asks the gateway for a session.
\* Mistake: an existing payment row is not looked for.
InitiateAgain(p, o) ==
  /\ Busy(p, "claim", o) \/ (p \in Handlers /\ job[p] = Idle)
  /\ orderStatus[o] = "PENDING" /\ orderPay[o] \in Payable
  /\ pay' = [pay EXCEPT ![o] = "PROCESSING"]
  /\ attempt' = [attempt EXCEPT ![o] = "PROCESSING"]
  /\ orderPay' = [orderPay EXCEPT ![o] = "PROCESSING"]
  /\ gateway' = [gateway EXCEPT ![o] = "SENT"]
  /\ Start(p, "gateway", o, FALSE)
  /\ UNCHANGED <<orderStatus, stockVars, hasUrl, reason>>

\* Only one caller creates the payment: the others find its row.
CreatePayment(p, o) == pay[o] = NoRow /\ InitiateAgain(p, o)

\* createPayment throws inside createPurchase.
InitiationThrows(p, o) ==
  /\ Busy(p, "claim", o)
  /\ \/ DbFaults \/ pay[o] # NoRow
     \/ orderStatus[o] # "PENDING" \/ orderPay[o] \notin Payable
  /\ UNCHANGED <<orderVars, stockVars, paymentVars, gateway>>

\* The catch looks for a payment row: with one, the reservation is left to
\* reconciliation.
CreatePaymentFails(p, o) ==
  /\ InitiationThrows(p, o)
  /\ IF pay[o] = NoRow THEN Start(p, "release", o, FALSE) ELSE Finish(p)

\* releaseGiftCardReservation in the catch, the read: no row is locked.
ReleaseUninitiatedRead(p, o) ==
  /\ Busy(p, "release", o)
  /\ IF orderPay[o] # "PAID" THEN Continue(p, "releaseWrite", "none") ELSE Finish(p)
  /\ UNCHANGED <<orderVars, stockVars, paymentVars, gateway>>

\* releaseGiftCardReservation in the catch, the writes.
ReleaseUninitiatedWrite(p, o) ==
  /\ Busy(p, "releaseWrite", o)
  /\ ReleaseGiftCardReservation(o, "FAILED")
  /\ Finish(p)
  /\ UNCHANGED <<paymentVars, gateway>>

\* createPayment, the gateway answered with a URL: kept if still PROCESSING.
StorePaymentUrl(p, o) ==
  /\ Busy(p, "gateway", o)
  /\ gateway[o] \notin {"SENT", "REJECTED"}
  /\ hasUrl' = [hasUrl EXCEPT ![o] = @ \/ pay[o] = "PROCESSING"]
  /\ Continue(p, "attempt", "none")
  /\ UNCHANGED <<orderVars, stockVars, pay, attempt, reason, gateway>>

\* createPayment, then the attempt is written, whatever its status is.
StoreAttemptUrl(p, o) ==
  /\ Busy(p, "attempt", o)
  /\ attempt' = [attempt EXCEPT ![o] = "PROCESSING"]
  /\ Finish(p)
  /\ UNCHANGED <<orderVars, stockVars, pay, hasUrl, reason, gateway>>

\* createPayment, the gateway refused the session.
InitiationRejected(p, o) ==
  /\ Busy(p, "gateway", o)
  /\ gateway[o] = "REJECTED"
  /\ Continue(p, "fail", "FAILED")
  /\ UNCHANGED <<orderVars, stockVars, paymentVars, gateway>>

\* createPayment, no usable answer before the timeout, or a failed write.
InitiationUnconfirmed(p, o) ==
  /\ Busy(p, "gateway", o) \/ Busy(p, "attempt", o)
  /\ Continue(p, "mark", "unconfirmed")
  /\ UNCHANGED <<orderVars, stockVars, paymentVars, gateway>>

------------------------------------------------------------------------------
(* Verification: callbacks, the customer's verify, and the two sweeps *)

\* handleCallback and executePayment, for a payment that is not settled.
VerifyAndProcess(p, o) ==
  /\ p \in Handlers /\ job[p] = Idle
  /\ pay[o] \in Payable \cup LateTerminal
  /\ Start(p, "query", o, FALSE)
  /\ UNCHANGED <<orderVars, stockVars, paymentVars, gateway>>

ReconcileUnknownPayments(p, o) ==
  /\ p \in Workers /\ job[p] = Idle
  /\ pay[o] = "UNKNOWN"
  /\ Start(p, "query", o, FALSE)
  /\ UNCHANGED <<orderVars, stockVars, paymentVars, gateway>>

ReconcileExpiredReservations(p, o) ==
  /\ p \in Workers /\ job[p] = Idle
  /\ pay[o] \in Payable
  /\ expired[o] /\ HeldBy(o) # {}
  /\ Start(p, "query", o, TRUE)
  /\ UNCHANGED <<orderVars, stockVars, paymentVars, gateway>>

\* Mistake: a verification that fails is taken for a failed payment.
FailUnverified(p, o) ==
  /\ Busy(p, "query", o)
  /\ Continue(p, "fail", "FAILED")
  /\ UNCHANGED <<orderVars, stockVars, paymentVars, gateway>>

\* queryPayment throws: transport, timeout, or an answer about no session.
QueryFails(p, o) ==
  /\ Busy(p, "query", o)
  /\ job' = [job EXCEPT ![p] = [step |-> "mark", order |-> o,
                                carry |-> "unavailable", sweep |-> FALSE]]
  /\ UNCHANGED <<orderVars, stockVars, paymentVars, gateway>>

\* verifyAndProcess, dispatch on the status that the gateway reports.
Dispatch(p, o, paid, failed, pending) ==
  /\ Busy(p, "query", o)
  /\ \/ paid /\ Continue(p, "complete", "none")
     \/ failed /\ Continue(p, "fail", gateway[o])
     \/ pending /\ Continue(p, "mark", "nonTerminal")
  /\ UNCHANGED <<orderVars, stockVars, paymentVars, gateway>>

\* Mistake: the sweep cancels a pending payment because its time is over.
ExpiryCancels(p, o) ==
  /\ Busy(p, "query", o)
  /\ IF job[p].sweep /\ gateway[o] = "PENDING"
       THEN Continue(p, "fail", "CANCELLED")
       ELSE gateway[o] \in Captured /\ Continue(p, "complete", "none")
  /\ UNCHANGED <<orderVars, stockVars, paymentVars, gateway>>

QueryAnswered(p, o) ==
  Dispatch(p, o, gateway[o] \in Captured, gateway[o] \in {"FAILED", "CANCELLED"},
           gateway[o] = "PENDING")

\* completePayment, the locked transaction, for a payment that is not late.
CompletePayment(p, o) ==
  /\ Busy(p, "complete", o)
  /\ pay[o] \in Payable /\ orderPay[o] \in Payable /\ orderStatus[o] = "PENDING"
  /\ PaymentTransitionAllowed(pay[o], "PAID")
  /\ SettleWith(o, HeldBy(o))
  /\ Finish(p)

\* completePayment, late: what the order lacks is taken from Stock first.
SettleLate(p, o, Stock) ==
  /\ Busy(p, "complete", o)
  /\ pay[o] \in LateTerminal
  /\ LateRecoveryAllowed(pay[o], "PAID")
  /\ \E S \in SUBSET Stock : Completes(S, o) /\ SettleWith(o, HeldBy(o) \cup S)
  /\ Finish(p)

\* Mistake: late allocation does not ask whether a code is another order's.
SettleLateWithAnyCode(p, o) == SettleLate(p, o, Codes)

CompleteLatePayment(p, o) ==
  SettleLate(p, o, {c \in Available : codeOwner[c] = NoOrder})

\* completePayment answers without a write: the payment is PAID already, or
\* it or its order is no longer payable (PAYMENT_TERMINAL).
CompletionRefused(p, o) ==
  /\ Busy(p, "complete", o)
  /\ pay[o] \notin LateTerminal
  /\ ~ (pay[o] \in Payable /\ orderPay[o] \in Payable /\ orderStatus[o] = "PENDING")
  /\ Finish(p)
  /\ UNCHANGED <<orderVars, stockVars, paymentVars, gateway>>

\* completePayment, late, rolled back: too few codes could be locked.  Codes
\* that a concurrent checkout has locked are skipped, so this can happen with
\* enough codes AVAILABLE.
LateInventoryUnavailable(p, o) ==
  /\ Busy(p, "complete", o)
  /\ pay[o] \in LateTerminal
  /\ ~ Fills(AssignedTo(o), o)
  /\ Continue(p, "refund", "none")
  /\ UNCHANGED <<orderVars, stockVars, paymentVars, gateway>>

\* completePayment, its catch: a second transaction records a refund, having
\* locked the payment again and looked only for REFUND_PENDING.
MarkRefundPending(p, o) ==
  /\ Busy(p, "refund", o)
  /\ IF pay[o] = "REFUND_PENDING"
       THEN UNCHANGED <<orderVars, paymentVars>>
       ELSE /\ pay' = [pay EXCEPT ![o] = "REFUND_PENDING"]
            /\ attempt' = [attempt EXCEPT ![o] = "REFUND_PENDING"]
            /\ reason' = [reason EXCEPT ![o] = "noStock"]
            /\ orderPay' = [orderPay EXCEPT ![o] = "REFUND_PENDING"]
            /\ orderStatus' = [orderStatus EXCEPT ![o] = "REFUND_PENDING"]
            /\ UNCHANGED hasUrl
  /\ Finish(p)
  /\ UNCHANGED <<stockVars, gateway>>

\* failPayment, which writes if the payment and order are as required, then
\* the sweep reads the payment again.  The raw answer of a verification
\* replaces providerResponse.
FailIf(p, o, required) ==
  LET status == job[p].carry IN
  /\ Busy(p, "fail", o)
  /\ IF required
       THEN /\ PaymentTransitionAllowed(pay[o], status)
            /\ pay' = [pay EXCEPT ![o] = status]
            /\ attempt' = [attempt EXCEPT ![o] = IF @ \in Payable THEN status ELSE @]
            /\ hasUrl' = [hasUrl EXCEPT ![o] = FALSE]
            /\ ReleaseGiftCardReservation(o, status)
       ELSE UNCHANGED <<orderVars, stockVars, pay, attempt, hasUrl>>
  /\ IF job[p].sweep THEN Continue(p, "reread", "none") ELSE Finish(p)
  /\ UNCHANGED <<reason, gateway>>

\* Mistake: the order's paymentStatus is not looked at.
FailWhateverTheOrder(p, o) == FailIf(p, o, pay[o] \in Payable)

\* Mistake: the order of a settled payment is released on a stale verdict.
FailSettled(p, o) ==
  IF pay[o] = "PAID"
    THEN /\ Busy(p, "fail", o) /\ ReleaseGiftCardReservation(o, job[p].carry)
         /\ Finish(p) /\ UNCHANGED <<paymentVars, gateway>>
    ELSE FailIf(p, o, pay[o] \in Payable /\ orderPay[o] \in Payable)

FailPayment(p, o) == FailIf(p, o, pay[o] \in Payable /\ orderPay[o] \in Payable)

\* verifyAndProcess returns the committed status; the expiry sweep marks a
\* payment that is still payable.
RereadAfterFail(p, o) ==
  /\ Busy(p, "reread", o)
  /\ IF pay[o] \in Payable THEN Continue(p, "mark", "expired") ELSE Finish(p)
  /\ UNCHANGED <<orderVars, stockVars, paymentVars, gateway>>

\* After marking, the expiry sweep marks again with its own reason.
AfterMark(p) ==
  IF job[p].sweep /\ job[p].carry # "expired"
    THEN Continue(p, "mark", "expired")
    ELSE Finish(p)

\* markUnknown, the read: no row is locked.
MarkUnknownRead(p, o) ==
  /\ Busy(p, "mark", o)
  /\ IF pay[o] \in Payable /\ ~ (pay[o] = "UNKNOWN" /\ reason[o] = job[p].carry)
       THEN /\ PaymentTransitionAllowed(pay[o], "UNKNOWN")
            /\ Continue(p, "markWrite", job[p].carry)
       ELSE AfterMark(p)
  /\ UNCHANGED <<orderVars, stockVars, paymentVars, gateway>>

\* markUnknown, the writes: the payment by its id alone, the attempt if it is
\* payable, the order if its paymentStatus is in Markable.  A raw answer
\* replaces providerResponse.
MarkIn(p, o, Markable) ==
  /\ Busy(p, "markWrite", o)
  /\ pay' = [pay EXCEPT ![o] = "UNKNOWN"]
  /\ reason' = [reason EXCEPT ![o] = job[p].carry]
  /\ hasUrl' = [hasUrl EXCEPT ![o] = @ /\ job[p].carry # "nonTerminal"]
  /\ attempt' = [attempt EXCEPT ![o] = IF @ \in Payable THEN "UNKNOWN" ELSE @]
  /\ orderPay' = [orderPay EXCEPT ![o] = IF @ \in Markable THEN "UNKNOWN" ELSE @]
  /\ AfterMark(p)
  /\ UNCHANGED <<orderStatus, stockVars, gateway>>

MarkUnknownWrite(p, o) == MarkIn(p, o, Payable)

\* A handler stops at an await: the process crashed or was restarted, the
\* database refused or aborted its transaction, or an answer failed the
\* identity checks, which write nothing.
Abandon(p) ==
  /\ job[p] # Idle
  /\ Finish(p)
  /\ UNCHANGED <<orderVars, stockVars, paymentVars, gateway>>

------------------------------------------------------------------------------
(* The administrator, the clock and the gateway *)

\* verifyPaymentIssue: the verdict goes to the payment, its order and attempt.
RecordVerdict(o, verdict, status) ==
  /\ pay[o] # NoRow
  /\ PaymentTransitionAllowed(pay[o], verdict)
  /\ pay' = [pay EXCEPT ![o] = verdict]
  /\ attempt' = [attempt EXCEPT ![o] = verdict]
  /\ reason' = [reason EXCEPT ![o] = "admin"]
  /\ orderPay' = [orderPay EXCEPT ![o] = verdict]
  /\ orderStatus' = [orderStatus EXCEPT ![o] = status]
  /\ UNCHANGED <<stockVars, hasUrl, gateway, job>>

VerifyPaymentIssue(o, verdict) ==
  RecordVerdict(o, verdict, IF verdict = "REFUNDED" THEN "CANCELLED" ELSE "REFUND_PENDING")

\* updateOrderStatus: any status, whatever the payment or the codes are.
UpdateOrderStatus(o, status) ==
  /\ orderStatus[o] # NoRow
  /\ orderStatus' = [orderStatus EXCEPT ![o] = status]
  /\ UNCHANGED <<orderPay, stockVars, paymentVars, gateway, job>>

\* reservationExpiresAt passes, for codes the order still has reserved.
ReservationExpires(o) ==
  /\ HeldBy(o) # {} /\ ~ expired[o]
  /\ expired' = [expired EXCEPT ![o] = TRUE]
  /\ UNCHANGED <<orderVars, codeStatus, codeOwner, delivery, paymentVars, gateway, job>>

GatewayDecides(o) ==
  /\ \E next \in GatewayState :
       /\ \/ gateway[o] = "SENT" /\ next \in {"PENDING", "REJECTED"}
          \/ gateway[o] = "PENDING" /\ next \in {"PAID", "FAILED", "CANCELLED"}
          \/ gateway[o] \in {"FAILED", "CANCELLED"} /\ next = "RECOVERED"
       /\ gateway' = [gateway EXCEPT ![o] = next]
  /\ UNCHANGED <<orderVars, stockVars, paymentVars, job>>

Serve(p, o) ==
  \/ CreatePurchase(p, o)
  \/ CreatePayment(p, o)
  \/ CreatePaymentFails(p, o)
  \/ ReleaseUninitiatedRead(p, o)
  \/ ReleaseUninitiatedWrite(p, o)
  \/ StorePaymentUrl(p, o)
  \/ StoreAttemptUrl(p, o)
  \/ InitiationRejected(p, o)
  \/ InitiationUnconfirmed(p, o)
  \/ VerifyAndProcess(p, o)
  \/ ReconcileUnknownPayments(p, o)
  \/ ReconcileExpiredReservations(p, o)
  \/ QueryFails(p, o)
  \/ QueryAnswered(p, o)
  \/ CompletePayment(p, o)
  \/ CompleteLatePayment(p, o)
  \/ CompletionRefused(p, o)
  \/ LateInventoryUnavailable(p, o)
  \/ MarkRefundPending(p, o)
  \/ FailPayment(p, o)
  \/ RereadAfterFail(p, o)
  \/ MarkUnknownRead(p, o)
  \/ MarkUnknownWrite(p, o)

Next ==
  \/ \E p \in Procs, o \in Orders : Serve(p, o)
  \/ \E p \in Procs : Abandon(p)
  \/ \E o \in Orders, verdict \in Verdicts : VerifyPaymentIssue(o, verdict)
  \/ \E o \in Orders, status \in Overrides : UpdateOrderStatus(o, status)
  \/ \E o \in Orders : ReservationExpires(o) \/ GatewayDecides(o)

Spec == Init /\ [][Next]_vars

\* The server keeps running and its interval timer keeps firing: the worker
\* takes its steps, comes back to every payment it may verify (there are fewer
\* of them than the batch limit), and is not cut off or refused an answer each
\* and every time it gets there.
FairSpec ==
  /\ Spec
  /\ \A o \in Orders : WF_vars(ReservationExpires(o))
  /\ \A w \in Workers :
       /\ WF_vars(\E o \in Orders : Serve(w, o))
       /\ \A o \in Orders :
            /\ SF_vars(ReconcileUnknownPayments(w, o))
            /\ SF_vars(ReconcileExpiredReservations(w, o))
            /\ SF_vars(QueryAnswered(w, o))
            /\ SF_vars(CompletePayment(w, o))

------------------------------------------------------------------------------
(* Properties *)

\* Every column and every process state has a value of its type.
TypeOK ==
  /\ orderStatus \in [Orders -> OrderStatus \cup {NoRow}]
  /\ orderPay \in [Orders -> PaymentStatus \cup {NoRow}]
  /\ codeStatus \in [Codes -> {"AVAILABLE", "RESERVED", "SOLD"}]
  /\ codeOwner \in [Codes -> Orders \cup {NoOrder}]
  /\ delivery \in [Codes -> Orders \cup {NoOrder}]
  /\ expired \in [Orders -> BOOLEAN]
  /\ pay \in [Orders -> PaymentStatus \cup {NoRow}]
  /\ attempt \in [Orders -> PaymentStatus \cup {NoRow}]
  /\ hasUrl \in [Orders -> BOOLEAN]
  /\ reason \in [Orders -> Reason]
  /\ gateway \in [Orders -> GatewayState]
  /\ job \in [Procs -> Job]

\* A code has an order exactly while it is reserved or sold, and a delivery
\* row, addressed to that order, exactly once it is sold.
CodeColumnsAgree ==
  \A c \in Codes :
    /\ codeStatus[c] = "AVAILABLE" <=> codeOwner[c] = NoOrder
    /\ delivery[c] = IF codeStatus[c] = "SOLD" THEN codeOwner[c] ELSE NoOrder

\* There is no payment or assigned code without an order, and no session at
\* the gateway without a payment row.
RowsFollowTheOrder ==
  \A o \in Orders :
    /\ orderStatus[o] = NoRow => pay[o] = NoRow /\ AssignedTo(o) = {}
    /\ pay[o] = NoRow => gateway[o] = "NONE"

\* What a process carries is true of its order for as long as it carries it.
SoundJob(j) ==
  j.step # "idle" =>
    /\ j.order \in Orders
    /\ orderStatus[j.order] # NoRow
    /\ j.step \in {"complete", "refund"} => gateway[j.order] \in Captured
    /\ j.step \in {"mark", "markWrite"} => j.carry \in Reason
JobsAreSound == \A p \in Procs : SoundJob(job[p])

\* As long as an order can still be paid for, the codes it asks for, all of
\* them, are reserved for it, whatever callbacks, sweeps, timeouts, restarts
\* and manual status changes have done to its payment: completePayment then
\* never has to refuse a captured payment for lack of reserved stock.
PayableOrderHoldsItsCodes ==
  \A o \in Orders :
    orderPay[o] \in Payable => Fills(HeldBy(o), o) /\ SoldTo(o) = {}

\* An order whose paymentStatus is PAID owns exactly the codes it asked for,
\* each with a delivery row addressed to it, also when the payment was late
\* and its first reservation had been given to other orders.
PaidOrderOwnsItsCodes ==
  \A o \in Orders :
    orderPay[o] = "PAID" =>
      /\ Fills(SoldTo(o), o) /\ HeldBy(o) = {}
      /\ \A c \in SoldTo(o) : delivery[c] = o

\* No order is ever left with part of its codes, with codes both reserved and
\* sold, or with two allocations: reserveCodes, late allocation, release and
\* finalisation act on the whole order, in whatever order they happen.
AllOrNothing ==
  \A o \in Orders :
    \/ AssignedTo(o) = {}
    \/ Fills(HeldBy(o), o) /\ SoldTo(o) = {}
    \/ Fills(SoldTo(o), o) /\ HeldBy(o) = {}

\* A code leaves the stock for good only against money the gateway captured
\* for that very order: callbacks are not believed, answers that are stale,
\* lost or late do not sell a code.
SoldOnlyIfCaptured ==
  \A o \in Orders : SoldTo(o) # {} => gateway[o] \in Captured

\* A payment recorded as failed, cancelled or expired keeps no code out of
\* stock, so that a late payment is served by an allocation of its own.
FailedPaymentKeepsNothing ==
  \A o \in Orders : pay[o] \in LateTerminal => AssignedTo(o) = {}

\* All of it together is inductive: each part relies on the others.
SettlementInvariant ==
  /\ TypeOK
  /\ CodeColumnsAgree
  /\ RowsFollowTheOrder
  /\ JobsAreSound
  /\ PayableOrderHoldsItsCodes
  /\ PaidOrderOwnsItsCodes
  /\ AllOrNothing
  /\ SoldOnlyIfCaptured
  /\ FailedPaymentKeepsNothing

\* Once a code is SOLD it stays with its buyer: neither a release nor a late
\* allocation nor another checkout can take it, and its delivery row stays.
SoldIsFinal ==
  [][\A c \in Codes :
       codeStatus[c] = "SOLD" =>
         codeStatus'[c] = "SOLD" /\ UNCHANGED <<codeOwner[c], delivery[c]>>]_vars

\* The gateway is asked for a session at most once per order, by one of the
\* requests that may initiate the payment at the same time.
OneSessionPerOrder ==
  [][\A o \in Orders, p \in Procs :
       ~ Busy(p, "gateway", o) /\ Busy(p, "gateway", o)' => gateway[o] = "NONE"]_vars

\* The catch of a checkout writes its release: it found no payment two queries ago.
ReleasedByCatch(o) ==
  \E p \in Procs : Busy(p, "releaseWrite", o) /\ ~ Busy(p, "releaseWrite", o)'

\* When a payment is recorded as PAID, so is its order, and the order is
\* COMPLETED: the stale verdicts and marks that handlers still carry never
\* part the two rows, which separate transactions lock.  Only a status set by
\* hand does, or the release of a catch that another initiation overtook.
Completed(o) == orderPay[o] = "PAID" /\ orderStatus[o] = "COMPLETED"
Agree(o) == pay[o] = "PAID" => Completed(o)
SettledPaymentCompletesItsOrder ==
  [][\A o \in Orders :
       Agree(o) /\ ~ Agree(o)' =>
         ReleasedByCatch(o) \/ \E status \in Overrides : UpdateOrderStatus(o, status)]_vars

\* A reservation is not given up while the gateway has a session that can
\* still be paid or was paid: not because of a timeout, an expiry, a callback,
\* or a query without an answer, so that its codes are not sold twice.  Nor
\* does a checkout decide to release the codes of such a session, although the
\* session may be opened by another request before it writes its release.
OpenSession(o) == gateway[o] \in {"SENT", "PENDING", "PAID"}
NoReleaseUnderOpenSession ==
  [][/\ \A c \in Codes :
          codeStatus[c] = "RESERVED" /\ codeStatus'[c] = "AVAILABLE" =>
            ~ OpenSession(codeOwner[c]) \/ ReleasedByCatch(codeOwner[c])
     /\ \A p \in Procs, o \in Orders :
          ~ Busy(p, "release", o) /\ Busy(p, "release", o)' => ~ OpenSession(o)]_vars

\* The stock as a whole implements the abstract ledger of holds and sales.
Ledger == INSTANCE InventoryLedger
            WITH holder <- codeOwner, sold <- {c \in Codes : codeStatus[c] = "SOLD"}
ImplementsLedger == Ledger!Spec

\* Money that the gateway captured is accounted for: an order that the
\* customer paid is fulfilled, or handed to the refund process, even if every
\* callback is lost and every handler that took it up was interrupted; unless
\* the catch of a checkout cancelled the order under its open session.
Cancelled(o) == orderPay[o] = "FAILED" /\ pay[o] # "FAILED"
CapturedPaymentIsSettled ==
  \A o \in Orders :
    gateway[o] = "PAID" ~> orderPay[o] \in {"PAID"} \cup RefundVerdicts \/ Cancelled(o)

\* No payment comes back from a settled or failed status to one that still
\* awaits the gateway: the transition table has no such move.
NoTerminalRevival ==
  [][\A o \in Orders :
       pay[o] \notin Payable \cup {NoRow} => pay'[o] \notin Payable]_vars
==============================================================================
