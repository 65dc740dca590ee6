--------------------------- MODULE GiftCardDelivery ---------------------------
(***************************************************************************)
(* The e-mail that delivers the codes of a settled gift-card order: the     *)
(* claim before the send, what is recorded after it, the retries of the     *)
(* worker, and the two views in which the customer sees the codes.          *)
(*                                                                         *)
(* The deliveries of an order are created, claimed and recorded together,   *)
(* so one status and one attempt counter stand for all of them; "due" is    *)
(* emailLastAttemptAt <= retryBefore.  How the order came to be paid is     *)
(* GiftCardCheckout's subject: here one step settles it.                    *)
(***************************************************************************)
EXTENDS Naturals, FiniteSets, PaymentStates

CONSTANTS
  Orders,         \* gift-card orders, paid for in this behaviour
  Undecryptable,  \* orders with a code whose secret cannot be decrypted
  Handlers,       \* requests (callbacks, verifications)
  Workers,        \* payment workers, one per server process
  MaxAttempts,    \* GIFT_CARD_EMAIL_MAX_ATTEMPTS
  Batch,          \* retryGiftCardDeliveries' limit
  Verdicts,       \* what administrators record on payment issues
  ItemOverrides,  \* delivery statuses administrators set by hand
  Stops,          \* the processes that may stop or meet a failing query
  Scenarios,      \* the values of scenario
  NoOrder

Procs == Handlers \cup Workers

DeliveryStatus ==
  {"PENDING", "QUEUED", "PROCESSING", "PROVIDER_PENDING", "DELIVERED", "CANCELLED",
   "FAILED", "FAILED_RETRYABLE", "FAILED_FINAL", "MANUAL_REVIEW"}

\* What happens in a behaviour: the orders whose payment has started, the
\* requests that come, the order statuses administrators set by hand, the orders
\* with a code whose edit passed its check before the sale and writes after it,
\* and whether a send may outlast the retry delay.
Scenario == [started : SUBSET Orders, requests : SUBSET Handlers,
             overrides : SUBSET OrderStatus, edited : SUBSET Orders, slow : BOOLEAN]

ASSUME DeliveryConstants ==
  /\ Undecryptable \subseteq Orders /\ NoOrder \notin Orders
  /\ MaxAttempts \in Nat \ {0} /\ Batch \in Nat \ {0}
  /\ Verdicts \subseteq RefundVerdicts /\ ItemOverrides \subseteq DeliveryStatus
  /\ Stops \subseteq Procs /\ Scenarios \subseteq Scenario

VARIABLES
  status,    \* orders.status
  orderPay,  \* orders.paymentStatus
  pay,       \* payments.paymentStatus
  codes,     \* gift_card_codes.status: REOPENED once one of them is not SOLD any more
  item,      \* order_items.deliveryStatus
  delivery,  \* gift_card_deliveries.deliveryStatus, NoRow before settlement
  attempts,  \* gift_card_deliveries.emailAttempts
  due,       \* the last attempt is older than the retry delay
  mails,     \* how often the codes were mailed
  shown,     \* the orders whose codes a customer's view revealed
  scenario,  \* fixed by the initial state
  todo,      \* the orders a worker's sweep still has to visit
  job        \* what each process is doing

orderVars == <<status, orderPay, pay>>
deliveryVars == <<delivery, attempts, due>>
vars == <<orderVars, codes, item, deliveryVars, mails, shown, scenario, todo, job>>

Idle == [step |-> "idle", order |-> NoOrder]
\* The steps of a process that has claimed the deliveries of its order.
Working == {"template", "send", "sent", "sentItems", "failed", "failedItems"}
Steps == {"idle", "claim", "update"} \cup Working
WorksOn(p, o) == job[p].step \in Working /\ job[p].order = o
At(p, step) == job[p].step = step
Go(p, step, o) == job' = [job EXCEPT ![p] = [step |-> step, order |-> o]]
Step(p, step) == job' = [job EXCEPT ![p].step = step]

TypeOK ==
  /\ status \in [Orders -> OrderStatus]
  /\ orderPay \in [Orders -> PaymentStatus] /\ pay \in [Orders -> PaymentStatus]
  /\ codes \in [Orders -> {"RESERVED", "SOLD", "REOPENED"}]
  /\ item \in [Orders -> DeliveryStatus]
  /\ delivery \in [Orders -> {NoRow, "PENDING", "PROCESSING", "DELIVERED", "FAILED"}]
  /\ attempts \in [Orders -> 0..MaxAttempts] /\ due \in [Orders -> BOOLEAN]
  /\ mails \in [Orders -> Nat]
  /\ shown \subseteq Orders /\ scenario \in Scenarios /\ todo \in [Workers -> SUBSET Orders]
  /\ job \in [Procs -> [step : Steps, order : Orders \cup {NoOrder}]]

Init ==
  /\ scenario \in Scenarios
  /\ status = [o \in Orders |-> "PENDING"]
  /\ orderPay = [o \in Orders |-> "PENDING"]
  /\ pay = [o \in Orders |-> IF o \in scenario.started THEN "PROCESSING" ELSE "PENDING"]
  /\ codes = [o \in Orders |-> "RESERVED"] /\ item = [o \in Orders |-> "PENDING"]
  /\ delivery = [o \in Orders |-> NoRow] /\ attempts = [o \in Orders |-> 0]
  /\ due = [o \in Orders |-> FALSE] /\ mails = [o \in Orders |-> 0]
  /\ shown = {} /\ todo = [w \in Workers |-> {}]
  /\ job = [p \in Procs |-> Idle]

------------------------------------------------------------------------------
(* Who delivers: the settlement, a repeated callback, the worker *)

\* completePayment's transaction with finalizeGiftCardOrder; then it delivers.
Settle(p, o) ==
  /\ job[p] = Idle /\ status[o] = "PENDING" /\ pay[o] \in Payable
  /\ pay' = [pay EXCEPT ![o] = "PAID"] /\ orderPay' = [orderPay EXCEPT ![o] = "PAID"]
  /\ status' = [status EXCEPT ![o] = "COMPLETED"] /\ codes' = [codes EXCEPT ![o] = "SOLD"]
  /\ item' = [item EXCEPT ![o] = "PENDING"] /\ delivery' = [delivery EXCEPT ![o] = "PENDING"]
  /\ Go(p, "claim", o)
  /\ UNCHANGED <<attempts, due, mails, shown, scenario, todo>>

\* verifyAndProcess of a payment that is PAID already.
Repeated(h, o) ==
  /\ job[h] = Idle /\ pay[o] = "PAID"
  /\ Go(h, "claim", o)
  /\ UNCHANGED <<orderVars, codes, item, deliveryVars, mails, shown, scenario, todo>>

\* Mistake: completion alone makes an order deliverable.
ReadyIfCompleted(o) == status[o] = "COMPLETED"
Ready(o) == status[o] = "COMPLETED" /\ orderPay[o] = "PAID"

\* Mistake: a claim that is being worked on can be taken at once.
TakenOverAtOnce(o) ==
  /\ attempts[o] < MaxAttempts
  /\ delivery[o] \in {"PENDING", "PROCESSING"} \/ (delivery[o] = "FAILED" /\ due[o])
\* Mistake: interrupted claims are not claimed again.
InterruptedNotClaimable(o) ==
  /\ attempts[o] < MaxAttempts
  /\ delivery[o] = "PENDING" \/ (delivery[o] = "FAILED" /\ due[o])
Claimable(o) ==
  /\ attempts[o] < MaxAttempts
  /\ delivery[o] = "PENDING" \/ (delivery[o] \in {"FAILED", "PROCESSING"} /\ due[o])

\* retryGiftCardDeliveries' query.  The order of updatedAt is left open.
Sweep(w) ==
  LET listed == {o \in Orders : Ready(o) /\ Claimable(o)}
  IN  /\ job[w] = Idle /\ todo[w] = {} /\ listed # {}
      /\ \E S \in SUBSET listed :
           /\ Cardinality(S) = Batch \/ (S = listed /\ Cardinality(S) < Batch)
           /\ todo' = [todo EXCEPT ![w] = S]
      /\ UNCHANGED <<orderVars, codes, item, deliveryVars, mails, shown, scenario, job>>

SweepNext(w, o) ==
  /\ job[w] = Idle /\ o \in todo[w]
  /\ todo' = [todo EXCEPT ![w] = @ \ {o}]
  /\ Go(w, "claim", o)
  /\ UNCHANGED <<orderVars, codes, item, deliveryVars, mails, shown, scenario>>

------------------------------------------------------------------------------
(* deliverGiftCardOrder *)

\* The transaction reads the order without a lock: it is completed and paid, its
\* deliveries can be claimed, and its codes are all still SOLD.
ReadOrder(p) ==
  LET o == job[p].order
  IN  /\ At(p, "claim") /\ Ready(o) /\ Claimable(o) /\ codes[o] = "SOLD"
      /\ Step(p, "update")
      /\ UNCHANGED <<orderVars, codes, item, deliveryVars, mails, shown, scenario, todo>>

\* Otherwise the order is skipped, and no attempt is counted.
Skipped(p) ==
  LET o == job[p].order
  IN  /\ At(p, "claim") /\ ~(Ready(o) /\ Claimable(o) /\ codes[o] = "SOLD")
      /\ job' = [job EXCEPT ![p] = Idle]
      /\ UNCHANGED <<orderVars, codes, item, deliveryVars, mails, shown, scenario, todo>>

\* The update checks the deliveries again, but not the order and its codes: rows
\* are PROCESSING and the attempt counts before the send.
Claim(p) ==
  LET o == job[p].order
  IN  /\ At(p, "update") /\ Claimable(o)
      /\ delivery' = [delivery EXCEPT ![o] = "PROCESSING"]
      /\ attempts' = [attempts EXCEPT ![o] = @ + 1]
      /\ due' = [due EXCEPT ![o] = FALSE]
      /\ Step(p, "template")
      /\ UNCHANGED <<orderVars, codes, item, mails, shown, scenario, todo>>

\* Another process claimed the deliveries after the read.
Overtaken(p) ==
  /\ At(p, "update") /\ ~Claimable(job[p].order)
  /\ job' = [job EXCEPT ![p] = Idle]
  /\ UNCHANGED <<orderVars, codes, item, deliveryVars, mails, shown, scenario, todo>>

Template(p) ==
  /\ At(p, "template") /\ job[p].order \notin Undecryptable
  /\ Step(p, "send")
  /\ UNCHANGED <<orderVars, codes, item, deliveryVars, mails, shown, scenario, todo>>

\* The error leaves deliverGiftCardOrder, and the worker's sweep with it.
Drop(p) ==
  /\ job' = [job EXCEPT ![p] = Idle]
  /\ todo' = [w \in Workers |-> IF w = p THEN {} ELSE todo[w]]
  /\ UNCHANGED <<orderVars, codes, item, deliveryVars, mails, shown, scenario>>

CannotDecrypt(p) == At(p, "template") /\ job[p].order \in Undecryptable /\ Drop(p)

Sent(p) ==
  /\ At(p, "send")
  /\ mails' = [mails EXCEPT ![job[p].order] = @ + 1]
  /\ Step(p, "sent")
  /\ UNCHANGED <<orderVars, codes, item, deliveryVars, shown, scenario, todo>>

\* The send is refused, or its answer is lost after the mail went out.
SendFails(p) ==
  /\ At(p, "send")
  /\ mails' \in {mails, [mails EXCEPT ![job[p].order] = @ + 1]}
  /\ Step(p, "failed")
  /\ UNCHANGED <<orderVars, codes, item, deliveryVars, shown, scenario, todo>>

\* Mistake: the outcome is written whatever the rows say by now.
RecordAnyway(o, outcome) == delivery' = [delivery EXCEPT ![o] = outcome]
RecordOutcome(o, outcome) ==
  delivery' = [delivery EXCEPT ![o] = IF @ = "PROCESSING" THEN outcome ELSE @]

RecordDeliveries(p) ==
  /\ \/ At(p, "sent") /\ RecordOutcome(job[p].order, "DELIVERED") /\ Step(p, "sentItems")
     \/ At(p, "failed") /\ RecordOutcome(job[p].order, "FAILED") /\ Step(p, "failedItems")
  /\ UNCHANGED <<orderVars, codes, item, attempts, due, mails, shown, scenario, todo>>

\* Mistake: the items are marked DELIVERED after a failure as well.
ItemsDelivered(p) == "DELIVERED"
ItemsOutcome(p) == IF At(p, "sentItems") THEN "DELIVERED" ELSE "FAILED"

RecordItems(p) ==
  /\ At(p, "sentItems") \/ At(p, "failedItems")
  /\ item' = [item EXCEPT ![job[p].order] = ItemsOutcome(p)]
  /\ job' = [job EXCEPT ![p] = Idle]
  /\ UNCHANGED <<orderVars, codes, deliveryVars, mails, shown, scenario, todo>>

\* A query of the try block fails: the catch block records a failure.
QueryFails(p) ==
  /\ p \in Stops /\ (At(p, "sent") \/ At(p, "sentItems"))
  /\ Step(p, "failed")
  /\ UNCHANGED <<orderVars, codes, item, deliveryVars, mails, shown, scenario, todo>>

\* The process stops, or a query outside the try block or in the catch fails.
Abandon(p) == p \in Stops /\ (job[p] # Idle \/ (p \in Workers /\ todo[p] # {})) /\ Drop(p)

------------------------------------------------------------------------------
(* The customer's views, administrators, time *)

\* getForCustomer's canReveal and getDeliveryForCustomer's where clause agree.
CanReveal(o) == status[o] = "COMPLETED" /\ orderPay[o] = "PAID" /\ pay[o] = "PAID"

View(o) ==
  /\ CanReveal(o) /\ delivery[o] # NoRow /\ o \notin Undecryptable
  /\ shown' = shown \cup {o}
  /\ UNCHANGED <<orderVars, codes, item, deliveryVars, mails, scenario, todo, job>>

VerifyPaymentIssue(o, verdict) ==
  /\ PaymentTransitionAllowed(pay[o], verdict)
  /\ pay' = [pay EXCEPT ![o] = verdict] /\ orderPay' = [orderPay EXCEPT ![o] = verdict]
  /\ status' = [status EXCEPT ![o] = IF verdict = "REFUNDED" THEN "CANCELLED" ELSE "REFUND_PENDING"]
  /\ UNCHANGED <<codes, item, deliveryVars, mails, shown, scenario, todo, job>>

UpdateOrderStatus(o, s) ==
  /\ status' = [status EXCEPT ![o] = s]
  /\ UNCHANGED <<orderPay, pay, codes, item, deliveryVars, mails, shown, scenario, todo, job>>

UpdateDeliveryStatus(o, s) ==
  /\ item' = [item EXCEPT ![o] = s]
  /\ UNCHANGED <<orderVars, codes, deliveryVars, mails, shown, scenario, todo, job>>

\* updateCode writes over a sale that came after its check.  No order can have the
\* code after that: its delivery row keeps it, and it is never SOLD again.
EditCode(o) ==
  /\ o \in scenario.edited /\ codes[o] = "SOLD"
  /\ codes' = [codes EXCEPT ![o] = "REOPENED"]
  /\ UNCHANGED <<orderVars, item, deliveryVars, mails, shown, scenario, todo, job>>

\* The retry delay passes; sends that are not slow are over by then.
BecomesDue(o) ==
  /\ delivery[o] \in {"PROCESSING", "FAILED"} /\ ~due[o]
  /\ scenario.slow \/ \A p \in Procs : ~WorksOn(p, o)
  /\ due' = [due EXCEPT ![o] = TRUE]
  /\ UNCHANGED <<orderVars, codes, item, delivery, attempts, mails, shown, scenario, todo, job>>

Work(p) ==
  \/ ReadOrder(p) \/ Skipped(p) \/ Claim(p) \/ Overtaken(p) \/ Template(p) \/ CannotDecrypt(p)
  \/ Sent(p) \/ SendFails(p) \/ RecordDeliveries(p) \/ RecordItems(p)
Worker(w) == Sweep(w) \/ (\E o \in Orders : SweepNext(w, o)) \/ Work(w)

Next ==
  \/ \E p \in Workers \cup scenario.requests, o \in scenario.started : Settle(p, o)
  \/ \E h \in scenario.requests, o \in Orders : Repeated(h, o)
  \/ \E h \in Handlers : Work(h)
  \/ \E w \in Workers : Worker(w)
  \/ \E p \in Procs : QueryFails(p) \/ Abandon(p)
  \/ \E o \in Orders :
       \/ View(o) \/ EditCode(o) \/ BecomesDue(o)
       \/ \E verdict \in Verdicts : VerifyPaymentIssue(o, verdict)
       \/ \E s \in scenario.overrides : UpdateOrderStatus(o, s)
       \/ \E s \in ItemOverrides : UpdateDeliveryStatus(o, s)

Spec == Init /\ [][Next]_vars

\* The interval keeps calling the worker, a request that does not stop goes on,
\* and the retry delay passes.
FairSpec ==
  /\ Spec
  /\ \A h \in Handlers : WF_vars(Work(h))
  /\ \A w \in Workers : WF_vars(Worker(w))
  /\ \A o \in Orders : WF_vars(BecomesDue(o))

------------------------------------------------------------------------------

\* A delivery that was recorded is never sent back to PENDING, PROCESSING or
\* FAILED, whatever the answers of other claims, failing queries or
\* administrators do afterwards.
DeliveredStays ==
  [][\A o \in Orders : delivery[o] = "DELIVERED" => delivery'[o] = "DELIVERED"]_vars

\* A refund is recorded on the order, and no process is between its read of the
\* order and the end of its delivery.
RefundedForGood(o) ==
  /\ orderPay[o] \in RefundVerdicts
  /\ \A p \in Procs : job[p].order = o => At(p, "claim")

\* Once a refund is recorded on an order, no delivery begins that had not read the
\* order before: after those that had are over, no claim is made for it, its codes
\* are not mailed again and no view reveals them anew, for ever, also if an
\* administrator completes the order again.
RefundedGetsNothing ==
  [][\A o \in Orders :
       /\ RefundedForGood(o) => RefundedForGood(o)' /\ attempts'[o] = attempts[o] /\ mails'[o] = mails[o]
       /\ orderPay[o] \in RefundVerdicts /\ o \in shown' => o \in shown]_vars

\* Repeated callbacks, a second verification and the workers never mail the
\* codes of an order whose delivery is already recorded, provided that no send
\* outlasts the retry delay.
NoMailAfterDelivered ==
  [][\A o \in Orders : ~scenario.slow /\ mails'[o] > mails[o] => delivery[o] = "PROCESSING"]_vars

\* The items of an order say DELIVERED only once its deliveries do, also when a
\* process stops or a query fails between the two writes (without slow sends).
ItemFollowsDelivery ==
  \A o \in Orders : ~scenario.slow /\ item[o] = "DELIVERED" => delivery[o] = "DELIVERED"

\* The rows are well-typed, attempts stay within their limit, and items and
\* deliveries agree.
DeliveryInvariant == TypeOK /\ ItemFollowsDelivery

\* The orders whose deliveries are skipped for ever because a code was reopened.
Reopened == {o \in Orders : codes[o] = "REOPENED"}

\* The codes of a settled order are mailed and recorded, unless all attempts
\* are used up, the order stops being completed and paid, one of its codes is
\* reopened, or reopened orders, which every sweep lists anew, fill the sweep: a
\* callback that stops between settlement, claim and send, and an order whose
\* codes cannot be decrypted, hold up neither their own order nor the others.
SettledOrderIsMailed ==
  \A o \in Orders :
    pay[o] = "PAID" ~> \/ delivery[o] = "DELIVERED" \/ attempts[o] = MaxAttempts \/ ~Ready(o)
                       \/ o \in Reopened \/ Cardinality(Reopened) >= Batch
==============================================================================
