------------------------------- MODULE GameTopUp -------------------------------
(***************************************************************************)
(* Game top-up orders: creation, payment, the daily queue, the provider's   *)
(* submissions and status queries with retries and manual review, the       *)
(* customer's cancellation, the administrator's manual fallback and the     *)
(* completion e-mails.                                                      *)
(*                                                                         *)
(* An order has one item (createOrder), so items are identified with their  *)
(* orders.  Timestamps are kept as what the code asks of them: due, stale,  *)
(* window and mailDue.  claimItem and settleItem lock the item row, but     *)
(* read the order's paymentStatus without a lock: that read is a step of    *)
(* its own, what they decide on and write of the item another.  The payment *)
(* is reduced to the order's paymentStatus; GiftCardCheckout has its races. *)
(***************************************************************************)
EXTENDS PaymentStates, FiniteSets, Naturals

CONSTANTS
  Orders,
  Handlers,          \* requests and callbacks being served
  Workers,           \* runs of the top-up worker
  Admins,
  NoAdmin, NoOrder,
  MaxAttempts,       \* TOP_UP_MAX_PROVIDER_ATTEMPTS
  MaxMails,          \* TOP_UP_EMAIL_MAX_ATTEMPTS
  Verdicts,          \* the verdicts an administrator records on payments
  Stops,             \* the processes that may stop between two steps
  Scenarios          \* the values of scenario

Procs == Handlers \cup Workers \cup Admins

\* What is known of a behaviour.  prompt: no claim goes stale while its call runs.
\* steady: only requests stop, and not in the last provider attempt.  final: the
\* provider's failures are final, and its queries fail without an answer only, as
\* those of the mock, the one provider there is.
Scenario == [prompt : BOOLEAN, steady : BOOLEAN, final : BOOLEAN]

ASSUME TopUpConstants ==
  /\ MaxAttempts \in Nat \ {0} /\ MaxMails \in Nat \ {0}
  /\ NoAdmin \notin Admins /\ NoOrder \notin Orders
  /\ Verdicts \subseteq RefundVerdicts
  /\ Stops \subseteq Procs
  /\ Scenarios \subseteq Scenario

VARIABLES
  orderStatus,   \* orders.status
  orderPay,      \* orders.paymentStatus
  item,          \* order_items.deliveryStatus
  serial,        \* details.dailySerial with queueDate, 0 for null
  lastSerial,    \* daily_game_top_up_sequences.lastSerial of the day
  window,        \* details.cancellableUntil is in the future
  attempts,      \* details.providerAttempts
  due,           \* details.nextRetryAt is null or has passed
  stale,         \* details.processingStartedAt is older than the limit
  claimedBy,     \* details.processedByAdminId
  provider,      \* the provider's record under the order's fulfillmentKey
  mailed,        \* details.notificationSentAt is set
  mails,         \* details.notificationAttempts
  mailDue,       \* details.notificationLastAttemptAt is null or old enough
  scenario,      \* fixed by the initial state
  job            \* what each process is doing

orderVars == <<orderStatus, orderPay>>
queueVars == <<serial, lastSerial, window>>
attemptVars == <<attempts, due, stale, claimedBy>>
mailVars == <<mailed, mails, mailDue>>
vars == <<orderVars, item, queueVars, attemptVars, provider, mailVars, scenario, job>>

DeliveryStatus ==
  {"PENDING", "QUEUED", "PROCESSING", "PROVIDER_PENDING", "DELIVERED", "CANCELLED",
   "FAILED", "FAILED_RETRYABLE", "FAILED_FINAL", "MANUAL_REVIEW"}
Initial == {"PENDING", "QUEUED"}
Resolved == {"DELIVERED", "CANCELLED", "FAILED", "FAILED_FINAL", "MANUAL_REVIEW"}

\* The provider's record of an order's fulfillmentKey; REJECTED is a failure with
\* the flag retryable, after which the key may be submitted again.
Records == {"none", "PENDING", "SUCCESS", "FAILED", "REJECTED"}
Open == {"none", "REJECTED"}

\* A result, or an error: DOWN (retryable) and BROKEN (not retryable) say that
\* nothing is submitted, UNKNOWN stands for every error that does not say so.
Answers == {"SUCCESS", "PENDING", "FAILED", "REJECTED", "DOWN", "BROKEN", "UNKNOWN"}

Job == [step : {"idle", "claim", "locked", "call", "settle", "write", "notify", "send", "start"},
        order : Orders \cup {NoOrder}, op : {"none", "SUBMIT", "QUERY"},
        attempt : Nat, answer : Answers \cup {"none"}]

Idle == [step |-> "idle", order |-> NoOrder, op |-> "none", attempt |-> 0, answer |-> "none"]
At(p, step) == job[p].step = step
Calling(p) == job[p].step \in {"call", "settle", "write"}
Start(p, step, o) ==
  job' = [job EXCEPT ![p] = [step |-> step, order |-> o, op |-> "none", attempt |-> 0, answer |-> "none"]]
Finish(p) == job' = [job EXCEPT ![p] = Idle]
\* A transaction has read that the order is paid; a refund may come before it writes.
ReadPaid(p, step, next) ==
  /\ At(p, step) /\ orderPay[job[p].order] = "PAID"
  /\ job' = [job EXCEPT ![p].step = next]
  /\ UNCHANGED <<orderVars, item, queueVars, attemptVars, provider, mailVars, scenario>>

Init ==
  /\ orderStatus = [o \in Orders |-> NoRow]
  /\ orderPay = [o \in Orders |-> NoRow]
  /\ item = [o \in Orders |-> "PENDING"]
  /\ serial = [o \in Orders |-> 0]
  /\ lastSerial = 0
  /\ window = [o \in Orders |-> FALSE]
  /\ attempts = [o \in Orders |-> 0]
  /\ due = [o \in Orders |-> TRUE]
  /\ stale = [o \in Orders |-> FALSE]
  /\ claimedBy = [o \in Orders |-> NoAdmin]
  /\ provider = [o \in Orders |-> "none"]
  /\ mailed = [o \in Orders |-> FALSE]
  /\ mails = [o \in Orders |-> 0]
  /\ mailDue = [o \in Orders |-> TRUE]
  /\ scenario \in Scenarios
  /\ job = [p \in Procs |-> Idle]

------------------------------------------------------------------------------
(* The customer: creation and cancellation *)

\* createOrder's transaction; its checks of the catalogue are in GameCatalogue.
CreateOrder(o) ==
  /\ orderStatus[o] = NoRow /\ orderPay[o] = NoRow
  /\ orderStatus' = [orderStatus EXCEPT ![o] = "PENDING"]
  /\ orderPay' = [orderPay EXCEPT ![o] = "PENDING"]
  /\ UNCHANGED <<item, queueVars, attemptVars, provider, mailVars, job, scenario>>

Cancel(o) ==
  /\ orderPay[o] \in {"PENDING", "PAID"}
  /\ item[o] = "PENDING"
  /\ orderPay[o] = "PAID" => window[o]
  /\ item' = [item EXCEPT ![o] = "CANCELLED"]
  /\ orderStatus' = [orderStatus EXCEPT ![o] = "CANCELLED"]
  /\ UNCHANGED <<orderPay, queueVars, attemptVars, provider, mailVars, job, scenario>>

------------------------------------------------------------------------------
(* The payment, as far as top-up orders follow it *)

\* createPayment: an order without a payment row gets one.
StartPayment(o) ==
  /\ orderStatus[o] = "PENDING" /\ orderPay[o] = "PENDING"
  /\ orderPay' = [orderPay EXCEPT ![o] = "PROCESSING"]
  /\ UNCHANGED <<orderStatus, item, queueVars, attemptVars, provider, mailVars, job, scenario>>

\* markUnknown.
MarkUnknown(o) ==
  /\ orderPay[o] = "PROCESSING"
  /\ orderPay' = [orderPay EXCEPT ![o] = "UNKNOWN"]
  /\ UNCHANGED <<orderStatus, item, queueVars, attemptVars, provider, mailVars, job, scenario>>

FailFrom(o, statuses) ==
  /\ orderPay[o] \in statuses
  /\ \E status \in {"FAILED", "CANCELLED"} : orderPay' = [orderPay EXCEPT ![o] = status]
  /\ UNCHANGED <<orderStatus, item, queueVars, attemptVars, provider, mailVars, job, scenario>>

\* failPayment: nothing is released, so the order itself stays PENDING.
FailPayment(o) == FailFrom(o, {"PROCESSING", "UNKNOWN"})

\* assignQueueToPaidTopUpOrder, for one item: INSERT ... ON CONFLICT RETURNING.
Assign(o) ==
  /\ lastSerial' = lastSerial + 1
  /\ serial' = [serial EXCEPT ![o] = lastSerial + 1]
  /\ window' = [window EXCEPT ![o] = TRUE]

\* Mistake: a queued item is queued again.
AssignAgain(o) == IF item[o] = "PENDING" THEN Assign(o) ELSE UNCHANGED queueVars

AssignQueue(o) ==
  IF serial[o] = 0 /\ item[o] = "PENDING" THEN Assign(o) ELSE UNCHANGED queueVars

\* completePayment, also of a late payment, and the fulfilment that follows
\* its commit.
CompletePayment(p, o) ==
  /\ p \in Handlers /\ At(p, "idle")
  /\ orderPay[o] \in {"PROCESSING", "UNKNOWN"} \cup LateTerminal
  /\ orderPay' = [orderPay EXCEPT ![o] = "PAID"]
  /\ orderStatus' = [orderStatus EXCEPT ![o] = "CONFIRMED"]
  /\ AssignQueue(o)
  /\ Start(p, "claim", o)
  /\ UNCHANGED <<item, attemptVars, provider, mailVars, scenario>>

\* verifyAndProcess of a payment that is PAID already.
VerifyPaid(p, o) ==
  /\ p \in Handlers /\ At(p, "idle")
  /\ orderPay[o] = "PAID"
  /\ AssignQueue(o)
  /\ IF item[o] \in Initial THEN Start(p, "claim", o) ELSE UNCHANGED job
  /\ UNCHANGED <<orderVars, item, attemptVars, provider, mailVars, scenario>>

\* The administrator's verdict on a payment.
VerifyPaymentIssue(o, verdict) ==
  /\ orderPay[o] \in {"UNKNOWN", "PAID"} \cup LateTerminal \cup RefundVerdicts
  /\ PaymentTransitionAllowed(orderPay[o], verdict)
  /\ orderPay' = [orderPay EXCEPT ![o] = verdict]
  /\ orderStatus' = [orderStatus EXCEPT ![o] =
                       IF verdict = "REFUNDED" THEN "CANCELLED" ELSE "REFUND_PENDING"]
  /\ UNCHANGED <<item, queueVars, attemptVars, provider, mailVars, job, scenario>>

------------------------------------------------------------------------------
(* Fulfilment by the provider *)

\* claimItem, for a process that listed the order earlier and has read its payment.
ClaimIf(p, o, canSubmit, canQuery) ==
  /\ At(p, "locked") /\ job[p].order = o
  /\ claimedBy[o] = NoAdmin
  /\ canSubmit \/ canQuery
  /\ item' = [item EXCEPT ![o] = "PROCESSING"]
  /\ attempts' = [attempts EXCEPT ![o] = @ + 1]
  /\ due' = [due EXCEPT ![o] = FALSE]
  /\ stale' = [stale EXCEPT ![o] = FALSE]
  /\ orderStatus' = [orderStatus EXCEPT ![o] = "PROCESSING"]
  /\ job' = [job EXCEPT ![p] =
       [step |-> "call", order |-> o, op |-> IF canQuery THEN "QUERY" ELSE "SUBMIT",
        attempt |-> attempts[o] + 1, answer |-> "none"]]
  /\ UNCHANGED <<orderPay, queueVars, claimedBy, provider, mailVars, scenario>>

CanSubmit(o) == item[o] \in Initial \/ (item[o] = "FAILED_RETRYABLE" /\ due[o])
CanQuery(o) ==
  \/ item[o] = "PROVIDER_PENDING" /\ due[o]
  \/ item[o] = "PROCESSING" /\ stale[o]

\* Mistake: a stale claim is submitted again instead of queried.
ResubmitStale(p, o) == ClaimIf(p, o, CanSubmit(o) \/ CanQuery(o), FALSE)

ClaimItem(p, o) == ClaimIf(p, o, CanSubmit(o), CanQuery(o))

\* The claim finds nothing to do: the item went to somebody else.
ClaimRefused(p, o) ==
  /\ job[p].order = o
  /\ \/ At(p, "claim") /\ orderPay[o] # "PAID"
     \/ At(p, "locked") /\ (claimedBy[o] # NoAdmin \/ ~ (CanSubmit(o) \/ CanQuery(o)))
  /\ Finish(p)
  /\ UNCHANGED <<orderVars, item, queueVars, attemptVars, provider, mailVars, scenario>>

\* The provider's answer to the process, and its record after it.
Answered(p, answer, record) ==
  /\ provider' = [provider EXCEPT ![job[p].order] = record]
  /\ job' = [job EXCEPT ![p] = [step |-> "settle", order |-> @.order, op |-> @.op,
                                attempt |-> @.attempt, answer |-> answer]]
  /\ UNCHANGED <<orderVars, item, queueVars, attemptVars, mailVars, scenario>>

\* topUp: a known key is answered from the record; otherwise an error says that
\* nothing is submitted, or the provider records the request and answers, or
\* the answer is lost, before or after the request came.
TopUp(p) ==
  LET o == job[p].order IN
  /\ At(p, "call") /\ job[p].op = "SUBMIT"
  /\ IF provider[o] \notin Open THEN \E answer \in {provider[o], "UNKNOWN"} : Answered(p, answer, provider[o])
     ELSE \/ \E error \in {"DOWN", "BROKEN", "UNKNOWN"} : Answered(p, error, provider[o])
          \/ Answered(p, "UNKNOWN", "PENDING")
          \/ \E result \in {"SUCCESS", "PENDING", "FAILED"} : Answered(p, result, result)
          \/ ~ scenario.final /\ Answered(p, "REJECTED", "REJECTED")

\* queryTopUp: the answer is lost or there is no such request (both unknown), or
\* it tells the record; a pending one may have been resolved meanwhile.  Where an
\* error may say that nothing is submitted, it is true.
QueryTopUp(p) ==
  LET o == job[p].order IN
  /\ At(p, "call") /\ job[p].op = "QUERY"
  /\ \/ Answered(p, "UNKNOWN", provider[o])
     \/ provider[o] # "none" /\ Answered(p, provider[o], provider[o])
     \/ provider[o] = "PENDING" /\ \E result \in {"SUCCESS", "FAILED"} : Answered(p, result, result)
     \/ /\ ~ scenario.final
        /\ \/ provider[o] = "PENDING" /\ Answered(p, "REJECTED", "REJECTED")
           \/ provider[o] \in Open /\ \E error \in {"DOWN", "BROKEN"} : Answered(p, error, provider[o])

\* The status settleItem derives from an answer.
StatusFor(answer, attempt, unknownMeans) ==
  IF answer = "SUCCESS" THEN "DELIVERED"
  ELSE IF attempt >= MaxAttempts THEN "MANUAL_REVIEW"
  ELSE CASE answer \in {"PENDING", "UNKNOWN"} -> unknownMeans
         [] answer \in {"REJECTED", "DOWN"} -> "FAILED_RETRYABLE"
         [] answer \in {"FAILED", "BROKEN"} -> "FAILED_FINAL"

\* Mistake: an unknown answer is taken for a failure.
GiveUpUnknown(answer, attempt) == StatusFor(answer, attempt, "FAILED_FINAL")

FinalStatus(answer, attempt) == StatusFor(answer, attempt, "PROVIDER_PENDING")

SettleTo(p, o, final) ==
  /\ item' = [item EXCEPT ![o] = final]
  /\ due' = [due EXCEPT ![o] = final \in Resolved]
  /\ orderStatus' = [orderStatus EXCEPT ![o] =
       CASE final = "DELIVERED" -> "COMPLETED"
         [] final \in {"MANUAL_REVIEW", "FAILED_FINAL"} -> "MANUAL_REVIEW"
         [] OTHER -> @]
  /\ IF final = "DELIVERED" THEN Start(p, "notify", o) ELSE Finish(p)
  /\ UNCHANGED <<orderPay, queueVars, attempts, stale, claimedBy, provider, mailVars, scenario>>

\* settleItem: whoever's claim it is, if the order was PAID and the item is PROCESSING.
SettleItem(p, o) ==
  /\ At(p, "write") /\ job[p].order = o
  /\ item[o] = "PROCESSING"
  /\ SettleTo(p, o, FinalStatus(job[p].answer, job[p].attempt))

\* The order is no longer paid, or the item no longer PROCESSING: the answer is dropped.
SettleRefused(p, o) ==
  /\ job[p].order = o
  /\ (At(p, "settle") /\ orderPay[o] # "PAID") \/ (At(p, "write") /\ item[o] # "PROCESSING")
  /\ Finish(p)
  /\ UNCHANGED <<orderVars, item, queueVars, attemptVars, provider, mailVars, scenario>>

RetryListed(p, o, listed) ==
  /\ p \in Workers /\ At(p, "idle")
  /\ orderPay[o] = "PAID"
  /\ attempts[o] < MaxAttempts /\ claimedBy[o] = NoAdmin
  /\ listed
  /\ Start(p, "claim", o)
  /\ UNCHANGED <<orderVars, item, queueVars, attemptVars, provider, mailVars, scenario>>

\* Mistake: interrupted claims are not listed.
RetryNotStale(p, o) == RetryListed(p, o, item[o] # "PROCESSING" /\ (CanSubmit(o) \/ CanQuery(o)))

\* retryGameTopUpFulfillments picks the order.
RetryScan(p, o) == RetryListed(p, o, CanSubmit(o) \/ CanQuery(o))

------------------------------------------------------------------------------
(* The administrator's fallback *)

\* startProcessing reads the order without a lock...
StartProcessingRead(a, o) ==
  /\ a \in Admins /\ At(a, "idle")
  /\ orderPay[o] = "PAID" /\ serial[o] # 0
  /\ Start(a, "start", o)
  /\ UNCHANGED <<orderVars, item, queueVars, attemptVars, provider, mailVars, scenario>>

StartIn(a, o, statuses) ==
  /\ At(a, "start") /\ job[a].order = o
  /\ IF item[o] \in statuses
       THEN /\ item' = [item EXCEPT ![o] = "PROCESSING"]
            /\ stale' = [stale EXCEPT ![o] = FALSE]
            /\ claimedBy' = [claimedBy EXCEPT ![o] = a]
            /\ orderStatus' = [orderStatus EXCEPT ![o] = "PROCESSING"]
       ELSE UNCHANGED <<item, stale, claimedBy, orderStatus>>
  /\ Finish(a)
  /\ UNCHANGED <<orderPay, queueVars, attempts, due, provider, mailVars, scenario>>

\* Mistake: an administrator may take over an item that waits for a retry.
TakeOver(a, o) == StartIn(a, o, {"PENDING", "FAILED_RETRYABLE", "PROVIDER_PENDING"})

\* ...and claims the item if it is still PENDING.
StartProcessing(a, o) == StartIn(a, o, {"PENDING"})

\* complete, after which the controller notifies.
Complete(a, o) ==
  /\ a \in Admins /\ At(a, "idle")
  /\ item[o] = "PROCESSING" /\ claimedBy[o] = a
  /\ item' = [item EXCEPT ![o] = "DELIVERED"]
  /\ orderStatus' = [orderStatus EXCEPT ![o] = "COMPLETED"]
  /\ Start(a, "notify", o)
  /\ UNCHANGED <<orderPay, queueVars, attemptVars, provider, mailVars, scenario>>

\* fail: the order keeps its status.
Fail(a, o) ==
  /\ a \in Admins /\ At(a, "idle")
  /\ item[o] = "PROCESSING" /\ claimedBy[o] = a
  /\ item' = [item EXCEPT ![o] = "FAILED"]
  /\ UNCHANGED <<orderVars, queueVars, attemptVars, provider, mailVars, job, scenario>>

------------------------------------------------------------------------------
(* Completion e-mails *)

CanNotify(o) ==
  /\ orderStatus[o] = "COMPLETED" /\ orderPay[o] = "PAID" /\ item[o] = "DELIVERED"
  /\ ~ mailed[o] /\ mails[o] < MaxMails /\ mailDue[o]

NotifyListed(p, o, listed) ==
  /\ p \in Workers /\ At(p, "idle")
  /\ listed
  /\ Start(p, "notify", o)
  /\ UNCHANGED <<orderVars, item, queueVars, attemptVars, provider, mailVars, scenario>>

\* Mistake: an order whose first e-mail failed is not listed.
NotifyOnce(p, o) == NotifyListed(p, o, CanNotify(o) /\ mails[o] = 0)

\* retryTopUpNotifications picks the order.
NotifyScan(p, o) == NotifyListed(p, o, CanNotify(o))

\* notifyOrderCompletion up to the mail provider.
Notify(p, o) ==
  /\ At(p, "notify") /\ job[p].order = o
  /\ CanNotify(o)
  /\ mails' = [mails EXCEPT ![o] = @ + 1]
  /\ mailDue' = [mailDue EXCEPT ![o] = FALSE]
  /\ Start(p, "send", o)
  /\ UNCHANGED <<orderVars, item, queueVars, attemptVars, provider, mailed, scenario>>

NotifyRefused(p, o) ==
  /\ At(p, "notify") /\ job[p].order = o
  /\ ~ CanNotify(o)
  /\ Finish(p)
  /\ UNCHANGED <<orderVars, item, queueVars, attemptVars, provider, mailVars, scenario>>

\* The mail provider accepts the e-mail, and its acceptance is recorded.
MailSent(p, o) ==
  /\ At(p, "send") /\ job[p].order = o
  /\ mailed' = [mailed EXCEPT ![o] = TRUE]
  /\ Finish(p)
  /\ UNCHANGED <<orderVars, item, queueVars, attemptVars, provider, mails, mailDue, scenario>>

\* It refuses, and only the reason is recorded.
MailFails(p) ==
  /\ At(p, "send")
  /\ Finish(p)
  /\ UNCHANGED <<orderVars, item, queueVars, attemptVars, provider, mailVars, scenario>>

------------------------------------------------------------------------------
(* Time and interruptions *)

RetryBecomesDue(o) ==
  /\ item[o] \in {"FAILED_RETRYABLE", "PROVIDER_PENDING"} /\ ~ due[o]
  /\ due' = [due EXCEPT ![o] = TRUE]
  /\ UNCHANGED <<orderVars, item, queueVars, attempts, stale, claimedBy, provider, mailVars, job, scenario>>

ClaimBecomesStale(o) ==
  /\ item[o] = "PROCESSING" /\ ~ stale[o]
  /\ ~ scenario.prompt \/ ~ \E p \in Procs : Calling(p) /\ job[p].order = o
  /\ stale' = [stale EXCEPT ![o] = TRUE]
  /\ UNCHANGED <<orderVars, item, queueVars, attempts, due, claimedBy, provider, mailVars, job, scenario>>

WindowCloses(o) ==
  /\ window[o]
  /\ window' = [window EXCEPT ![o] = FALSE]
  /\ UNCHANGED <<orderVars, item, serial, lastSerial, attemptVars, provider, mailVars, job, scenario>>

MailBecomesDue(o) ==
  /\ ~ mailDue[o]
  /\ mailDue' = [mailDue EXCEPT ![o] = TRUE]
  /\ UNCHANGED <<orderVars, item, queueVars, attemptVars, provider, mailed, mails, job, scenario>>

\* A process stops between two steps: the rows stay as they are.
Abandon(p) ==
  /\ p \in Stops /\ ~ At(p, "idle")
  /\ scenario.steady => p \in Handlers /\ ~ (Calling(p) /\ job[p].attempt >= MaxAttempts)
  /\ Finish(p)
  /\ UNCHANGED <<orderVars, item, queueVars, attemptVars, provider, mailVars, scenario>>

\* The reads of a claim and a settlement, and the call between them.
Provide(p) ==
  \/ ReadPaid(p, "claim", "locked") \/ ReadPaid(p, "settle", "write")
  \/ TopUp(p) \/ QueryTopUp(p)

Work(p, o) ==
  \/ ClaimItem(p, o) \/ ClaimRefused(p, o)
  \/ SettleItem(p, o) \/ SettleRefused(p, o)
  \/ Notify(p, o) \/ NotifyRefused(p, o) \/ MailSent(p, o)

Next ==
  \/ \E o \in Orders :
       \/ CreateOrder(o) \/ Cancel(o) \/ StartPayment(o) \/ MarkUnknown(o) \/ FailPayment(o)
       \/ RetryBecomesDue(o) \/ ClaimBecomesStale(o) \/ WindowCloses(o) \/ MailBecomesDue(o)
       \/ \E verdict \in Verdicts : VerifyPaymentIssue(o, verdict)
       \/ \E p \in Procs :
            \/ CompletePayment(p, o) \/ VerifyPaid(p, o)
            \/ RetryScan(p, o) \/ NotifyScan(p, o)
            \/ StartProcessingRead(p, o) \/ StartProcessing(p, o)
            \/ Complete(p, o) \/ Fail(p, o)
            \/ Work(p, o)
  \/ \E p \in Procs : Provide(p) \/ MailFails(p) \/ Abandon(p)

Spec == Init /\ [][Next]_vars

\* Time passes, a process that does not stop goes on, and the worker's interval
\* fires; requests, the administrator and the payment may do what they like.
FairSpec ==
  /\ Spec
  /\ \A o \in Orders :
       /\ WF_vars(RetryBecomesDue(o)) /\ WF_vars(ClaimBecomesStale(o))
       /\ WF_vars(MailBecomesDue(o))
       /\ \A p \in Procs : WF_vars(Work(p, o))
       /\ \A w \in Workers : SF_vars(RetryScan(w, o)) /\ SF_vars(NotifyScan(w, o))
  /\ \A p \in Procs : WF_vars(Provide(p)) /\ WF_vars(MailFails(p))

------------------------------------------------------------------------------
(* Properties *)

TypeOK ==
  /\ orderStatus \in [Orders -> OrderStatus \cup {NoRow}]
  /\ orderPay \in [Orders -> PaymentStatus \cup {NoRow}]
  /\ item \in [Orders -> DeliveryStatus]
  /\ serial \in [Orders -> Nat] /\ lastSerial \in Nat
  /\ window \in [Orders -> BOOLEAN]
  /\ attempts \in [Orders -> Nat]
  /\ due \in [Orders -> BOOLEAN] /\ stale \in [Orders -> BOOLEAN]
  /\ claimedBy \in [Orders -> Admins \cup {NoAdmin}]
  /\ provider \in [Orders -> Records]
  /\ mailed \in [Orders -> BOOLEAN] /\ mails \in [Orders -> Nat]
  /\ mailDue \in [Orders -> BOOLEAN] /\ scenario \in Scenarios
  /\ job \in [Procs -> Job]

\* A submission of the order is on its way to the provider, or its answer is.
Submitting(p, o) ==
  job[p].order = o /\ job[p].op = "SUBMIT" /\ Calling(p)

\* Either no claim goes stale under a call, or failures are final.  settleItem does
\* not ask whose claim it settles: where neither holds, an old retryable failure or
\* a query's error can free an item for a second submission while a newer one runs.
Orderly == scenario.prompt \/ scenario.final

\* The provider never gets a second submission of an order while the first is
\* unanswered, or once it has a record of it that is not a retryable failure:
\* callbacks, a second verification and the worker may list the same item, and
\* answers come in any order, but what may have been submitted is only queried.
OneSubmissionAtATime ==
  \A o \in Orders, p \in Procs :
    Orderly /\ Submitting(p, o) =>
      /\ job[p].step = "call" => provider[o] \in Open
      /\ \A q \in Procs : Submitting(q, o) => q = p

\* What the store records of an order is what happened at the provider: a delivery
\* always, also when the answer that settled the item was that of an older claim;
\* an order that failed or may be retried is neither delivered nor pending there.
OutcomeIsTrue ==
  \A o \in Orders :
    /\ item[o] = "DELIVERED" /\ claimedBy[o] = NoAdmin => provider[o] = "SUCCESS"
    /\ Orderly /\ item[o] = "FAILED_FINAL" => provider[o] \in Open \cup {"FAILED"}
    /\ Orderly /\ item[o] = "FAILED_RETRYABLE" => provider[o] \in Open

\* Only orders that were paid reach the provider, and a failed payment leaves
\* the item untouched so that a late payment can still be served.
UnpaidIsNotSubmitted ==
  \A o \in Orders :
    orderPay[o] \in {NoRow, "PENDING", "PROCESSING", "UNKNOWN"} \cup LateTerminal =>
      /\ provider[o] = "none" /\ attempts[o] = 0
      /\ item[o] \in {"PENDING", "CANCELLED"}

\* What is recorded of an order is well-typed, true, and never ahead of its
\* payment.
TopUpInvariant == TypeOK /\ OutcomeIsTrue /\ UnpaidIsNotSubmitted

\* No two orders have the same place in the day's queue, however many
\* settlements assign places at once.
SerialsAreUnique ==
  \A o1, o2 \in Orders : serial[o1] = serial[o2] /\ serial[o1] # 0 => o1 = o2

\* An order keeps its place in the queue, and its cancellation window is not
\* opened again, when callbacks and verifications of the payment repeat.
PlaceIsKept ==
  [][\A o \in Orders :
       serial[o] # 0 => serial'[o] = serial[o] /\ (window'[o] => window[o])]_vars

Phase(o) ==
  CASE item[o] \in Initial -> "open"
    [] item[o] \in {"PROCESSING", "PROVIDER_PENDING", "FAILED_RETRYABLE"} -> "working"
    [] item[o] = "DELIVERED" -> "delivered"
    [] item[o] \in {"FAILED", "FAILED_FINAL"} -> "failed"
    [] item[o] = "MANUAL_REVIEW" -> "review"
    [] item[o] = "CANCELLED" -> "cancelled"
Channel(o) ==
  IF claimedBy[o] # NoAdmin THEN "admin" ELSE IF attempts[o] > 0 THEN "provider" ELSE "none"

\* Customer, provider and administrators compete for the item, but one of them
\* gets it for good and its outcome is final.
Fulfilment == INSTANCE FulfilmentChannel
                WITH phase <- [o \in Orders |-> Phase(o)],
                     channel <- [o \in Orders |-> Channel(o)]
ImplementsFulfilment == Fulfilment!Spec

\* A paid order does not stay with the provider for ever: lost answers, stopped
\* requests and outages end in a delivery, a failure or a manual review, unless
\* an administrator takes it over or the money goes back.
PaidOrderIsResolved ==
  \A o \in Orders :
    scenario.prompt /\ scenario.steady /\ orderPay[o] = "PAID" ~>
      item[o] \in Resolved \/ claimedBy[o] # NoAdmin \/ orderPay[o] # "PAID"

\* The customer of a completed order is told, as long as e-mail attempts are
\* left, also when the e-mail that the completion triggers fails or its
\* process stops before it is recorded.
CompletionIsMailed ==
  \A o \in Orders :
    scenario.prompt /\ scenario.steady /\ orderStatus[o] = "COMPLETED" /\ orderPay[o] = "PAID" ~>
      mailed[o] \/ mails[o] >= MaxMails \/ orderPay[o] # "PAID"
==============================================================================
