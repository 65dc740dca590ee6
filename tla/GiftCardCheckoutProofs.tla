------------------------ MODULE GiftCardCheckoutProofs ------------------------
(* Theorems about GiftCardCheckout, for any number of orders, codes, items,   *)
(* handlers and workers.                                                       *)
(*                                                                             *)
(* The inductive invariant speaks of the type of the state, of each code, of  *)
(* each order and of each process.  Four kinds of step move codes: a purchase,*)
(* a release, a settlement from the reservation and a late settlement.  Every *)
(* other step leaves the stock alone and only moves orders and payments to    *)
(* statuses that promise less: see StockIsStill.                               *)
(*                                                                             *)
(* Order and payment move together in every step but two (RowsStayAgreed), and *)
(* a process that records a failure has the gateway's word for it              *)
(* (FailuresAreReported).                                                      *)
EXTENDS GiftCardCheckout, TLAPS

OrderInv(o) ==
  /\ orderStatus[o] = NoRow => pay[o] = NoRow /\ HeldBy(o) = {} /\ SoldTo(o) = {}
  /\ pay[o] = NoRow => gateway[o] = "NONE"
  /\ orderPay[o] \in Payable => Fills(HeldBy(o), o) /\ SoldTo(o) = {}
  /\ orderPay[o] = "PAID" => Fills(SoldTo(o), o) /\ HeldBy(o) = {}
  /\ \/ HeldBy(o) = {} /\ SoldTo(o) = {}
     \/ Fills(HeldBy(o), o) /\ SoldTo(o) = {}
     \/ Fills(SoldTo(o), o) /\ HeldBy(o) = {}
  /\ SoldTo(o) # {} => gateway[o] \in Captured
  /\ pay[o] \in LateTerminal => HeldBy(o) = {} /\ SoldTo(o) = {}

OrdersInv == \A o \in Orders : OrderInv(o)

IInv == TypeOK /\ CodeColumnsAgree /\ OrdersInv /\ JobsAreSound

------------------------------------------------------------------------------
(* Processes *)

\* The values of a job that the three job operators produce.
LEMMA StartedJob ==
  ASSUME job \in [Procs -> Job], NEW p \in Procs, NEW step \in Step,
         NEW o \in Orders, NEW sweep \in BOOLEAN, Start(p, step, o, sweep)
  PROVE  /\ job' \in [Procs -> Job]
         /\ job'[p].step = step /\ job'[p].order = o /\ job'[p].carry = "none"
         /\ \A q \in Procs : q # p => job'[q] = job[q]
  BY DEF Start, Job

LEMMA ContinuedJob ==
  ASSUME job \in [Procs -> Job], NEW p \in Procs, NEW step \in Step,
         NEW carry \in {"none", "FAILED", "CANCELLED"} \cup Reason,
         Continue(p, step, carry)
  PROVE  /\ job' \in [Procs -> Job]
         /\ job'[p].step = step /\ job'[p].order = job[p].order
         /\ job'[p].carry = carry
         /\ \A q \in Procs : q # p => job'[q] = job[q]
  BY DEF Continue, Job

LEMMA FinishedJob ==
  ASSUME job \in [Procs -> Job], NEW p \in Procs, Finish(p)
  PROVE  /\ job' \in [Procs -> Job]
         /\ job'[p].step = "idle"
         /\ \A q \in Procs : q # p => job'[q] = job[q]
  BY DEF Finish, Job, Idle, Step

\* The jobs after a step are sound when orders are not deleted, captured money
\* is not uncaptured, and the one process that moved has a sound job.
LEMMA JobsStaySound ==
  ASSUME JobsAreSound, NEW p \in Procs,
         \A q \in Procs : q # p => job'[q] = job[q],
         \A o \in Orders : orderStatus[o] # NoRow => orderStatus'[o] # NoRow,
         \A o \in Orders : gateway[o] \in Captured => gateway'[o] \in Captured,
         SoundJob(job[p])'
  PROVE  JobsAreSound'
<1> SUFFICES ASSUME NEW q \in Procs, q # p PROVE SoundJob(job[q])'
  BY DEF JobsAreSound
<1> QED
  BY DEF JobsAreSound, SoundJob

------------------------------------------------------------------------------
(* Orders *)

\* No order is created or promised more than before.
Demoted(o) ==
  /\ orderStatus[o] # NoRow <=> orderStatus'[o] # NoRow
  /\ orderStatus[o] = NoRow => pay'[o] = pay[o]
  /\ orderPay'[o] \in Payable => orderPay[o] \in Payable
  /\ orderPay'[o] = "PAID" => orderPay[o] = "PAID"
  /\ pay'[o] \in LateTerminal => pay[o] \in LateTerminal
  /\ pay'[o] = NoRow => pay[o] = NoRow /\ gateway'[o] = gateway[o]
  /\ gateway[o] \in Captured => gateway'[o] \in Captured

\* A step that does not move codes and promises no more keeps every order's
\* part of the invariant.
LEMMA StockIsStill ==
  ASSUME CodeColumnsAgree, OrdersInv,
         UNCHANGED <<codeStatus, codeOwner, delivery>>,
         \A o \in Orders : Demoted(o)
  PROVE  CodeColumnsAgree' /\ OrdersInv'
<1>1. CodeColumnsAgree'
  BY DEF CodeColumnsAgree
<1>2. ASSUME NEW o \in Orders PROVE OrderInv(o)'
  <2>1. HeldBy(o)' = HeldBy(o) /\ SoldTo(o)' = SoldTo(o)
    BY DEF HeldBy, SoldTo
  <2>2. OrderInv(o) /\ Demoted(o)
    BY DEF OrdersInv
  <2> QED
    BY <2>1, <2>2 DEF OrderInv, Demoted, Fills, OfDenom
<1> QED
  BY <1>1, <1>2 DEF OrdersInv

------------------------------------------------------------------------------
(* Steps that only move a process *)

\* The process p is the only one that moves, and the database is as it was.
LEMMA OnlyAJob ==
  ASSUME IInv, NEW p \in Procs,
         UNCHANGED <<orderVars, stockVars, paymentVars, gateway>>,
         job' \in [Procs -> Job],
         \A q \in Procs : q # p => job'[q] = job[q],
         SoundJob(job[p])'
  PROVE  IInv'
<1>1. TypeOK'
  BY DEF IInv, TypeOK, orderVars, stockVars, paymentVars
<1>2. \A o \in Orders : Demoted(o)
  BY DEF Demoted, orderVars, paymentVars
<1>3. CodeColumnsAgree' /\ OrdersInv'
  BY <1>2, StockIsStill DEF IInv, stockVars
<1>4. JobsAreSound'
  BY JobsStaySound DEF IInv, orderVars
<1> QED
  BY <1>1, <1>3, <1>4 DEF IInv

\* A busy process has an order that exists, and its job has its type.
LEMMA BusyJob ==
  ASSUME IInv, NEW p \in Procs, NEW o, NEW step, Busy(p, step, o), step # "idle"
  PROVE  /\ job \in [Procs -> Job] /\ o \in Orders
         /\ job[p].step = step /\ job[p].order = o /\ job[p] \in Job
         /\ orderStatus[o] # NoRow
         /\ step \in {"complete", "refund"} => gateway[o] \in Captured
         /\ step \in {"mark", "markWrite"} => job[p].carry \in Reason
<1>1. SoundJob(job[p]) /\ job \in [Procs -> Job]
  BY DEF IInv, JobsAreSound, TypeOK
<1> QED
  BY <1>1 DEF SoundJob, Busy

\* A process that continues with the order it has keeps a sound job.
LEMMA ContinueKeeps ==
  ASSUME IInv, NEW p \in Procs, NEW o, NEW from, NEW step \in Step,
         NEW carry \in {"none", "FAILED", "CANCELLED"} \cup Reason,
         Busy(p, from, o), from # "idle",
         Continue(p, step, carry),
         UNCHANGED <<orderVars, stockVars, paymentVars, gateway>>,
         step \in {"complete", "refund"} => gateway[o] \in Captured,
         step \in {"mark", "markWrite"} => carry \in Reason
  PROVE  IInv'
<1>1. /\ job \in [Procs -> Job] /\ o \in Orders
      /\ job[p].order = o /\ orderStatus[o] # NoRow
  BY BusyJob
<1>2. /\ job' \in [Procs -> Job]
      /\ job'[p].step = step /\ job'[p].order = o /\ job'[p].carry = carry
      /\ \A q \in Procs : q # p => job'[q] = job[q]
  BY <1>1, ContinuedJob
<1>3. SoundJob(job[p])'
  BY <1>1, <1>2 DEF SoundJob, orderVars
<1> QED
  BY <1>2, <1>3, OnlyAJob

\* A process that starts on an existing order, with nothing learnt yet.
LEMMA StartKeeps ==
  ASSUME IInv, NEW p \in Procs, NEW o \in Orders, NEW sweep \in BOOLEAN,
         NEW step \in Step \ {"complete", "refund", "mark", "markWrite"},
         Start(p, step, o, sweep), orderStatus[o] # NoRow,
         UNCHANGED <<orderVars, stockVars, paymentVars, gateway>>
  PROVE  IInv'
<1>1. /\ job' \in [Procs -> Job]
      /\ job'[p].step = step /\ job'[p].order = o
      /\ \A q \in Procs : q # p => job'[q] = job[q]
  BY StartedJob DEF IInv, TypeOK
<1>2. SoundJob(job[p])'
  BY <1>1 DEF SoundJob, orderVars
<1> QED
  BY <1>1, <1>2, OnlyAJob

\* A process that stops.
LEMMA FinishKeeps ==
  ASSUME IInv, NEW p \in Procs, Finish(p),
         UNCHANGED <<orderVars, stockVars, paymentVars, gateway>>
  PROVE  IInv'
<1>1. /\ job' \in [Procs -> Job]
      /\ job'[p].step = "idle"
      /\ \A q \in Procs : q # p => job'[q] = job[q]
  BY FinishedJob DEF IInv, TypeOK
<1>2. SoundJob(job[p])'
  BY <1>1 DEF SoundJob
<1> QED
  BY <1>1, <1>2, OnlyAJob

\* An order that has a payment row exists.
LEMMA PaidOrdersExist ==
  ASSUME IInv, NEW o \in Orders, pay[o] # NoRow
  PROVE  orderStatus[o] # NoRow
  BY DEF IInv, OrdersInv, OrderInv

\* The steps of a handler or worker that write nothing.
JobStep(p, o) ==
  \/ CreatePaymentFails(p, o)
  \/ ReleaseUninitiatedRead(p, o)
  \/ InitiationRejected(p, o)
  \/ InitiationUnconfirmed(p, o)
  \/ VerifyAndProcess(p, o)
  \/ ReconcileUnknownPayments(p, o)
  \/ ReconcileExpiredReservations(p, o)
  \/ QueryFails(p, o)
  \/ QueryAnswered(p, o)
  \/ CompletionRefused(p, o)
  \/ LateInventoryUnavailable(p, o)
  \/ RereadAfterFail(p, o)
  \/ MarkUnknownRead(p, o)
  \/ Abandon(p)

LEMMA JobStepKeeps ==
  ASSUME IInv, NEW p \in Procs, NEW o \in Orders, JobStep(p, o)
  PROVE  IInv'
<1> USE DEF Step, Reason
<1>1. CASE CreatePaymentFails(p, o)
  <2>1. orderStatus[o] # NoRow
    BY <1>1, BusyJob DEF CreatePaymentFails, InitiationThrows
  <2> QED
    BY <1>1, <2>1, StartKeeps, FinishKeeps DEF CreatePaymentFails, InitiationThrows
<1>2. CASE ReleaseUninitiatedRead(p, o)
  BY <1>2, ContinueKeeps, FinishKeeps DEF ReleaseUninitiatedRead
<1>3. CASE InitiationRejected(p, o)
  BY <1>3, ContinueKeeps DEF InitiationRejected
<1>4. CASE InitiationUnconfirmed(p, o)
  BY <1>4, ContinueKeeps DEF InitiationUnconfirmed
<1>5. CASE VerifyAndProcess(p, o)
  <2>1. orderStatus[o] # NoRow
    BY <1>5, PaidOrdersExist DEF VerifyAndProcess, Payable, LateTerminal, NoRow
  <2> QED
    BY <1>5, <2>1, StartKeeps DEF VerifyAndProcess
<1>6. CASE ReconcileUnknownPayments(p, o)
  <2>1. orderStatus[o] # NoRow
    BY <1>6, PaidOrdersExist DEF ReconcileUnknownPayments, NoRow
  <2> QED
    BY <1>6, <2>1, StartKeeps DEF ReconcileUnknownPayments
<1>7. CASE ReconcileExpiredReservations(p, o)
  <2>1. orderStatus[o] # NoRow
    BY <1>7, PaidOrdersExist DEF ReconcileExpiredReservations, Payable, NoRow
  <2> QED
    BY <1>7, <2>1, StartKeeps DEF ReconcileExpiredReservations
<1>8. CASE QueryFails(p, o)
  <2>1. job \in [Procs -> Job] /\ job[p].order = o /\ orderStatus[o] # NoRow
    BY <1>8, BusyJob DEF QueryFails
  <2>2. /\ job' \in [Procs -> Job]
        /\ job'[p].step = "mark" /\ job'[p].order = o /\ job'[p].carry = "unavailable"
        /\ \A q \in Procs : q # p => job'[q] = job[q]
    BY <1>8, <2>1 DEF QueryFails, Job
  <2>3. SoundJob(job[p])'
    BY <1>8, <2>1, <2>2 DEF QueryFails, SoundJob, orderVars
  <2> QED
    BY <1>8, <2>2, <2>3, OnlyAJob DEF QueryFails
<1>9. CASE QueryAnswered(p, o)
  BY <1>9, ContinueKeeps DEF QueryAnswered, Dispatch
<1>10. CASE CompletionRefused(p, o)
  BY <1>10, FinishKeeps DEF CompletionRefused
<1>11. CASE LateInventoryUnavailable(p, o)
  <2>1. gateway[o] \in Captured
    BY <1>11, BusyJob DEF LateInventoryUnavailable
  <2> QED
    BY <1>11, <2>1, ContinueKeeps DEF LateInventoryUnavailable
<1>12. CASE RereadAfterFail(p, o)
  BY <1>12, ContinueKeeps, FinishKeeps DEF RereadAfterFail
<1>13. CASE MarkUnknownRead(p, o)
  <2>1. job[p].carry \in Reason
    BY <1>13, BusyJob DEF MarkUnknownRead
  <2> QED
    BY <1>13, <2>1, ContinueKeeps, FinishKeeps DEF MarkUnknownRead, AfterMark
<1>14. CASE Abandon(p)
  BY <1>14, FinishKeeps DEF Abandon
<1> QED
  BY <1>1, <1>2, <1>3, <1>4, <1>5, <1>6, <1>7, <1>8, <1>9, <1>10, <1>11, <1>12,
     <1>13, <1>14 DEF JobStep

------------------------------------------------------------------------------
(* Steps that write payments and orders, and leave the stock alone *)

\* Such a step keeps the invariant when it keeps the types and the jobs.
LEMMA StillKeeps ==
  ASSUME IInv, TypeOK', JobsAreSound',
         UNCHANGED <<codeStatus, codeOwner, delivery>>,
         \A o \in Orders : Demoted(o)
  PROVE  IInv'
  BY StockIsStill DEF IInv

\* What such a step does to the jobs, when p is the process that moved.
LEMMA MoverKeepsJobs ==
  ASSUME IInv, NEW p \in Procs, \A o \in Orders : Demoted(o),
         \A q \in Procs : q # p => job'[q] = job[q],
         SoundJob(job[p])'
  PROVE  JobsAreSound'
  BY JobsStaySound DEF IInv, Demoted

\* What such a step does to the jobs, when no process moved.
LEMMA NoMoverKeepsJobs ==
  ASSUME IInv, job' = job, \A o \in Orders : Demoted(o)
  PROVE  JobsAreSound'
  BY DEF IInv, Demoted, JobsAreSound, SoundJob

LEMMA CreatePaymentKeeps ==
  ASSUME IInv, NEW p \in Procs, NEW o \in Orders, CreatePayment(p, o)
  PROVE  IInv'
<1> USE DEF CreatePayment, InitiateAgain
<1>1. /\ job' \in [Procs -> Job]
      /\ job'[p].step = "gateway" /\ job'[p].order = o
      /\ \A q \in Procs : q # p => job'[q] = job[q]
  BY StartedJob DEF IInv, TypeOK, Step
<1>2. TypeOK'
  BY <1>1 DEF IInv, TypeOK, PaymentStatus, Payable, GatewayState, stockVars
<1>3. \A q \in Orders : Demoted(q)
  <2>1. gateway[o] = "NONE"
    BY DEF IInv, OrdersInv, OrderInv
  <2> QED
    BY <2>1 DEF IInv, TypeOK, Demoted, Payable, LateTerminal, NoRow, Captured
<1>4. SoundJob(job[p])'
  BY <1>1 DEF SoundJob, NoRow
<1> QED
  BY <1>1, <1>2, <1>3, <1>4, MoverKeepsJobs, StillKeeps DEF stockVars

LEMMA StoreUrlKeeps ==
  ASSUME IInv, NEW p \in Procs, NEW o \in Orders,
         StorePaymentUrl(p, o) \/ StoreAttemptUrl(p, o)
  PROVE  IInv'
<1> USE DEF StorePaymentUrl, StoreAttemptUrl
<1>1. job \in [Procs -> Job] /\ job[p].order = o /\ orderStatus[o] # NoRow
  BY BusyJob
<1>2. /\ job' \in [Procs -> Job]
      /\ job'[p].step \in {"attempt", "idle"}
      /\ job'[p].step = "attempt" => job'[p].order = o
      /\ \A q \in Procs : q # p => job'[q] = job[q]
  BY <1>1, ContinuedJob, FinishedJob DEF Step
<1>3. TypeOK'
  BY <1>2 DEF IInv, TypeOK, PaymentStatus, Payable, orderVars, stockVars
<1>4. \A q \in Orders : Demoted(q)
  BY DEF Demoted, orderVars
<1>5. SoundJob(job[p])'
  BY <1>1, <1>2 DEF SoundJob, orderVars
<1> QED
  BY <1>2, <1>3, <1>4, <1>5, MoverKeepsJobs, StillKeeps DEF stockVars

LEMMA MarkRefundPendingKeeps ==
  ASSUME IInv, NEW p \in Procs, NEW o \in Orders, MarkRefundPending(p, o)
  PROVE  IInv'
<1> USE DEF MarkRefundPending
<1>1. orderStatus[o] # NoRow
  BY BusyJob
<1>2. /\ job' \in [Procs -> Job]
      /\ job'[p].step = "idle"
      /\ \A q \in Procs : q # p => job'[q] = job[q]
  BY FinishedJob DEF IInv, TypeOK
<1>3. TypeOK'
  BY <1>2 DEF IInv, TypeOK, PaymentStatus, OrderStatus, Reason, RefundVerdicts,
              orderVars, stockVars, paymentVars
<1>4. \A q \in Orders : Demoted(q)
  BY <1>1 DEF IInv, TypeOK, Demoted, Payable, LateTerminal, NoRow, orderVars, paymentVars
<1>5. SoundJob(job[p])'
  BY <1>2 DEF SoundJob
<1> QED
  BY <1>2, <1>3, <1>4, <1>5, MoverKeepsJobs, StillKeeps DEF stockVars

LEMMA MarkUnknownWriteKeeps ==
  ASSUME IInv, NEW p \in Procs, NEW o \in Orders, MarkUnknownWrite(p, o)
  PROVE  IInv'
<1> USE DEF MarkUnknownWrite, MarkIn
<1>1. /\ job \in [Procs -> Job] /\ job[p].order = o
      /\ orderStatus[o] # NoRow /\ job[p].carry \in Reason
  BY BusyJob
<1>2. /\ job' \in [Procs -> Job]
      /\ job'[p].step \in {"mark", "idle"}
      /\ job'[p].step = "mark" => job'[p].order = o /\ job'[p].carry = "expired"
      /\ \A q \in Procs : q # p => job'[q] = job[q]
  BY <1>1, ContinuedJob, FinishedJob DEF AfterMark, Step, Reason
<1>3. TypeOK'
  BY <1>1, <1>2 DEF IInv, TypeOK, PaymentStatus, Payable, stockVars
<1>4. \A q \in Orders : Demoted(q)
  BY <1>1 DEF IInv, TypeOK, Demoted, Payable, LateTerminal, NoRow
<1>5. SoundJob(job[p])'
  BY <1>1, <1>2 DEF SoundJob, Reason
<1> QED
  BY <1>2, <1>3, <1>4, <1>5, MoverKeepsJobs, StillKeeps DEF stockVars

LEMMA AdministratorKeeps ==
  ASSUME IInv, NEW o \in Orders,
         \/ \E verdict \in Verdicts : VerifyPaymentIssue(o, verdict)
         \/ \E status \in Overrides : UpdateOrderStatus(o, status)
  PROVE  IInv'
<1>1. CASE \E verdict \in Verdicts : VerifyPaymentIssue(o, verdict)
  <2>1. PICK verdict \in RefundVerdicts : VerifyPaymentIssue(o, verdict)
    BY <1>1, CheckoutConstants
  <2> USE <2>1 DEF VerifyPaymentIssue, RecordVerdict
  <2>2. orderStatus[o] # NoRow
    BY PaidOrdersExist
  <2>3. TypeOK'
    BY DEF IInv, TypeOK, PaymentStatus, OrderStatus, Reason, stockVars
  <2>4. \A q \in Orders : Demoted(q)
    BY <2>2 DEF IInv, TypeOK, Demoted, Payable, LateTerminal, RefundVerdicts, NoRow
  <2> QED
    BY <2>3, <2>4, NoMoverKeepsJobs, StillKeeps DEF stockVars
<1>2. CASE \E status \in Overrides : UpdateOrderStatus(o, status)
  <2>1. PICK status \in OrderStatus : UpdateOrderStatus(o, status)
    BY <1>2, CheckoutConstants
  <2> USE <2>1 DEF UpdateOrderStatus
  <2>2. TypeOK'
    BY DEF IInv, TypeOK, stockVars, paymentVars
  <2>3. \A q \in Orders : Demoted(q)
    BY DEF IInv, TypeOK, Demoted, OrderStatus, NoRow, paymentVars
  <2> QED
    BY <2>2, <2>3, NoMoverKeepsJobs, StillKeeps DEF stockVars
<1> QED
  BY <1>1, <1>2

LEMMA EnvironmentKeeps ==
  ASSUME IInv, NEW o \in Orders, ReservationExpires(o) \/ GatewayDecides(o)
  PROVE  IInv'
<1>1. CASE ReservationExpires(o)
  <2> USE <1>1 DEF ReservationExpires
  <2>1. TypeOK'
    BY DEF IInv, TypeOK, orderVars, paymentVars
  <2>2. \A q \in Orders : Demoted(q)
    BY DEF Demoted, orderVars, paymentVars
  <2> QED
    BY <2>1, <2>2, NoMoverKeepsJobs, StillKeeps
<1>2. CASE GatewayDecides(o)
  <2> USE <1>2 DEF GatewayDecides
  <2>1. TypeOK'
    BY DEF IInv, TypeOK, orderVars, stockVars, paymentVars
  <2>2. pay[o] # NoRow
    BY DEF IInv, OrdersInv, OrderInv
  <2>3. \A q \in Orders : Demoted(q)
    BY <2>2 DEF IInv, TypeOK, Demoted, Captured, orderVars, paymentVars
  <2> QED
    BY <2>1, <2>3, NoMoverKeepsJobs, StillKeeps DEF stockVars
<1> QED
  BY <1>1, <1>2

------------------------------------------------------------------------------
(* Steps that move codes *)

\* Every order but o keeps what it has: its codes, statuses and session.
OthersKeep(o) ==
  \A q \in Orders \ {o} :
    /\ HeldBy(q)' = HeldBy(q) /\ SoldTo(q)' = SoldTo(q)
    /\ orderStatus'[q] = orderStatus[q] /\ orderPay'[q] = orderPay[q]
    /\ pay'[q] = pay[q] /\ gateway'[q] = gateway[q]

LEMMA MoveKeeps ==
  ASSUME IInv, NEW o \in Orders, NEW p \in Procs,
         TypeOK', CodeColumnsAgree', OthersKeep(o), OrderInv(o)',
         orderStatus'[o] # NoRow, gateway' = gateway,
         \A q \in Procs : q # p => job'[q] = job[q],
         SoundJob(job[p])'
  PROVE  IInv'
<1>1. ASSUME NEW q \in Orders PROVE OrderInv(q)'
  <2>1. CASE q = o
    BY <2>1
  <2>2. CASE q # o
    BY <2>2 DEF IInv, OrdersInv, OrderInv, OthersKeep, Fills, OfDenom
  <2> QED
    BY <2>1, <2>2
<1>2. \A q \in Orders : orderStatus[q] # NoRow => orderStatus'[q] # NoRow
  BY DEF OthersKeep
<1>3. JobsAreSound'
  BY <1>2, JobsStaySound DEF IInv
<1> QED
  BY <1>1, <1>3 DEF IInv, OrdersInv

\* A purchase reserves exactly the codes it chose, for its order alone.
LEMMA CreatePurchaseKeeps ==
  ASSUME IInv, NEW p \in Procs, NEW o \in Orders, CreatePurchase(p, o)
  PROVE  IInv'
<1> USE DEF CreatePurchase, PlaceOrder
<1>1. PICK S \in SUBSET Available :
        /\ Fills(S, o)
        /\ codeStatus' = [c \in Codes |-> IF c \in S THEN "RESERVED" ELSE codeStatus[c]]
        /\ codeOwner' = [c \in Codes |-> IF c \in S THEN o ELSE codeOwner[c]]
  OBVIOUS
<1>2. \A c \in S : c \in Codes /\ codeStatus[c] = "AVAILABLE" /\ codeOwner[c] = NoOrder
  BY DEF Available, IInv, CodeColumnsAgree
<1>3. HeldBy(o) = {} /\ SoldTo(o) = {} /\ pay[o] = NoRow /\ gateway[o] = "NONE"
  BY DEF IInv, OrdersInv, OrderInv
<1>4. HeldBy(o)' = S /\ SoldTo(o)' = {}
  BY <1>1, <1>2, <1>3 DEF HeldBy, SoldTo
<1>5. /\ job' \in [Procs -> Job]
      /\ job'[p].step = "claim" /\ job'[p].order = o
      /\ \A q \in Procs : q # p => job'[q] = job[q]
  BY StartedJob DEF IInv, TypeOK, Step
<1>6. TypeOK'
  BY <1>1, <1>5 DEF IInv, TypeOK, PaymentStatus, OrderStatus, Payable, paymentVars
<1>7. CodeColumnsAgree'
  BY <1>1, <1>2, CheckoutConstants DEF IInv, CodeColumnsAgree
<1>8. OthersKeep(o)
  <2>1. ASSUME NEW q \in Orders \ {o}
        PROVE  HeldBy(q)' = HeldBy(q) /\ SoldTo(q)' = SoldTo(q)
    BY <1>1, <1>2, CheckoutConstants DEF HeldBy, SoldTo
  <2> QED
    BY <2>1 DEF OthersKeep, paymentVars, IInv, TypeOK
<1>9. OrderInv(o)'
  <2>1. orderStatus'[o] = "PENDING" /\ orderPay'[o] = "PENDING"
        /\ pay'[o] = NoRow /\ gateway'[o] = "NONE"
    BY <1>3 DEF IInv, TypeOK, paymentVars
  <2> QED
    BY <1>1, <1>4, <2>1 DEF OrderInv, Payable, LateTerminal, NoRow, Fills, OfDenom
<1>10. SoundJob(job[p])'
  BY <1>5 DEF SoundJob, IInv, TypeOK, NoRow
<1> QED
  BY <1>5, <1>6, <1>7, <1>8, <1>9, <1>10, MoveKeeps DEF IInv, TypeOK, NoRow

\* What a release does to the codes of its order and of the others.
LEMMA ReleaseEffect ==
  ASSUME IInv, NEW o \in Orders, NEW status \in PaymentStatus,
         ReleaseGiftCardReservation(o, status)
  PROVE  /\ HeldBy(o)' = {} /\ SoldTo(o)' = SoldTo(o)
         /\ \A q \in Orders \ {o} : HeldBy(q)' = HeldBy(q) /\ SoldTo(q)' = SoldTo(q)
         /\ CodeColumnsAgree'
         /\ codeStatus' \in [Codes -> {"AVAILABLE", "RESERVED", "SOLD"}]
         /\ codeOwner' \in [Codes -> Orders \cup {NoOrder}]
<1> USE CheckoutConstants DEF ReleaseGiftCardReservation
<1>1. HeldBy(o)' = {} /\ SoldTo(o)' = SoldTo(o)
  BY DEF HeldBy, SoldTo
<1>2. ASSUME NEW q \in Orders \ {o}
      PROVE  HeldBy(q)' = HeldBy(q) /\ SoldTo(q)' = SoldTo(q)
  BY DEF HeldBy, SoldTo
<1>3. CodeColumnsAgree'
  BY DEF HeldBy, IInv, CodeColumnsAgree
<1>4. /\ codeStatus' \in [Codes -> {"AVAILABLE", "RESERVED", "SOLD"}]
      /\ codeOwner' \in [Codes -> Orders \cup {NoOrder}]
  BY DEF IInv, TypeOK
<1> QED
  BY <1>1, <1>2, <1>3, <1>4

LEMMA ReleaseUninitiatedWriteKeeps ==
  ASSUME IInv, NEW p \in Procs, NEW o \in Orders, ReleaseUninitiatedWrite(p, o)
  PROVE  IInv'
<1> USE DEF ReleaseUninitiatedWrite
<1>1. ReleaseGiftCardReservation(o, "FAILED") /\ "FAILED" \in PaymentStatus
  BY DEF PaymentStatus, LateTerminal
<1>2. /\ job' \in [Procs -> Job]
      /\ job'[p].step = "idle"
      /\ \A q \in Procs : q # p => job'[q] = job[q]
  BY FinishedJob DEF IInv, TypeOK
<1>3. TypeOK'
  BY <1>1, <1>2, ReleaseEffect
     DEF ReleaseGiftCardReservation, IInv, TypeOK, OrderStatus, paymentVars
<1>4. OthersKeep(o)
  BY <1>1, ReleaseEffect DEF OthersKeep, ReleaseGiftCardReservation, paymentVars, IInv, TypeOK
<1>5. orderStatus'[o] = "CANCELLED" /\ orderPay'[o] = "FAILED"
      /\ pay'[o] = pay[o] /\ gateway' = gateway
  BY <1>1 DEF ReleaseGiftCardReservation, IInv, TypeOK, paymentVars
<1>6. OrderInv(o)'
  BY <1>1, <1>5, ReleaseEffect
     DEF IInv, OrdersInv, OrderInv, Payable, LateTerminal, NoRow, Fills, OfDenom
<1>7. SoundJob(job[p])'
  BY <1>2 DEF SoundJob
<1>8. CodeColumnsAgree' /\ orderStatus'[o] # NoRow
  BY <1>1, <1>5, ReleaseEffect DEF NoRow
<1> QED
  BY <1>2, <1>3, <1>4, <1>5, <1>6, <1>7, <1>8, MoveKeeps

\* A failure is recorded for an order that could still be paid, so none of its
\* codes is sold and all of them are given back.
LEMMA FailPaymentKeeps ==
  ASSUME IInv, NEW p \in Procs, NEW o \in Orders, FailPayment(p, o)
  PROVE  IInv'
<1> USE DEF FailPayment, FailIf
<1> DEFINE status == job[p].carry
           payable == pay[o] \in Payable /\ orderPay[o] \in Payable
<1>1. job \in [Procs -> Job] /\ job[p].order = o /\ orderStatus[o] # NoRow
  BY BusyJob
<1>2. /\ job' \in [Procs -> Job]
      /\ job'[p].step \in {"reread", "idle"}
      /\ job'[p].step = "reread" => job'[p].order = o
      /\ \A q \in Procs : q # p => job'[q] = job[q]
  BY <1>1, ContinuedJob, FinishedJob DEF Step
<1>3. CASE ~ payable
  <2>1. TypeOK'
    BY <1>2, <1>3 DEF IInv, TypeOK, orderVars, stockVars
  <2>2. \A q \in Orders : Demoted(q)
    BY <1>3 DEF Demoted, orderVars
  <2>3. SoundJob(job[p])'
    BY <1>1, <1>2, <1>3 DEF SoundJob, orderVars
  <2> QED
    BY <1>2, <1>3, <2>1, <2>2, <2>3, MoverKeepsJobs, StillKeeps DEF stockVars
<1>4. CASE payable
  <2>1. ReleaseGiftCardReservation(o, status) /\ PaymentTransitionAllowed(pay[o], status)
    BY <1>4
  <2>2. status \in PaymentStatus
    BY <1>4, <2>1 DEF PaymentTransitionAllowed, Transitions, Payable, LateTerminal,
                      PaymentStatus, RefundVerdicts
  <2>3. TypeOK'
    BY <1>2, <1>4, <2>1, <2>2, ReleaseEffect
       DEF ReleaseGiftCardReservation, IInv, TypeOK, OrderStatus
  <2>4. OthersKeep(o)
    BY <1>4, <2>1, <2>2, ReleaseEffect
       DEF OthersKeep, ReleaseGiftCardReservation, IInv, TypeOK
  <2>5. HeldBy(o)' = {} /\ SoldTo(o)' = {}
    BY <1>4, <2>1, <2>2, ReleaseEffect DEF IInv, OrdersInv, OrderInv
  <2>6. /\ orderStatus'[o] = "CANCELLED" /\ orderPay'[o] = status
        /\ pay'[o] = status /\ gateway'[o] = gateway[o]
    BY <1>4, <2>1 DEF ReleaseGiftCardReservation, IInv, TypeOK
  <2>7. status \in {"FAILED", "CANCELLED"}
    <3>1. status \in {"none", "FAILED", "CANCELLED"} \cup Reason
      BY <1>1 DEF Job
    <3> QED
      BY <2>2, <3>1 DEF Reason, PaymentStatus, Payable, LateTerminal, RefundVerdicts
  <2>8. OrderInv(o)'
    BY <2>5, <2>6, <2>7 DEF OrderInv, Payable, NoRow
  <2>9. SoundJob(job[p])'
    BY <1>2, <2>6 DEF SoundJob, NoRow
  <2> QED
    BY <1>2, <2>1, <2>2, <2>3, <2>4, <2>6, <2>8, <2>9, ReleaseEffect, MoveKeeps DEF NoRow
<1> QED
  BY <1>3, <1>4

\* What a settlement with the codes S does, when S is the whole reservation of
\* the order, with codes that are free.
LEMMA SettleEffect ==
  ASSUME IInv, NEW o \in Orders, NEW S \in SUBSET Codes, SettleWith(o, S),
         HeldBy(o) \subseteq S,
         \A c \in S : c \in HeldBy(o) \/ c \in Available
  PROVE  /\ HeldBy(o)' = {} /\ SoldTo(o)' = SoldTo(o) \cup S
         /\ \A q \in Orders \ {o} : HeldBy(q)' = HeldBy(q) /\ SoldTo(q)' = SoldTo(q)
         /\ CodeColumnsAgree'
         /\ codeStatus' \in [Codes -> {"AVAILABLE", "RESERVED", "SOLD"}]
         /\ codeOwner' \in [Codes -> Orders \cup {NoOrder}]
         /\ delivery' \in [Codes -> Orders \cup {NoOrder}]
<1>1. /\ codeOwner' = [c \in Codes |-> IF c \in S THEN o ELSE codeOwner[c]]
      /\ codeStatus' = [c \in Codes |-> IF c \in S THEN "SOLD" ELSE codeStatus[c]]
      /\ delivery' = [c \in Codes |->
                        IF c \in S /\ delivery[c] = NoOrder THEN o ELSE delivery[c]]
  BY DEF SettleWith, SettleTo
<1>2. \A c \in S : codeStatus[c] \in {"AVAILABLE", "RESERVED"} /\ codeOwner[c] \in {o, NoOrder}
  BY DEF HeldBy, Available, IInv, CodeColumnsAgree
<1>3. HeldBy(o)' = {} /\ SoldTo(o)' = SoldTo(o) \cup S
  BY <1>1, <1>2 DEF HeldBy, SoldTo
<1>4. ASSUME NEW q \in Orders \ {o}
      PROVE  HeldBy(q)' = HeldBy(q) /\ SoldTo(q)' = SoldTo(q)
  BY <1>1, <1>2, CheckoutConstants DEF HeldBy, SoldTo
<1>5. CodeColumnsAgree'
  BY <1>1, <1>2, CheckoutConstants DEF IInv, CodeColumnsAgree
<1>6. /\ codeStatus' \in [Codes -> {"AVAILABLE", "RESERVED", "SOLD"}]
      /\ codeOwner' \in [Codes -> Orders \cup {NoOrder}]
      /\ delivery' \in [Codes -> Orders \cup {NoOrder}]
  BY <1>1 DEF IInv, TypeOK
<1> QED
  BY <1>3, <1>4, <1>5, <1>6

\* Settling an order that has nothing sold yet, with the gateway's money.
LEMMA SettleKeeps ==
  ASSUME IInv, NEW p \in Procs, NEW o \in Orders, NEW S \in SUBSET Codes,
         SettleWith(o, S), Finish(p), Busy(p, "complete", o),
         HeldBy(o) \subseteq S, SoldTo(o) = {},
         \A c \in S : c \in HeldBy(o) \/ c \in Available
  PROVE  IInv'
<1>1. gateway[o] \in Captured
  BY BusyJob
<1>2. /\ job' \in [Procs -> Job]
      /\ job'[p].step = "idle"
      /\ \A q \in Procs : q # p => job'[q] = job[q]
  BY FinishedJob DEF IInv, TypeOK
<1>3. /\ HeldBy(o)' = {} /\ SoldTo(o)' = S
      /\ CodeColumnsAgree'
  BY SettleEffect
<1>4. TypeOK'
  BY <1>2, SettleEffect DEF SettleWith, SettleTo, IInv, TypeOK, OrderStatus, PaymentStatus, Reason
<1>5. OthersKeep(o)
  BY SettleEffect DEF OthersKeep, SettleWith, SettleTo, IInv, TypeOK
<1>6. /\ orderStatus'[o] = "COMPLETED" /\ orderPay'[o] = "PAID" /\ pay'[o] = "PAID"
      /\ gateway' = gateway /\ Fills(S, o)
  BY DEF SettleWith, SettleTo, IInv, TypeOK
<1>7. OrderInv(o)'
  BY <1>1, <1>3, <1>6 DEF OrderInv, Payable, LateTerminal, NoRow, Fills, OfDenom
<1>8. SoundJob(job[p])'
  BY <1>2 DEF SoundJob
<1> QED
  BY <1>2, <1>3, <1>4, <1>5, <1>6, <1>7, <1>8, MoveKeeps DEF NoRow

LEMMA CompletePaymentKeeps ==
  ASSUME IInv, NEW p \in Procs, NEW o \in Orders, CompletePayment(p, o)
  PROVE  IInv'
<1>1. SoldTo(o) = {}
  BY DEF CompletePayment, IInv, OrdersInv, OrderInv
<1>2. HeldBy(o) \in SUBSET Codes
  BY DEF HeldBy
<1> QED
  BY <1>1, <1>2, SettleKeeps DEF CompletePayment

\* A late payment finds its order without codes and takes only free ones.
LEMMA CompleteLatePaymentKeeps ==
  ASSUME IInv, NEW p \in Procs, NEW o \in Orders, CompleteLatePayment(p, o)
  PROVE  IInv'
<1>1. HeldBy(o) = {} /\ SoldTo(o) = {}
  BY DEF CompleteLatePayment, SettleLate, IInv, OrdersInv, OrderInv
<1>2. PICK S \in SUBSET {c \in Available : codeOwner[c] = NoOrder} :
        SettleWith(o, HeldBy(o) \cup S)
  BY DEF CompleteLatePayment, SettleLate
<1>3. HeldBy(o) \cup S \in SUBSET Codes
  BY DEF HeldBy, Available
<1> QED
  BY <1>1, <1>2, <1>3, SettleKeeps DEF CompleteLatePayment, SettleLate

------------------------------------------------------------------------------
(* The invariant *)

LEMMA InitEstablishes == Init => IInv
<1> SUFFICES ASSUME Init PROVE IInv
  OBVIOUS
<1> USE CheckoutConstants DEF Init
<1>1. TypeOK
  BY DEF TypeOK, Job, Idle, Step, GatewayState, Reason
<1>2. CodeColumnsAgree
  BY DEF CodeColumnsAgree
<1>3. OrdersInv
  BY DEF OrdersInv, OrderInv, HeldBy, SoldTo, Payable, LateTerminal, NoRow
<1>4. JobsAreSound
  BY DEF JobsAreSound, SoundJob, Idle
<1> QED
  BY <1>1, <1>2, <1>3, <1>4 DEF IInv

LEMMA NextKeeps == IInv /\ [Next]_vars => IInv'
<1> SUFFICES ASSUME IInv, [Next]_vars PROVE IInv'
  OBVIOUS
<1>1. ASSUME NEW p \in Procs, NEW o \in Orders, Serve(p, o)
      PROVE  IInv'
  BY <1>1, JobStepKeeps, CreatePurchaseKeeps, CreatePaymentKeeps,
     ReleaseUninitiatedWriteKeeps, StoreUrlKeeps, CompletePaymentKeeps,
     CompleteLatePaymentKeeps, MarkRefundPendingKeeps, FailPaymentKeeps,
     MarkUnknownWriteKeeps
     DEF Serve, JobStep
<1>2. ASSUME NEW p \in Procs, Abandon(p)
      PROVE  IInv'
  BY <1>2, FinishKeeps DEF Abandon
<1>3. ASSUME NEW o \in Orders,
             \/ \E verdict \in Verdicts : VerifyPaymentIssue(o, verdict)
             \/ \E status \in Overrides : UpdateOrderStatus(o, status)
      PROVE  IInv'
  BY <1>3, AdministratorKeeps
<1>4. ASSUME NEW o \in Orders, ReservationExpires(o) \/ GatewayDecides(o)
      PROVE  IInv'
  BY <1>4, EnvironmentKeeps
<1>5. CASE UNCHANGED vars
  <2>1. \A o \in Orders : Demoted(o)
    BY <1>5 DEF vars, orderVars, paymentVars, Demoted
  <2>2. TypeOK'
    BY <1>5 DEF IInv, TypeOK, vars, orderVars, stockVars, paymentVars
  <2>3. job' = job /\ UNCHANGED <<codeStatus, codeOwner, delivery>>
    BY <1>5 DEF vars, stockVars
  <2> QED
    BY <2>1, <2>2, <2>3, NoMoverKeepsJobs, StillKeeps
<1> QED
  BY <1>1, <1>2, <1>3, <1>4, <1>5 DEF Next

\* The invariant as the specification states it, property by property.
LEMMA IInvImplies == IInv => SettlementInvariant
<1> SUFFICES ASSUME IInv PROVE SettlementInvariant
  OBVIOUS
<1>1. \A o \in Orders : OrderInv(o)
  BY DEF IInv, OrdersInv
<1>2. \A o \in Orders, c \in Codes : c \in SoldTo(o) => delivery[c] = o
  BY DEF IInv, CodeColumnsAgree, SoldTo
<1>3. \A o \in Orders : SoldTo(o) \subseteq Codes
  BY DEF SoldTo
<1>4. RowsFollowTheOrder /\ PayableOrderHoldsItsCodes /\ AllOrNothing
      /\ SoldOnlyIfCaptured /\ FailedPaymentKeepsNothing
  BY <1>1 DEF OrderInv, RowsFollowTheOrder, PayableOrderHoldsItsCodes, AllOrNothing,
              SoldOnlyIfCaptured, FailedPaymentKeepsNothing, AssignedTo
<1>5. PaidOrderOwnsItsCodes
  BY <1>1, <1>2, <1>3 DEF OrderInv, PaidOrderOwnsItsCodes
<1> QED
  BY <1>4, <1>5 DEF IInv, SettlementInvariant

\* In every reachable state the settlement invariant holds: whatever callbacks,
\* sweeps, crashes, verdicts and manual status changes come in between.
THEOREM SettlementInvariantHolds == Spec => []SettlementInvariant
<1>1. Spec => []IInv
  BY InitEstablishes, NextKeeps, PTL DEF Spec
<1> QED
  BY <1>1, IInvImplies, PTL

\* Every column and every process state keeps its type.
THEOREM TypeCorrectness == Spec => []TypeOK
<1>1. SettlementInvariant => TypeOK
  BY DEF SettlementInvariant
<1> QED
  BY <1>1, SettlementInvariantHolds, PTL

\* completePayment never lacks the codes of an order that can still be paid.
THEOREM PayableOrdersAreCovered == Spec => []PayableOrderHoldsItsCodes
<1>1. SettlementInvariant => PayableOrderHoldsItsCodes
  BY DEF SettlementInvariant
<1> QED
  BY <1>1, SettlementInvariantHolds, PTL

\* A paid order owns all of its codes, each with a delivery row of its own.
THEOREM PaidOrdersAreServed == Spec => []PaidOrderOwnsItsCodes
<1>1. SettlementInvariant => PaidOrderOwnsItsCodes
  BY DEF SettlementInvariant
<1> QED
  BY <1>1, SettlementInvariantHolds, PTL

\* No code is sold without money captured for the order that owns it.
THEOREM NoSaleWithoutMoney == Spec => []SoldOnlyIfCaptured
<1>1. SettlementInvariant => SoldOnlyIfCaptured
  BY DEF SettlementInvariant
<1> QED
  BY <1>1, SettlementInvariantHolds, PTL

\* A payment recorded as failed, cancelled or expired keeps no code.
THEOREM FailedPaymentsAreEmptyHanded == Spec => []FailedPaymentKeepsNothing
<1>1. SettlementInvariant => FailedPaymentKeepsNothing
  BY DEF SettlementInvariant
<1> QED
  BY <1>1, SettlementInvariantHolds, PTL

\* An order has all of its codes, reserved or sold, or none.
THEOREM AllocationsAreWhole == Spec => []AllOrNothing
<1>1. SettlementInvariant => AllOrNothing
  BY DEF SettlementInvariant
<1> QED
  BY <1>1, SettlementInvariantHolds, PTL

------------------------------------------------------------------------------
(* Steps and the stock *)

Reserve(o, S) ==
  /\ Fills(S, o) /\ HeldBy(o) = {} /\ SoldTo(o) = {}
  /\ codeStatus' = [c \in Codes |-> IF c \in S THEN "RESERVED" ELSE codeStatus[c]]
  /\ codeOwner' = [c \in Codes |-> IF c \in S THEN o ELSE codeOwner[c]]
  /\ UNCHANGED delivery

Release(o) ==
  /\ codeOwner' = [c \in Codes |-> IF c \in HeldBy(o) THEN NoOrder ELSE codeOwner[c]]
  /\ codeStatus' = [c \in Codes |-> IF c \in HeldBy(o) THEN "AVAILABLE" ELSE codeStatus[c]]
  /\ UNCHANGED delivery

SellTo(o, S) ==
  /\ Fills(S, o) /\ SoldTo(o) = {}
  /\ codeStatus' = [c \in Codes |-> IF c \in S THEN "SOLD" ELSE codeStatus[c]]
  /\ codeOwner' = [c \in Codes |-> IF c \in S THEN o ELSE codeOwner[c]]
  /\ delivery' = [c \in Codes |->
                    IF c \in S /\ delivery[c] = NoOrder THEN o ELSE delivery[c]]

\* All that a step can do to the stock.
StockMove ==
  \/ UNCHANGED <<codeStatus, codeOwner, delivery>>
  \/ \E o \in Orders, S \in SUBSET Available : Reserve(o, S)
  \/ \E o \in Orders : Release(o) \/ SellTo(o, HeldBy(o))
  \/ \E o \in Orders, S \in SUBSET Available : SellTo(o, S) /\ HeldBy(o) = {}

LEMMA EveryStepIsAStockMove == IInv /\ [Next]_vars => StockMove
<1> SUFFICES ASSUME IInv, [Next]_vars PROVE StockMove
  OBVIOUS
<1>1. ASSUME NEW p \in Procs, NEW o \in Orders, Serve(p, o)
      PROVE  StockMove
  <2>1. CASE CreatePurchase(p, o)
    <3>1. HeldBy(o) = {} /\ SoldTo(o) = {}
      BY <2>1 DEF CreatePurchase, PlaceOrder, IInv, OrdersInv, OrderInv
    <3>2. \E S \in SUBSET Available : Reserve(o, S)
      BY <2>1, <3>1 DEF CreatePurchase, PlaceOrder, Reserve
    <3> QED
      BY <3>2 DEF StockMove
  <2>2. CASE ReleaseUninitiatedWrite(p, o) \/ FailPayment(p, o)
    <3>1. Release(o) \/ UNCHANGED stockVars
      BY <2>2 DEF ReleaseUninitiatedWrite, FailPayment, FailIf,
                  ReleaseGiftCardReservation, Release
    <3> QED
      BY <3>1 DEF StockMove, stockVars
  <2>3. CASE CompletePayment(p, o)
    <3>1. SoldTo(o) = {} /\ SettleWith(o, HeldBy(o))
      BY <2>3 DEF CompletePayment, IInv, OrdersInv, OrderInv
    <3>2. SellTo(o, HeldBy(o))
      BY <3>1 DEF SettleWith, SettleTo, SellTo
    <3> QED
      BY <3>2 DEF StockMove
  <2>4. CASE CompleteLatePayment(p, o)
    <3>1. HeldBy(o) = {} /\ SoldTo(o) = {}
      BY <2>4 DEF CompleteLatePayment, SettleLate, IInv, OrdersInv, OrderInv
    <3>2. PICK S \in SUBSET {c \in Available : codeOwner[c] = NoOrder} :
            SettleWith(o, HeldBy(o) \cup S)
      BY <2>4 DEF CompleteLatePayment, SettleLate
    <3>3. S \in SUBSET Available /\ SettleWith(o, S)
      <4>1. HeldBy(o) \cup S = S
        BY <3>1
      <4> QED
        BY <3>2, <4>1
    <3>4. SellTo(o, S)
      BY <3>1, <3>3 DEF SettleWith, SettleTo, SellTo
    <3> QED
      BY <3>1, <3>3, <3>4 DEF StockMove
  <2>5. CASE ~ (\/ CreatePurchase(p, o) \/ ReleaseUninitiatedWrite(p, o)
                \/ FailPayment(p, o) \/ CompletePayment(p, o)
                \/ CompleteLatePayment(p, o))
    BY <1>1, <2>5 DEF Serve, StockMove, stockVars, CreatePayment, InitiateAgain,
       CreatePaymentFails, InitiationThrows, ReleaseUninitiatedRead, StorePaymentUrl,
       StoreAttemptUrl, InitiationRejected, InitiationUnconfirmed, VerifyAndProcess,
       ReconcileUnknownPayments, ReconcileExpiredReservations, QueryFails, QueryAnswered,
       Dispatch, CompletionRefused, LateInventoryUnavailable, MarkRefundPending,
       RereadAfterFail, MarkUnknownRead, MarkUnknownWrite, MarkIn
  <2> QED
    BY <2>1, <2>2, <2>3, <2>4, <2>5
<1>2. ASSUME ~ \E p \in Procs, o \in Orders : Serve(p, o)
      PROVE  UNCHANGED <<codeStatus, codeOwner, delivery>>
  BY <1>2 DEF Next, vars, stockVars, Abandon, VerifyPaymentIssue, RecordVerdict,
              UpdateOrderStatus, ReservationExpires, GatewayDecides
<1> QED
  BY <1>1, <1>2 DEF StockMove

\* Under the invariant, no step takes a sold code from its buyer.
LEMMA SoldStays ==
  ASSUME IInv, StockMove, NEW c \in Codes, codeStatus[c] = "SOLD"
  PROVE  codeStatus'[c] = "SOLD" /\ UNCHANGED <<codeOwner[c], delivery[c]>>
<1>1. CASE \E o \in Orders, S \in SUBSET Available : Reserve(o, S)
  BY <1>1 DEF Reserve, Available, IInv, TypeOK
<1>2. CASE \E o \in Orders : Release(o)
  BY <1>2 DEF Release, HeldBy, IInv, TypeOK
<1>3. CASE \E o \in Orders : SellTo(o, HeldBy(o))
  BY <1>3 DEF SellTo, HeldBy, IInv, TypeOK
<1>4. CASE \E o \in Orders, S \in SUBSET Available : SellTo(o, S)
  BY <1>4 DEF SellTo, Available, IInv, TypeOK
<1>5. CASE UNCHANGED <<codeStatus, codeOwner, delivery>>
  BY <1>5
<1> QED
  BY <1>1, <1>2, <1>3, <1>4, <1>5 DEF StockMove

\* A sold code stays with its buyer for good, and so does its delivery row.
THEOREM SoldCodesStay == Spec => SoldIsFinal
<1>1. IInv /\ [Next]_vars =>
        [\A c \in Codes :
           codeStatus[c] = "SOLD" =>
             codeStatus'[c] = "SOLD" /\ UNCHANGED <<codeOwner[c], delivery[c]>>]_vars
  BY EveryStepIsAStockMove, SoldStays
<1>2. Spec => []IInv
  BY InitEstablishes, NextKeeps, PTL DEF Spec
<1> QED
  BY <1>1, <1>2, PTL DEF Spec, SoldIsFinal

------------------------------------------------------------------------------
(* The stock implements the ledger *)

\* What the ledger says an order holds is what is reserved for it, and what it
\* bought is what is sold to it.
LEMMA LedgerOfTheStock ==
  ASSUME TypeOK, CodeColumnsAgree
  PROVE  /\ \A o \in Orders : Ledger!Kept(o) = HeldBy(o) /\ Ledger!Bought(o) = SoldTo(o)
         /\ Ledger!Free = Available
<1>1. \A o \in Orders : Ledger!Kept(o) = HeldBy(o) /\ Ledger!Bought(o) = SoldTo(o)
  BY CheckoutConstants DEF Ledger!Kept, Ledger!Bought, HeldBy, SoldTo, TypeOK, CodeColumnsAgree
<1>2. Ledger!Free = Available
  BY DEF Ledger!Free, Available, CodeColumnsAgree
<1> QED
  BY <1>1, <1>2

LEMMA LedgerInit == Init => Ledger!Init
  BY DEF Init, Ledger!Init

LEMMA LedgerStep ==
  ASSUME IInv, StockMove
  PROVE  [Ledger!Next]_(Ledger!ledgerVars)
<1> DEFINE sold == {c \in Codes : codeStatus[c] = "SOLD"}
<1>1. /\ \A o \in Orders : Ledger!Kept(o) = HeldBy(o) /\ Ledger!Bought(o) = SoldTo(o)
      /\ Ledger!Free = Available
  BY LedgerOfTheStock DEF IInv
<1>2. Available \subseteq Codes /\ \A c \in Available : c \notin sold
  BY DEF Available
<1>3. CASE UNCHANGED <<codeStatus, codeOwner, delivery>>
  BY <1>3 DEF Ledger!ledgerVars
<1>4. CASE \E o \in Orders, S \in SUBSET Available : Reserve(o, S)
  <2>1. PICK o \in Orders, S \in SUBSET Available : Reserve(o, S)
    BY <1>4
  <2>2. sold' = sold
    BY <1>2, <2>1 DEF Reserve, IInv, TypeOK
  <2>3. Ledger!Hold(o, S)
    BY <1>1, <2>1, <2>2 DEF Reserve, Ledger!Hold, Ledger!Give
  <2>4. S \in SUBSET Codes
    BY <1>2
  <2> QED
    BY <2>1, <2>3, <2>4 DEF Ledger!Next
<1>5. CASE \E o \in Orders : Release(o)
  <2>1. PICK o \in Orders : Release(o)
    BY <1>5
  <2>2. sold' = sold
    BY <2>1 DEF Release, HeldBy, IInv, TypeOK
  <2>3. Ledger!GiveBack(o)
    BY <1>1, <2>1, <2>2 DEF Release, Ledger!GiveBack, Ledger!Give
  <2> QED
    BY <2>3 DEF Ledger!Next
<1>6. CASE \E o \in Orders : SellTo(o, HeldBy(o))
  <2>1. PICK o \in Orders : SellTo(o, HeldBy(o))
    BY <1>6
  <2>2. sold' = sold \cup HeldBy(o)
    BY <2>1 DEF SellTo, HeldBy
  <2>3. codeOwner' = codeOwner
    BY <2>1 DEF SellTo, HeldBy, IInv, TypeOK
  <2>4. Ledger!Sell(o)
    BY <1>1, <2>1, <2>2, <2>3 DEF SellTo, Ledger!Sell
  <2> QED
    BY <2>4 DEF Ledger!Next
<1>7. CASE \E o \in Orders, S \in SUBSET Available : SellTo(o, S) /\ HeldBy(o) = {}
  <2>1. PICK o \in Orders, S \in SUBSET Available : SellTo(o, S) /\ HeldBy(o) = {}
    BY <1>7
  <2>2. sold' = sold \cup S
    BY <1>2, <2>1 DEF SellTo
  <2>3. Ledger!SellFromStock(o, S)
    BY <1>1, <2>1, <2>2 DEF SellTo, Ledger!SellFromStock, Ledger!Give
  <2>4. S \in SUBSET Codes
    BY <1>2
  <2> QED
    BY <2>1, <2>3, <2>4 DEF Ledger!Next
<1> QED
  BY <1>3, <1>4, <1>5, <1>6, <1>7 DEF StockMove

\* Purchases, releases and settlements, with everything that interleaves with
\* them, are steps of the abstract ledger of holds and sales.
THEOREM StockImplementsLedger == Spec => ImplementsLedger
<1>1. IInv /\ [Next]_vars => [Ledger!Next]_(Ledger!ledgerVars)
  BY EveryStepIsAStockMove, LedgerStep
<1>2. Spec => []IInv
  BY InitEstablishes, NextKeeps, PTL DEF Spec
<1> QED
  BY <1>1, <1>2, LedgerInit, PTL DEF Spec, ImplementsLedger, Ledger!Spec

------------------------------------------------------------------------------
(* The gateway's sessions *)

\* No process has come to ask the gateway for a session.
NobodyAsks ==
  \A p \in Procs, o \in Orders : Busy(p, "gateway", o)' => Busy(p, "gateway", o)

LEMMA OtherStepsDoNotAsk ==
  ASSUME job \in [Procs -> Job], NEW p \in Procs,
         \/ Finish(p)
         \/ \E step \in Step \ {"gateway"}, o \in Orders, sweep \in BOOLEAN :
               Start(p, step, o, sweep)
         \/ \E step \in Step \ {"gateway"},
               carry \in {"none", "FAILED", "CANCELLED"} \cup Reason : Continue(p, step, carry)
  PROVE  NobodyAsks
<1>1. CASE Finish(p)
  BY <1>1, FinishedJob DEF NobodyAsks, Busy
<1>2. CASE \E step \in Step \ {"gateway"}, o \in Orders, sweep \in BOOLEAN :
             Start(p, step, o, sweep)
  BY <1>2, StartedJob DEF NobodyAsks, Busy
<1>3. CASE \E step \in Step \ {"gateway"},
             carry \in {"none", "FAILED", "CANCELLED"} \cup Reason : Continue(p, step, carry)
  BY <1>3, ContinuedJob DEF NobodyAsks, Busy
<1> QED
  BY <1>1, <1>2, <1>3

LEMMA OnlyCreatePaymentAsks ==
  ASSUME IInv, [Next]_vars, ~ \E p \in Procs, o \in Orders : CreatePayment(p, o)
  PROVE  NobodyAsks
<1>1. job \in [Procs -> Job]
  BY DEF IInv, TypeOK
<1>2. ASSUME NEW p \in Procs, NEW o \in Orders, Serve(p, o)
      PROVE  NobodyAsks
  <2> USE <1>1 DEF Step, Reason
  <2>1. CASE \/ CreatePurchase(p, o) \/ CreatePaymentFails(p, o) \/ VerifyAndProcess(p, o)
             \/ ReconcileUnknownPayments(p, o) \/ ReconcileExpiredReservations(p, o)
    BY <2>1, OtherStepsDoNotAsk
       DEF CreatePurchase, PlaceOrder, CreatePaymentFails, InitiationThrows, VerifyAndProcess,
           ReconcileUnknownPayments, ReconcileExpiredReservations
  <2>2. CASE \/ ReleaseUninitiatedWrite(p, o) \/ StoreAttemptUrl(p, o)
             \/ CompletePayment(p, o) \/ CompleteLatePayment(p, o)
             \/ CompletionRefused(p, o) \/ MarkRefundPending(p, o)
    BY <2>2, OtherStepsDoNotAsk
       DEF ReleaseUninitiatedWrite, StoreAttemptUrl, CompletePayment, CompleteLatePayment,
           SettleLate, CompletionRefused, MarkRefundPending
  <2>3. CASE \/ ReleaseUninitiatedRead(p, o) \/ StorePaymentUrl(p, o)
             \/ InitiationRejected(p, o) \/ InitiationUnconfirmed(p, o)
             \/ QueryAnswered(p, o) \/ LateInventoryUnavailable(p, o)
             \/ FailPayment(p, o) \/ RereadAfterFail(p, o) \/ MarkUnknownWrite(p, o)
    BY <2>3, OtherStepsDoNotAsk
       DEF ReleaseUninitiatedRead, StorePaymentUrl, InitiationRejected, InitiationUnconfirmed,
           QueryAnswered, Dispatch, LateInventoryUnavailable, FailPayment, FailIf,
           RereadAfterFail, MarkUnknownWrite, MarkIn, AfterMark
  <2>4. CASE MarkUnknownRead(p, o)
    <3>1. job[p].carry \in Reason
      BY <2>4, BusyJob DEF MarkUnknownRead
    <3> QED
      BY <2>4, <3>1, OtherStepsDoNotAsk DEF MarkUnknownRead, AfterMark
  <2>5. CASE QueryFails(p, o)
    BY <2>5 DEF QueryFails, NobodyAsks, Busy, Job
  <2> QED
    BY <1>2, <2>1, <2>2, <2>3, <2>4, <2>5 DEF Serve
<1>3. ASSUME NEW p \in Procs, Abandon(p)
      PROVE  NobodyAsks
  BY <1>1, <1>3, OtherStepsDoNotAsk DEF Abandon
<1>4. ASSUME job' = job
      PROVE  NobodyAsks
  BY <1>4 DEF NobodyAsks, Busy
<1> QED
  BY <1>2, <1>3, <1>4 DEF Next, vars, VerifyPaymentIssue, RecordVerdict,
     UpdateOrderStatus, ReservationExpires, GatewayDecides

\* No interleaving of checkouts, initiations and crashes asks the gateway for a
\* second session of an order.
THEOREM SessionsAreUnique == Spec => OneSessionPerOrder
<1>1. ASSUME IInv, [Next]_vars, NEW o \in Orders, NEW p \in Procs,
             ~ Busy(p, "gateway", o), Busy(p, "gateway", o)'
      PROVE  gateway[o] = "NONE"
  <2>1. PICK q \in Procs, r \in Orders : CreatePayment(q, r)
    BY <1>1, OnlyCreatePaymentAsks DEF NobodyAsks
  <2>2. /\ job'[q].step = "gateway" /\ job'[q].order = r
        /\ \A x \in Procs : x # q => job'[x] = job[x]
    BY <1>1, <2>1, StartedJob DEF CreatePayment, InitiateAgain, Step, IInv, TypeOK
  <2>3. p = q /\ o = r
    BY <1>1, <2>2 DEF Busy
  <2> QED
    BY <1>1, <2>1, <2>3 DEF CreatePayment, IInv, OrdersInv, OrderInv
<1>2. IInv /\ [Next]_vars =>
        [\A o \in Orders, p \in Procs :
           ~ Busy(p, "gateway", o) /\ Busy(p, "gateway", o)' => gateway[o] = "NONE"]_vars
  BY <1>1
<1>3. Spec => []IInv
  BY InitEstablishes, NextKeeps, PTL DEF Spec
<1> QED
  BY <1>2, <1>3, PTL DEF Spec, OneSessionPerOrder

------------------------------------------------------------------------------
(* The payment and its order *)

\* The process that writes its release in the catch is done.
LEMMA CatchReleases ==
  ASSUME IInv, NEW p \in Procs, NEW o \in Orders, ReleaseUninitiatedWrite(p, o)
  PROVE  ReleasedByCatch(o)
<1>1. job'[p].step = "idle"
  BY FinishedJob DEF ReleaseUninitiatedWrite, IInv, TypeOK
<1> QED
  BY <1>1 DEF ReleaseUninitiatedWrite, ReleasedByCatch, Busy

\* Every other step writes the payment and the order of one settlement together, or
\* leaves the payment less than PAID.
LEMMA RowsStayAgreed ==
  ASSUME IInv, [Next]_vars, NEW q \in Orders, Agree(q), ~ ReleasedByCatch(q),
         ~ \E status \in Overrides : UpdateOrderStatus(q, status)
  PROVE  Agree(q)'
<1> USE DEF Agree, Completed
<1>1. /\ OrderInv(q) /\ TypeOK
      /\ NoRow = "NONE" /\ {"PENDING", "PROCESSING", "UNKNOWN"} \subseteq Payable
      /\ NoRow \notin Payable /\ "PAID" \notin Payable
  BY DEF IInv, OrdersInv, NoRow, Payable
<1>2. ASSUME NEW p \in Procs, NEW o \in Orders, Serve(p, o)
      PROVE  Agree(q)'
  <2> USE <1>1
  <2>1. CASE CreatePurchase(p, o)
    BY <2>1 DEF CreatePurchase, PlaceOrder, OrderInv, TypeOK, paymentVars
  <2>2. CASE CreatePayment(p, o)
    BY <2>2 DEF CreatePayment, InitiateAgain, TypeOK
  <2>3. ASSUME NEW S, SettleWith(o, S) PROVE Agree(q)'
    BY <2>3 DEF SettleWith, SettleTo, TypeOK
  <2>4. CASE CompletePayment(p, o) \/ CompleteLatePayment(p, o)
    BY <2>3, <2>4 DEF CompletePayment, CompleteLatePayment, SettleLate
  <2>5. CASE MarkRefundPending(p, o)
    BY <2>5 DEF MarkRefundPending, TypeOK, orderVars, paymentVars
  <2>6. CASE FailPayment(p, o)
    <3>1. job[p].carry \notin {"PAID", NoRow}
      BY DEF TypeOK, Job, Reason
    <3> QED
      BY <2>6, <3>1 DEF FailPayment, FailIf, ReleaseGiftCardReservation, TypeOK, orderVars
  <2>7. CASE MarkUnknownWrite(p, o)
    BY <2>7 DEF MarkUnknownWrite, MarkIn, TypeOK
  <2>8. CASE ReleaseUninitiatedWrite(p, o)
    <3>1. o # q
      BY <2>8, CatchReleases
    <3> QED
      BY <2>8, <3>1 DEF ReleaseUninitiatedWrite, ReleaseGiftCardReservation, TypeOK, paymentVars
  <2>9. CASE StorePaymentUrl(p, o) \/ StoreAttemptUrl(p, o)
    BY <2>9 DEF StorePaymentUrl, StoreAttemptUrl, orderVars
  <2>10. CASE JobStep(p, o)
    <3>1. UNCHANGED <<orderVars, paymentVars>>
      BY <2>10 DEF JobStep, CreatePaymentFails, InitiationThrows, ReleaseUninitiatedRead, InitiationRejected,
         InitiationUnconfirmed, VerifyAndProcess, ReconcileUnknownPayments, ReconcileExpiredReservations,
         QueryFails, QueryAnswered, Dispatch, CompletionRefused, LateInventoryUnavailable, RereadAfterFail,
         MarkUnknownRead, Abandon
    <3> QED
      BY <3>1 DEF orderVars, paymentVars
  <2> QED
    BY <1>2, <2>1, <2>2, <2>4, <2>5, <2>6, <2>7, <2>8, <2>9, <2>10, Zenon DEF Serve, JobStep
<1>3. ASSUME NEW o \in Orders, NEW verdict \in Verdicts, VerifyPaymentIssue(o, verdict)
      PROVE  Agree(q)'
  <2>1. verdict \in RefundVerdicts
    BY <1>3, CheckoutConstants
  <2> QED
    BY <1>1, <1>3, <2>1 DEF VerifyPaymentIssue, RecordVerdict, RefundVerdicts, TypeOK
<1>4. ASSUME NEW o \in Orders, NEW status \in Overrides, UpdateOrderStatus(o, status)
      PROVE  Agree(q)'
  <2>1. o # q
    BY <1>4
  <2> QED
    BY <1>1, <1>4, <2>1 DEF UpdateOrderStatus, TypeOK, paymentVars
<1>5. ASSUME UNCHANGED <<orderStatus, orderPay, pay>>
      PROVE  Agree(q)'
  BY <1>1, <1>5
<1> QED
  BY <1>2, <1>3, <1>4, <1>5 DEF Next, vars, Abandon, ReservationExpires, GatewayDecides, orderVars, paymentVars

\* completePayment, failPayment, markUnknown and the verdicts, however they interleave and
\* whatever fails, never leave a payment PAID and its order not: only an administrator's
\* override of the order's status does (updateOrderStatus), or the release in the catch of
\* createPurchase, which looked for a payment before another request created and settled it.
THEOREM PaymentsCompleteOrders == Spec => SettledPaymentCompletesItsOrder
<1>1. IInv /\ [Next]_vars =>
        [\A o \in Orders :
           Agree(o) /\ ~ Agree(o)' =>
             ReleasedByCatch(o) \/ \E status \in Overrides : UpdateOrderStatus(o, status)]_vars
  BY RowsStayAgreed
<1> QED
  BY <1>1, InitEstablishes, NextKeeps, PTL DEF Spec, SettledPaymentCompletesItsOrder

------------------------------------------------------------------------------
(* Releases *)

\* The gateway has said of the session that it was not paid.  RECOVERED says that
\* it was paid after all, later than that.
Refused == {"REJECTED", "FAILED", "CANCELLED", "RECOVERED"}
FailuresAreReported == \A p \in Procs : job[p].step = "fail" => gateway[job[p].order] \in Refused

\* No process has come to record a failure.
NobodyFails ==
  \A p \in Procs : job'[p].step = "fail" => job[p].step = "fail" /\ job'[p].order = job[p].order

LEMMA OtherStepsDoNotFail ==
  ASSUME job \in [Procs -> Job], NEW p \in Procs,
         \/ Finish(p)
         \/ \E step \in Step \ {"fail"}, o \in Orders, sweep \in BOOLEAN : Start(p, step, o, sweep)
         \/ \E step \in Step \ {"fail"},
               carry \in {"none", "FAILED", "CANCELLED"} \cup Reason : Continue(p, step, carry)
  PROVE  NobodyFails
<1>1. CASE Finish(p)
  BY <1>1, FinishedJob DEF NobodyFails
<1>2. CASE \E step \in Step \ {"fail"}, o \in Orders, sweep \in BOOLEAN : Start(p, step, o, sweep)
  BY <1>2, StartedJob DEF NobodyFails
<1>3. CASE \E step \in Step \ {"fail"},
             carry \in {"none", "FAILED", "CANCELLED"} \cup Reason : Continue(p, step, carry)
  BY <1>3, ContinuedJob DEF NobodyFails
<1> QED
  BY <1>1, <1>2, <1>3

\* A process comes to record a failure only with an answer of the gateway that
\* reports one.
LEMMA FailsOnAnswer ==
  ASSUME IInv, [Next]_vars
  PROVE  \/ NobodyFails
         \/ /\ gateway' = gateway
            /\ \E p \in Procs : /\ \A q \in Procs : q # p => job'[q] = job[q]
                               /\ gateway[job'[p].order] \in Refused
<1>1. job \in [Procs -> Job]
  BY DEF IInv, TypeOK
<1>2. ASSUME NEW p \in Procs, NEW o \in Orders, Serve(p, o),
             ~ InitiationRejected(p, o), ~ QueryAnswered(p, o)
      PROVE  NobodyFails
  <2> USE <1>1 DEF Step, Reason
  <2>1. CASE \/ CreatePurchase(p, o) \/ CreatePayment(p, o) \/ CreatePaymentFails(p, o)
             \/ VerifyAndProcess(p, o)
             \/ ReconcileUnknownPayments(p, o) \/ ReconcileExpiredReservations(p, o)
    BY <2>1, OtherStepsDoNotFail
       DEF CreatePurchase, PlaceOrder, CreatePayment, InitiateAgain, CreatePaymentFails, InitiationThrows,
           VerifyAndProcess, ReconcileUnknownPayments, ReconcileExpiredReservations
  <2>2. CASE \/ ReleaseUninitiatedWrite(p, o) \/ StoreAttemptUrl(p, o)
             \/ CompletePayment(p, o) \/ CompleteLatePayment(p, o)
             \/ CompletionRefused(p, o) \/ MarkRefundPending(p, o)
    BY <2>2, OtherStepsDoNotFail
       DEF ReleaseUninitiatedWrite, StoreAttemptUrl, CompletePayment, CompleteLatePayment,
           SettleLate, CompletionRefused, MarkRefundPending
  <2>3. CASE \/ ReleaseUninitiatedRead(p, o) \/ StorePaymentUrl(p, o)
             \/ InitiationUnconfirmed(p, o) \/ LateInventoryUnavailable(p, o)
             \/ FailPayment(p, o) \/ RereadAfterFail(p, o) \/ MarkUnknownWrite(p, o)
    BY <2>3, OtherStepsDoNotFail
       DEF ReleaseUninitiatedRead, StorePaymentUrl, InitiationUnconfirmed, LateInventoryUnavailable,
           FailPayment, FailIf, RereadAfterFail, MarkUnknownWrite, MarkIn, AfterMark
  <2>4. CASE MarkUnknownRead(p, o)
    <3>1. job[p].carry \in Reason
      BY <2>4, BusyJob DEF MarkUnknownRead
    <3> QED
      BY <2>4, <3>1, OtherStepsDoNotFail DEF MarkUnknownRead, AfterMark
  <2>5. CASE QueryFails(p, o)
    BY <2>5 DEF QueryFails, NobodyFails, Job
  <2> QED
    BY <1>2, <2>1, <2>2, <2>3, <2>4, <2>5, Zenon DEF Serve
<1>3. ASSUME NEW p \in Procs, NEW o \in Orders, InitiationRejected(p, o)
      PROVE  /\ gateway' = gateway
             /\ \A q \in Procs : q # p => job'[q] = job[q]
             /\ gateway[job'[p].order] \in Refused
  BY <1>1, <1>3, BusyJob, ContinuedJob DEF InitiationRejected, Refused, Step
<1>4. ASSUME NEW p \in Procs, NEW o \in Orders, QueryAnswered(p, o)
      PROVE  \/ NobodyFails
             \/ /\ gateway' = gateway
                /\ \A q \in Procs : q # p => job'[q] = job[q]
                /\ gateway[job'[p].order] \in Refused
  <2>1. CASE gateway[o] \in {"FAILED", "CANCELLED"}
    BY <1>1, <1>4, <2>1, BusyJob, ContinuedJob DEF QueryAnswered, Dispatch, Refused, Captured, Step
  <2>2. CASE gateway[o] \notin {"FAILED", "CANCELLED"}
    BY <1>1, <1>4, <2>2, OtherStepsDoNotFail DEF QueryAnswered, Dispatch, Step, Reason
  <2> QED
    BY <2>1, <2>2
<1>5. ASSUME NEW p \in Procs, Abandon(p)
      PROVE  NobodyFails
  BY <1>1, <1>5, OtherStepsDoNotFail DEF Abandon
<1>6. ASSUME job' = job
      PROVE  NobodyFails
  BY <1>6 DEF NobodyFails
<1> QED
  BY <1>2, <1>3, <1>4, <1>5, <1>6 DEF Next, vars, VerifyPaymentIssue, RecordVerdict,
     UpdateOrderStatus, ReservationExpires, GatewayDecides

\* A session that was refused is not opened again: an order has one.
LEMMA RefusedStays ==
  ASSUME IInv, [Next]_vars, NEW o \in Orders, gateway[o] \in Refused
  PROVE  gateway'[o] \in Refused
<1>1. gateway \in [Orders -> GatewayState]
  BY DEF IInv, TypeOK
<1>2. ASSUME NEW p \in Procs, NEW q \in Orders, CreatePayment(p, q)
      PROVE  gateway'[o] \in Refused
  BY <1>1, <1>2 DEF CreatePayment, InitiateAgain, IInv, OrdersInv, OrderInv, Refused
<1>3. ASSUME NEW q \in Orders, GatewayDecides(q)
      PROVE  gateway'[o] \in Refused
  BY <1>1, <1>3 DEF GatewayDecides, Refused
<1>4. ASSUME NEW p \in Procs, NEW q \in Orders, Serve(p, q), ~ CreatePayment(p, q)
      PROVE  gateway' = gateway
  BY <1>4 DEF Serve, CreatePurchase, PlaceOrder, CreatePaymentFails, InitiationThrows,
     ReleaseUninitiatedRead, ReleaseUninitiatedWrite, StorePaymentUrl, StoreAttemptUrl,
     InitiationRejected, InitiationUnconfirmed, VerifyAndProcess, ReconcileUnknownPayments,
     ReconcileExpiredReservations, QueryFails, QueryAnswered, Dispatch, CompletePayment,
     CompleteLatePayment, SettleLate, SettleWith, SettleTo, CompletionRefused,
     LateInventoryUnavailable, MarkRefundPending, FailPayment, FailIf, RereadAfterFail,
     MarkUnknownRead, MarkUnknownWrite, MarkIn
<1> QED
  BY <1>2, <1>3, <1>4 DEF Next, vars, Abandon, VerifyPaymentIssue, RecordVerdict,
     UpdateOrderStatus, ReservationExpires

LEMMA FailuresStayReported ==
  ASSUME IInv, FailuresAreReported, [Next]_vars
  PROVE  FailuresAreReported'
<1> SUFFICES ASSUME NEW p \in Procs, job'[p].step = "fail"
             PROVE  gateway'[job'[p].order] \in Refused
  BY DEF FailuresAreReported
<1>1. CASE job[p].step = "fail" /\ job'[p].order = job[p].order
  <2>1. job[p].order \in Orders /\ gateway[job[p].order] \in Refused
    BY <1>1 DEF FailuresAreReported, IInv, JobsAreSound, SoundJob
  <2> QED
    BY <1>1, <2>1, RefusedStays
<1>2. CASE ~ (job[p].step = "fail" /\ job'[p].order = job[p].order)
  <2>1. PICK q \in Procs : /\ gateway' = gateway
                           /\ \A r \in Procs : r # q => job'[r] = job[r]
                           /\ gateway[job'[q].order] \in Refused
    BY <1>2, FailsOnAnswer DEF NobodyFails
  <2>2. p = q
    BY <1>2, <2>1
  <2> QED
    BY <2>1, <2>2
<1> QED
  BY <1>1, <1>2

\* No process has come to release in the catch.
NobodyGivesUp ==
  \A p \in Procs, o \in Orders : Busy(p, "release", o)' => Busy(p, "release", o)

LEMMA OtherStepsDoNotGiveUp ==
  ASSUME job \in [Procs -> Job], NEW p \in Procs,
         \/ Finish(p)
         \/ \E step \in Step \ {"release"}, o \in Orders, sweep \in BOOLEAN :
               Start(p, step, o, sweep)
         \/ \E step \in Step \ {"release"},
               carry \in {"none", "FAILED", "CANCELLED"} \cup Reason : Continue(p, step, carry)
  PROVE  NobodyGivesUp
<1>1. CASE Finish(p)
  BY <1>1, FinishedJob DEF NobodyGivesUp, Busy
<1>2. CASE \E step \in Step \ {"release"}, o \in Orders, sweep \in BOOLEAN : Start(p, step, o, sweep)
  BY <1>2, StartedJob DEF NobodyGivesUp, Busy
<1>3. CASE \E step \in Step \ {"release"},
             carry \in {"none", "FAILED", "CANCELLED"} \cup Reason : Continue(p, step, carry)
  BY <1>3, ContinuedJob DEF NobodyGivesUp, Busy
<1> QED
  BY <1>1, <1>2, <1>3

LEMMA OnlyCreatePaymentFailsGivesUp ==
  ASSUME IInv, [Next]_vars, ~ \E p \in Procs, o \in Orders : CreatePaymentFails(p, o)
  PROVE  NobodyGivesUp
<1>1. job \in [Procs -> Job]
  BY DEF IInv, TypeOK
<1>2. ASSUME NEW p \in Procs, NEW o \in Orders, Serve(p, o)
      PROVE  NobodyGivesUp
  <2> USE <1>1 DEF Step, Reason
  <2>1. CASE \/ CreatePurchase(p, o) \/ CreatePayment(p, o) \/ VerifyAndProcess(p, o)
             \/ ReconcileUnknownPayments(p, o) \/ ReconcileExpiredReservations(p, o)
    BY <2>1, OtherStepsDoNotGiveUp
       DEF CreatePurchase, PlaceOrder, CreatePayment, InitiateAgain, VerifyAndProcess,
           ReconcileUnknownPayments, ReconcileExpiredReservations
  <2>2. CASE \/ ReleaseUninitiatedWrite(p, o) \/ StoreAttemptUrl(p, o)
             \/ CompletePayment(p, o) \/ CompleteLatePayment(p, o)
             \/ CompletionRefused(p, o) \/ MarkRefundPending(p, o)
    BY <2>2, OtherStepsDoNotGiveUp
       DEF ReleaseUninitiatedWrite, StoreAttemptUrl, CompletePayment, CompleteLatePayment,
           SettleLate, CompletionRefused, MarkRefundPending
  <2>3. CASE \/ ReleaseUninitiatedRead(p, o) \/ StorePaymentUrl(p, o)
             \/ InitiationRejected(p, o) \/ InitiationUnconfirmed(p, o)
             \/ LateInventoryUnavailable(p, o)
             \/ FailPayment(p, o) \/ RereadAfterFail(p, o) \/ MarkUnknownWrite(p, o)
    BY <2>3, OtherStepsDoNotGiveUp
       DEF ReleaseUninitiatedRead, StorePaymentUrl, InitiationRejected, InitiationUnconfirmed,
           LateInventoryUnavailable, FailPayment, FailIf, RereadAfterFail, MarkUnknownWrite, MarkIn, AfterMark
  <2>4. CASE QueryAnswered(p, o)
    BY <2>4, OtherStepsDoNotGiveUp DEF QueryAnswered, Dispatch
  <2>5. CASE MarkUnknownRead(p, o)
    <3>1. job[p].carry \in Reason
      BY <2>5, BusyJob DEF MarkUnknownRead
    <3> QED
      BY <2>5, <3>1, OtherStepsDoNotGiveUp DEF MarkUnknownRead, AfterMark
  <2>6. CASE QueryFails(p, o)
    BY <2>6 DEF QueryFails, NobodyGivesUp, Busy, Job
  <2> QED
    BY <1>2, <2>1, <2>2, <2>3, <2>4, <2>5, <2>6, Zenon DEF Serve
<1>3. ASSUME NEW p \in Procs, Abandon(p)
      PROVE  NobodyGivesUp
  BY <1>1, <1>3, OtherStepsDoNotGiveUp DEF Abandon
<1>4. ASSUME job' = job
      PROVE  NobodyGivesUp
  BY <1>4 DEF NobodyGivesUp, Busy
<1> QED
  BY <1>2, <1>3, <1>4 DEF Next, vars, VerifyPaymentIssue, RecordVerdict,
     UpdateOrderStatus, ReservationExpires, GatewayDecides

\* A checkout gives its order up only when there is no payment, hence no session.
LEMMA GivesUpWithoutSession ==
  ASSUME IInv, [Next]_vars, NEW p \in Procs, NEW o \in Orders,
         ~ Busy(p, "release", o), Busy(p, "release", o)'
  PROVE  gateway[o] = "NONE"
<1>1. PICK q \in Procs, r \in Orders : CreatePaymentFails(q, r)
  BY OnlyCreatePaymentFailsGivesUp DEF NobodyGivesUp
<1>2. job \in [Procs -> Job]
  BY DEF IInv, TypeOK
<1>3. CASE pay[r] = NoRow
  <2>1. /\ job'[q].step = "release" /\ job'[q].order = r
        /\ \A x \in Procs : x # q => job'[x] = job[x]
    BY <1>1, <1>2, <1>3, StartedJob DEF CreatePaymentFails, Step
  <2>2. o = r
    BY <2>1 DEF Busy
  <2> QED
    BY <1>3, <2>2 DEF IInv, OrdersInv, OrderInv
<1>4. CASE pay[r] # NoRow
  BY <1>1, <1>2, <1>4, OtherStepsDoNotGiveUp DEF CreatePaymentFails, NobodyGivesUp
<1> QED
  BY <1>3, <1>4

\* A reservation is given up only by a handler that records a failure, or by the
\* catch of a checkout whose initiation threw.
LEMMA ReleasedBy ==
  ASSUME IInv, [Next]_vars, NEW c \in Codes, codeStatus[c] = "RESERVED", codeStatus'[c] = "AVAILABLE"
  PROVE  \/ \E p \in Procs : job[p].step = "fail" /\ job[p].order = codeOwner[c]
         \/ ReleasedByCatch(codeOwner[c])
<1>1. ASSUME NEW p \in Procs, NEW o \in Orders, FailPayment(p, o)
      PROVE  job[p].step = "fail" /\ job[p].order = codeOwner[c]
  BY <1>1 DEF FailPayment, FailIf, ReleaseGiftCardReservation, HeldBy, Busy, stockVars
<1>5. ASSUME NEW p \in Procs, NEW o \in Orders, ReleaseUninitiatedWrite(p, o)
      PROVE  ReleasedByCatch(codeOwner[c])
  <2>1. o = codeOwner[c]
    BY <1>5 DEF ReleaseUninitiatedWrite, ReleaseGiftCardReservation, HeldBy
  <2> QED
    BY <1>5, <2>1, CatchReleases
<1>2. ASSUME NEW p \in Procs, NEW o \in Orders, CreatePurchase(p, o)
      PROVE  FALSE
  BY <1>2 DEF CreatePurchase, PlaceOrder
<1>3. ASSUME NEW p \in Procs, NEW o \in Orders, CompletePayment(p, o) \/ CompleteLatePayment(p, o)
      PROVE  FALSE
  BY <1>3 DEF CompletePayment, CompleteLatePayment, SettleLate, SettleWith, SettleTo
<1>4. ASSUME NEW p \in Procs, NEW o \in Orders, Serve(p, o)
      PROVE  \/ CreatePurchase(p, o) \/ CompletePayment(p, o) \/ CompleteLatePayment(p, o)
             \/ FailPayment(p, o) \/ ReleaseUninitiatedWrite(p, o)
  BY <1>4 DEF Serve, stockVars, CreatePayment, InitiateAgain,
     CreatePaymentFails, InitiationThrows, ReleaseUninitiatedRead, StorePaymentUrl,
     StoreAttemptUrl, InitiationRejected, InitiationUnconfirmed, VerifyAndProcess,
     ReconcileUnknownPayments, ReconcileExpiredReservations, QueryFails, QueryAnswered,
     Dispatch, CompletionRefused, LateInventoryUnavailable, MarkRefundPending,
     RereadAfterFail, MarkUnknownRead, MarkUnknownWrite, MarkIn
<1> QED
  BY <1>1, <1>2, <1>3, <1>4, <1>5 DEF Next, vars, stockVars, Abandon, VerifyPaymentIssue, RecordVerdict,
     UpdateOrderStatus, ReservationExpires, GatewayDecides

\* Timeouts, expiries and queries without an answer give no reservation up: failPayment
\* is reached only with the gateway's own word that the session was not paid.  The other
\* release is in the catch of createPurchase, which decides on it only while the order has
\* no payment and so no session; another request can open one before it is written.
THEOREM OpenSessionsKeepTheirCodes == Spec => NoReleaseUnderOpenSession
<1> DEFINE Kept ==
             /\ \A c \in Codes :
                  codeStatus[c] = "RESERVED" /\ codeStatus'[c] = "AVAILABLE" =>
                    ~ OpenSession(codeOwner[c]) \/ ReleasedByCatch(codeOwner[c])
             /\ \A p \in Procs, o \in Orders :
                  ~ Busy(p, "release", o) /\ Busy(p, "release", o)' => ~ OpenSession(o)
<1>1. Init => FailuresAreReported
  BY DEF Init, Idle, FailuresAreReported
<1>2. IInv /\ FailuresAreReported /\ [Next]_vars => FailuresAreReported'
  BY FailuresStayReported
<1>3. IInv /\ FailuresAreReported /\ [Next]_vars => [Kept]_vars
  <2>1. ASSUME IInv, FailuresAreReported, [Next]_vars, NEW c \in Codes,
               codeStatus[c] = "RESERVED", codeStatus'[c] = "AVAILABLE"
        PROVE  gateway[codeOwner[c]] \in Refused \/ ReleasedByCatch(codeOwner[c])
    BY <2>1, ReleasedBy DEF FailuresAreReported
  <2>2. \A o : gateway[o] \in Refused \cup {"NONE"} => ~ OpenSession(o)
    BY DEF Refused, OpenSession
  <2> QED
    BY <2>1, <2>2, GivesUpWithoutSession
<1> QED
  BY <1>1, <1>2, <1>3, InitEstablishes, NextKeeps, PTL DEF Spec, NoReleaseUnderOpenSession
==============================================================================
