---------------------------- MODULE GameTopUpProofs ----------------------------
(***************************************************************************)
(* The fulfilment of game top-ups, for every number of orders, callbacks,   *)
(* workers and administrators, wherever processes stop, and whatever the    *)
(* provider answers.                                                        *)
(*                                                                         *)
(* The argument: an item leaves the queue once.  After that it belongs to    *)
(* the provider, if attempts were counted, or to an administrator, and never *)
(* to both.  Where failures are final, a submission that is under way is the *)
(* only one, and the errors that free an item for another are its own; where *)
(* claims do not go stale under a call, a claim excludes every other call.   *)
(* Either way an item that may be submitted again is not at the provider.    *)
(***************************************************************************)
EXTENDS GameTopUp, TLAPS

Unpaid == {NoRow, "PENDING", "PROCESSING", "UNKNOWN"} \cup LateTerminal
Working == {"PROCESSING", "PROVIDER_PENDING", "FAILED_RETRYABLE"}

\* The type of the state the argument looks at.
Types ==
  /\ orderPay \in [Orders -> PaymentStatus \cup {NoRow}]
  /\ item \in [Orders -> DeliveryStatus]
  /\ attempts \in [Orders -> Nat]
  /\ claimedBy \in [Orders -> Admins \cup {NoAdmin}]
  /\ provider \in [Orders -> Records]
  /\ job \in [Procs -> Job]

\* The answers that say that nothing is submitted.
Failures == {"DOWN", "BROKEN", "REJECTED"}

\* One order: who has it, and what its status says of the provider.
OrderSound(o) ==
  /\ item[o] \in Initial \cup {"CANCELLED"} => attempts[o] = 0 /\ claimedBy[o] = NoAdmin
  /\ claimedBy[o] # NoAdmin => attempts[o] = 0
  /\ item[o] \in Working => claimedBy[o] # NoAdmin \/ attempts[o] > 0
  /\ item[o] = "DELIVERED" /\ claimedBy[o] = NoAdmin => provider[o] = "SUCCESS"
  /\ Orderly /\ item[o] = "FAILED_FINAL" => provider[o] \in Open \cup {"FAILED"}
  /\ Orderly /\ item[o] = "FAILED_RETRYABLE" => provider[o] \in Open
  /\ scenario.final => provider[o] # "REJECTED"
  /\ provider[o] # "none" => attempts[o] > 0
  /\ orderPay[o] \in Unpaid => attempts[o] = 0 /\ item[o] \in {"PENDING", "CANCELLED"}

\* One process between its claim and its settlement.
CallSound(p) ==
  Calling(p) =>
    /\ job[p].order \in Orders /\ job[p].op \in {"SUBMIT", "QUERY"}
    /\ attempts[job[p].order] > 0
    /\ job[p].step \in {"settle", "write"} =>
         /\ job[p].answer \in Answers
         /\ job[p].answer \in {"SUCCESS", "FAILED"} => provider[job[p].order] = job[p].answer
         /\ Orderly /\ job[p].answer \in Failures => provider[job[p].order] \in Open
         /\ scenario.final /\ job[p].answer \in Failures => job[p].op = "SUBMIT" /\ job[p].answer # "REJECTED"
    /\ Orderly /\ job[p].op = "SUBMIT" =>
         /\ item[job[p].order] \notin Initial \cup {"FAILED_RETRYABLE"}
         /\ \A q \in Procs : Submitting(q, job[p].order) => q = p
         /\ job[p].step = "call" => provider[job[p].order] \in Open /\ item[job[p].order] # "FAILED_FINAL"

\* An administrator, or a claim, who read a paid order is going to start it.
StartSound(p) ==
  job[p].step \in {"start", "locked"} =>
    orderPay[job[p].order] \notin Unpaid /\ (job[p].step = "start" => p \in Admins)

\* While claims do not go stale under calls, a claim excludes every other call.
Alone(p) ==
  scenario.prompt /\ Calling(p) =>
    /\ item[job[p].order] = "PROCESSING" /\ stale[job[p].order] = FALSE
    /\ \A q \in Procs : Calling(q) /\ job[q].order = job[p].order => q = p

ClaimsExclude == stale \in [Orders -> BOOLEAN] /\ \A p \in Procs : Alone(p)

IInv ==
  /\ Types
  /\ \A o \in Orders : OrderSound(o)
  /\ \A p \in Procs : CallSound(p) /\ StartSound(p)

------------------------------------------------------------------------------

LEMMA InitIInv == Init => IInv
BY TopUpConstants DEF Init, IInv, Records, Orderly, Types, OrderSound, CallSound, StartSound, Calling, Initial, Working, Unpaid, Idle, Job,
   DeliveryStatus, PaymentStatus, Payable, NoRow, LateTerminal

LEMMA Vocabulary ==
  /\ "PAID" \notin Unpaid /\ (\A v \in RefundVerdicts : v \notin Unpaid) /\ RefundVerdicts \subseteq PaymentStatus
  /\ Unpaid \subseteq PaymentStatus \cup {NoRow} /\ "PAID" \in PaymentStatus
  /\ \A s \in Initial : s \notin Working \cup Resolved
  /\ \A s \in Working : s \notin Resolved
  /\ NoOrder \notin Orders /\ Initial = {"PENDING", "QUEUED"}
  /\ Working \cup Resolved \cup Initial \subseteq DeliveryStatus
BY TopUpConstants DEF Unpaid, RefundVerdicts, PaymentStatus, Payable, LateTerminal, NoRow, Initial, Working, Resolved,
   DeliveryStatus

\* Steps that leave the orders alone, after which a process is not between a claim
\* and a settlement if it was not before.
LEMMA QuietStep ==
  ASSUME IInv, UNCHANGED <<orderPay, item, attempts, claimedBy, provider, scenario>>,
         job' \in [Procs -> Job],
         \A p \in Procs : job'[p] = job[p] \/ job'[p].step \notin {"locked", "call", "settle", "write", "start"}
  PROVE  IInv'
<1>1. Types'
  BY DEF IInv, Types
<1>2. ASSUME NEW o \in Orders PROVE OrderSound(o)'
  BY DEF IInv, OrderSound, Orderly
<1>3. ASSUME NEW p \in Procs PROVE CallSound(p)' /\ StartSound(p)'
  BY DEF IInv, CallSound, StartSound, Calling, Submitting, Orderly
<1> QED
  BY <1>1, <1>2, <1>3 DEF IInv

\* A process begins an operation, or ends one.
LEMMA StartsQuietly ==
  ASSUME IInv, NEW p \in Procs, NEW o \in Orders, NEW step \in {"claim", "notify", "send"},
         Start(p, step, o) \/ Finish(p),
         UNCHANGED <<orderPay, item, attempts, claimedBy, provider, scenario>>
  PROVE  IInv'
<1>1. job \in [Procs -> Job]
  BY DEF IInv, Types
<1>2. /\ [step |-> step, order |-> o, op |-> "none", attempt |-> 0, answer |-> "none"] \in Job
      /\ Idle \in Job /\ Idle.step = "idle"
  BY DEF Job, Idle
<1>3. job' \in [Procs -> Job] /\ \A q \in Procs : job'[q] = job[q] \/ job'[q].step \notin {"locked", "call", "settle", "write", "start"}
  BY <1>1, <1>2 DEF Start, Finish
<1> QED
  BY <1>3, QuietStep

------------------------------------------------------------------------------
(* The provider *)

\* Nobody submits an item that waits in the queue or for a retry, and the provider
\* has no record of it but a retryable failure.
LEMMA FreeToSubmit ==
  ASSUME IInv, Orderly, NEW o \in Orders, CanSubmit(o)
  PROVE  provider[o] \in Open /\ \A q \in Procs : ~Submitting(q, o)
<1>1. item[o] \in Initial \cup {"FAILED_RETRYABLE"}
  BY DEF CanSubmit
<1>2. OrderSound(o) /\ provider[o] \in Records /\ attempts[o] \in Nat
  BY DEF IInv, Types
<1>3. \A q \in Procs : ~Submitting(q, o)
  BY <1>1 DEF IInv, CallSound, Submitting
<1> QED
  BY <1>1, <1>2, <1>3, TopUpConstants DEF OrderSound, Open

\* A process that read a paid order goes on to its claim or its settlement.
LEMMA ReadPaidIInv ==
  ASSUME IInv, NEW p \in Procs, ReadPaid(p, "claim", "locked") \/ ReadPaid(p, "settle", "write")
  PROVE  IInv'
<1>1. PICK next \in {"locked", "write"} :
        /\ job[p].step = (IF next = "locked" THEN "claim" ELSE "settle") /\ orderPay[job[p].order] = "PAID"
        /\ job' = [job EXCEPT ![p].step = next]
        /\ UNCHANGED <<orderPay, item, attempts, claimedBy, provider, scenario>>
  BY DEF ReadPaid, At, orderVars, attemptVars
<1>2. /\ Types /\ job[p] \in Job /\ job'[p] = [job[p] EXCEPT !.step = next]
      /\ \A q \in Procs : q # p => job'[q] = job[q]
  BY <1>1 DEF IInv, Types
<1>3. /\ job'[p] \in Job /\ job'[p].step = next /\ job'[p].order = job[p].order /\ job'[p].op = job[p].op
      /\ job'[p].answer = job[p].answer
  BY <1>2 DEF Job
<1>4. Types' /\ \A x \in Orders : OrderSound(x)'
  BY <1>1, <1>2, <1>3 DEF IInv, Types, OrderSound, Orderly
<1>5. \A q \in Procs, x \in Orders : (Submitting(q, x))' => Submitting(q, x)
  BY <1>1, <1>2, <1>3 DEF Submitting, Calling
<1>6. ASSUME NEW q \in Procs PROVE CallSound(q)'
  <2>1. CallSound(q)
    BY DEF IInv
  <2>2. Calling(q)' => Calling(q) /\ job'[q].order = job[q].order /\ job'[q].op = job[q].op
                       /\ job'[q].answer = job[q].answer
                       /\ (job'[q].step = "call" => job[q].step = "call")
                       /\ (job'[q].step \in {"settle", "write"} => job[q].step \in {"settle", "write"})
    BY <1>1, <1>2, <1>3 DEF Calling
  <2> QED
    BY <1>1, <1>5, <2>1, <2>2 DEF CallSound, Orderly
<1>7. \A q \in Procs : StartSound(q)'
  BY <1>1, <1>2, <1>3, Vocabulary DEF IInv, StartSound
<1> QED
  BY <1>4, <1>6, <1>7 DEF IInv

LEMMA ClaimIInv ==
  ASSUME IInv, NEW p \in Procs, NEW o \in Orders, ClaimItem(p, o)
  PROVE  IInv'
<1> DEFINE op == IF CanQuery(o) THEN "QUERY" ELSE "SUBMIT"
           j == [step |-> "call", order |-> o, op |-> op, attempt |-> attempts[o] + 1, answer |-> "none"]
<1>1. /\ orderPay[o] \notin Unpaid /\ claimedBy[o] = NoAdmin /\ (CanSubmit(o) \/ CanQuery(o))
      /\ item' = [item EXCEPT ![o] = "PROCESSING"] /\ attempts' = [attempts EXCEPT ![o] = @ + 1]
      /\ job' = [job EXCEPT ![p] = j] /\ UNCHANGED <<orderPay, claimedBy, provider, scenario>>
  BY DEF ClaimItem, ClaimIf, At, IInv, StartSound
<1>2. Types /\ attempts[o] \in Nat /\ attempts' \in [Orders -> Nat] /\ attempts'[o] > 0
  BY <1>1 DEF IInv, Types
<1>3. j \in Job /\ j.step = "call" /\ j.order = o /\ j.op = op /\ op \in {"SUBMIT", "QUERY"}
  BY <1>2 DEF Job
<1>4. op = "SUBMIT" => CanSubmit(o)
  BY <1>1
<1> HIDE DEF j, op
<1>5. Types'
  BY <1>1, <1>2, <1>3 DEF Types, DeliveryStatus
<1>6. ASSUME NEW x \in Orders PROVE OrderSound(x)'
  <2>1. CASE x = o
    <3>1. /\ item'[x] = "PROCESSING" /\ attempts'[x] > 0 /\ orderPay'[x] \notin Unpaid
          /\ claimedBy'[x] = NoAdmin
      BY <1>1, <1>2, <2>1 DEF Types
    <3>2. "PROCESSING" \notin Initial \cup {"CANCELLED", "DELIVERED", "FAILED_FINAL", "FAILED_RETRYABLE"}
      BY Vocabulary DEF Initial
    <3>3. scenario'.final => provider'[x] # "REJECTED"
      BY <1>1 DEF IInv, OrderSound
    <3> QED
      BY <3>1, <3>2, <3>3 DEF OrderSound
  <2>2. CASE x # o
    <3>1. item'[x] = item[x] /\ attempts'[x] = attempts[x]
      BY <1>1, <2>2 DEF IInv, Types
    <3> QED
      BY <1>1, <3>1 DEF IInv, OrderSound, Orderly
  <2> QED
    BY <2>1, <2>2
<1>7. job'[p] = j /\ \A q \in Procs : q # p => job'[q] = job[q]
  BY <1>1 DEF IInv, Types
<1>8. \A x \in Orders : attempts[x] > 0 => attempts'[x] > 0
  BY <1>1, <1>2 DEF IInv, Types
<1>9. \A x \in Orders : item'[x] = item[x] \/ (x = o /\ item'[x] = "PROCESSING")
  BY <1>1 DEF IInv, Types
<1>10. Orderly /\ op = "SUBMIT" => provider[o] \in Open /\ \A q \in Procs : ~Submitting(q, o)
  BY <1>4, FreeToSubmit
<1>11. ASSUME NEW q \in Procs PROVE CallSound(q)'
  <2>1. CASE q = p
    <3>1. \A r \in Procs : Orderly /\ op = "SUBMIT" /\ (Submitting(r, o))' => r = p
      BY <1>7, <1>10 DEF Submitting, Calling
    <3>2. item'[o] \notin Initial \cup {"FAILED_RETRYABLE", "FAILED_FINAL"}
      BY <1>1 DEF IInv, Types, Initial
    <3> QED
      BY <1>1, <1>2, <1>3, <1>7, <1>10, <2>1, <3>1, <3>2 DEF CallSound, Calling, Orderly
  <2>2. CASE q # p
    <3>1. CallSound(q) /\ job'[q] = job[q]
      BY <1>7, <2>2 DEF IInv
    <3>2. ASSUME Orderly, Calling(q), job[q].op = "SUBMIT"
          PROVE  /\ item'[job[q].order] \notin Initial \cup {"FAILED_RETRYABLE"}
                 /\ job[q].step = "call" => item'[job[q].order] # "FAILED_FINAL"
                 /\ \A r \in Procs : (Submitting(r, job[q].order))' => r = q
      <4>1. /\ item[job[q].order] \notin Initial \cup {"FAILED_RETRYABLE"} /\ job[q].order \in Orders
            /\ job[q].step = "call" => item[job[q].order] # "FAILED_FINAL"
            /\ \A r \in Procs : Submitting(r, job[q].order) => r = q
        BY <3>1, <3>2 DEF CallSound
      <4>2. ~(op = "SUBMIT" /\ job[q].order = o)
        BY <1>10, <3>2 DEF Submitting
      <4>3. ~Submitting(p, job[q].order)'
        BY <1>3, <1>7, <3>1, <4>2 DEF Submitting
      <4> QED
        BY <1>7, <1>9, <3>1, <4>1, <4>3 DEF Submitting, Calling, Initial
    <3> QED
      BY <1>1, <1>8, <3>1, <3>2 DEF CallSound, Calling, Orderly
  <2> QED
    BY <2>1, <2>2
<1>12. \A q \in Procs : StartSound(q)'
  BY <1>1, <1>3, <1>7 DEF IInv, StartSound
<1> QED
  BY <1>5, <1>6, <1>11, <1>12 DEF IInv

\* The provider answers p and has this record afterwards.
LEMMA AnsweredIInv ==
  ASSUME IInv, ClaimsExclude, NEW p \in Procs, NEW answer \in Answers,
         NEW record \in Records,
         job[p].step = "call", Answered(p, answer, record),
         LET before == provider[job[p].order]
         IN  /\ before \in {"SUCCESS", "FAILED"} => record = before
             /\ record # before => before = "PENDING" \/ job[p].op = "SUBMIT",
         answer \in {"SUCCESS", "FAILED"} => record = answer,
         answer \in Failures => record \in Open,
         scenario.final => record # "REJECTED",
         scenario.final /\ answer \in Failures => job[p].op = "SUBMIT" /\ answer # "REJECTED"
  PROVE  IInv'
<1> DEFINE o == job[p].order
           j == [step |-> "settle", order |-> o, op |-> job[p].op,
                 attempt |-> job[p].attempt, answer |-> answer]
<1>1. /\ provider' = [provider EXCEPT ![o] = record] /\ job' = [job EXCEPT ![p] = j]
      /\ UNCHANGED <<orderPay, item, attempts, claimedBy, scenario>>
  BY DEF Answered, attemptVars, orderVars
<1>2. /\ Types /\ job[p] \in Job /\ o \in Orders /\ attempts[o] > 0 /\ job[p].op \in {"SUBMIT", "QUERY"}
      /\ Orderly /\ job[p].op = "SUBMIT" =>
           /\ item[o] \notin Initial \cup {"FAILED_RETRYABLE", "FAILED_FINAL"} /\ provider[o] \in Open
           /\ \A q \in Procs : Submitting(q, o) => q = p
  BY DEF IInv, Types, CallSound, Calling
<1>3. j \in Job /\ j.step = "settle" /\ j.order = o /\ j.op = job[p].op /\ j.answer = answer
  BY <1>2 DEF Job, Answers
<1> HIDE DEF j
<1>4. job'[p] = j /\ \A q \in Procs : q # p => job'[q] = job[q]
  BY <1>1, <1>2 DEF Types
<1>5. provider'[o] = record /\ \A x \in Orders : x # o => provider'[x] = provider[x]
  BY <1>1, <1>2 DEF Types
<1>6. Types'
  BY <1>1, <1>2, <1>3 DEF Types
<1>7. ASSUME NEW x \in Orders PROVE OrderSound(x)'
  <2>1. CASE x = o
    <3>1. OrderSound(o)
      BY <1>2 DEF IInv
    <3>2. Orderly /\ item[o] = "FAILED_RETRYABLE" => record \in Open
      BY <1>2, <3>1 DEF OrderSound, Open
    <3>3. item[o] = "DELIVERED" /\ claimedBy[o] = NoAdmin => record = "SUCCESS"
      BY <3>1 DEF OrderSound
    <3>4. Orderly /\ item[o] = "FAILED_FINAL" => record \in Open \cup {"FAILED"}
      BY <1>2, <3>1 DEF OrderSound, Open
    <3> QED
      BY <1>1, <1>2, <1>5, <2>1, <3>1, <3>2, <3>3, <3>4 DEF OrderSound, Orderly
  <2>2. CASE x # o
    BY <1>1, <1>5, <2>2 DEF IInv, OrderSound, Orderly
  <2> QED
    BY <2>1, <2>2
<1>8. \A q \in Procs, x \in Orders : (Submitting(q, x))' => Submitting(q, x)
  BY <1>2, <1>3, <1>4 DEF Submitting, Calling
<1>9. ASSUME NEW q \in Procs PROVE CallSound(q)'
  <2>1. CASE q = p
    BY <1>1, <1>2, <1>3, <1>4, <1>5, <1>8, <2>1 DEF CallSound, Calling, Submitting, Orderly
  <2>2. CASE q # p
    <3>1. CallSound(q) /\ job'[q] = job[q]
      BY <1>4, <2>2 DEF IInv
    <3>2. ASSUME Calling(q), job[q].order = o
          PROVE  /\ Orderly /\ job[q].op = "SUBMIT" /\ job[q].step = "call" => record \in Open
                 /\ job[q].step \in {"settle", "write"} /\ job[q].answer \in {"SUCCESS", "FAILED"}
                      => record = job[q].answer
                 /\ Orderly /\ job[q].step \in {"settle", "write"} /\ job[q].answer \in Failures => record \in Open
      <4>1. ~scenario.prompt
        BY <2>2, <3>2 DEF ClaimsExclude, Alone, Calling
      <4>2. Orderly /\ job[q].op = "SUBMIT" => job[p].op # "SUBMIT"
        BY <1>2, <2>2, <3>2 DEF Submitting
      <4>3. Orderly /\ job[q].op = "SUBMIT" /\ job[q].step = "call" => record \in Open
        BY <3>1, <3>2, <4>2 DEF CallSound, Open
      <4>4. job[q].step \in {"settle", "write"} /\ job[q].answer \in {"SUCCESS", "FAILED"} => record = job[q].answer
        BY <3>1, <3>2 DEF CallSound
      <4>5. Orderly /\ job[q].step \in {"settle", "write"} /\ job[q].answer \in Failures => record \in Open
        BY <3>1, <3>2, <4>1, <4>2 DEF CallSound, Orderly, Open
      <4> QED
        BY <4>3, <4>4, <4>5
    <3>3. CASE job[q].order = o
      BY <1>1, <1>5, <1>8, <3>1, <3>2, <3>3 DEF CallSound, Calling, Submitting, Orderly
    <3>4. CASE job[q].order # o
      BY <1>1, <1>5, <1>8, <3>1, <3>4 DEF CallSound, Calling, Submitting, Orderly
    <3> QED
      BY <3>3, <3>4
  <2> QED
    BY <2>1, <2>2
<1>10. \A q \in Procs : StartSound(q)'
  BY <1>1, <1>3, <1>4 DEF IInv, StartSound
<1> QED
  BY <1>6, <1>7, <1>9, <1>10 DEF IInv

LEMMA ProviderIInv ==
  ASSUME IInv, ClaimsExclude, NEW p \in Procs, TopUp(p) \/ QueryTopUp(p)
  PROVE  IInv'
<1> DEFINE o == job[p].order
<1>1. /\ job[p].step = "call" /\ o \in Orders /\ provider[o] \in Records
      /\ scenario.final => provider[o] # "REJECTED"
  BY DEF IInv, Types, CallSound, OrderSound, Calling, TopUp, QueryTopUp, At
<1>2. CASE TopUp(p)
  <2>1. PICK answer \in Answers, record \in Records :
          /\ job[p].op = "SUBMIT" /\ Answered(p, answer, record)
          /\ provider[o] \in {"SUCCESS", "FAILED"} => record = provider[o]
          /\ answer \in {"SUCCESS", "FAILED"} => record = answer
          /\ answer \in Failures => record \in Open
          /\ scenario.final => record # "REJECTED" /\ answer # "REJECTED"
    BY <1>1, <1>2 DEF TopUp, Answers, Records, Open, Failures
  <2> QED
    BY <1>1, <2>1, AnsweredIInv
<1>3. CASE QueryTopUp(p)
  <2>1. PICK answer \in Answers, record \in Records :
          /\ Answered(p, answer, record)
          /\ record = provider[o] \/ provider[o] = "PENDING"
          /\ answer \in {"SUCCESS", "FAILED"} => record = answer
          /\ answer \in Failures => record \in Open
          /\ scenario.final => record # "REJECTED" /\ answer \notin Failures
    BY <1>1, <1>3 DEF QueryTopUp, Answers, Records, Open, Failures
  <2> QED
    BY <1>1, <2>1, AnsweredIInv
<1> QED
  BY <1>2, <1>3

\* What settleItem makes of an answer.
LEMMA FinalStatuses ==
  ASSUME NEW answer \in Answers, NEW attempt \in Nat
  PROVE  LET final == FinalStatus(answer, attempt)
         IN  /\ final \in {"DELIVERED", "MANUAL_REVIEW", "PROVIDER_PENDING", "FAILED_RETRYABLE", "FAILED_FINAL"}
             /\ final = "DELIVERED" => answer = "SUCCESS"
             /\ final = "FAILED_FINAL" => answer \in {"FAILED", "BROKEN"}
             /\ final = "FAILED_RETRYABLE" => answer \in {"REJECTED", "DOWN"}
BY TopUpConstants DEF FinalStatus, StatusFor, Answers

LEMMA SettleIInv ==
  ASSUME IInv, ClaimsExclude, NEW p \in Procs, NEW o \in Orders, SettleItem(p, o)
  PROVE  IInv'
<1> DEFINE final == FinalStatus(job[p].answer, job[p].attempt)
<1>1. /\ job[p].step = "write" /\ job[p].order = o /\ item[o] = "PROCESSING"
      /\ item' = [item EXCEPT ![o] = final] /\ UNCHANGED <<orderPay, attempts, claimedBy, provider, scenario>>
      /\ Start(p, "notify", o) \/ Finish(p)
  BY DEF SettleItem, SettleTo, At
<1>2. /\ Types /\ job[p].attempt \in Nat /\ job[p].answer \in Answers /\ attempts[o] > 0
      /\ job[p].answer \in {"SUCCESS", "FAILED"} => provider[o] = job[p].answer
      /\ Orderly /\ job[p].answer \in Failures => provider[o] \in Open
      /\ scenario.final /\ job[p].answer \in Failures => job[p].op = "SUBMIT" /\ job[p].answer # "REJECTED"
      /\ Orderly /\ job[p].op = "SUBMIT" => \A q \in Procs : Submitting(q, o) => q = p
  BY <1>1 DEF IInv, Types, Job, CallSound, Calling
<1>3. claimedBy[o] = NoAdmin /\ orderPay[o] \notin Unpaid
  BY <1>1, <1>2, TopUpConstants DEF IInv, Types, OrderSound
<1>4. Orderly /\ job[p].answer \in Failures => \A q \in Procs : Submitting(q, o) => q = p
  BY <1>1, <1>2 DEF ClaimsExclude, Alone, Calling, Submitting, Orderly
<1>5. /\ final \in {"DELIVERED", "MANUAL_REVIEW", "PROVIDER_PENDING", "FAILED_RETRYABLE", "FAILED_FINAL"}
      /\ final = "DELIVERED" => provider[o] = "SUCCESS"
      /\ final = "FAILED_FINAL" => job[p].answer \in Failures \/ provider[o] = "FAILED"
      /\ final = "FAILED_RETRYABLE" => job[p].answer \in Failures
  <2> HIDE DEF final
  <2>1. /\ final \in {"DELIVERED", "MANUAL_REVIEW", "PROVIDER_PENDING", "FAILED_RETRYABLE", "FAILED_FINAL"}
        /\ final = "DELIVERED" => job[p].answer = "SUCCESS"
        /\ final = "FAILED_FINAL" => job[p].answer \in {"FAILED", "BROKEN"}
        /\ final = "FAILED_RETRYABLE" => job[p].answer \in {"REJECTED", "DOWN"}
    BY <1>2, FinalStatuses DEF final
  <2> QED
    BY <1>2, <2>1 DEF Failures
<1> HIDE DEF final
<1>6. /\ job' \in [Procs -> Job] /\ job'[p].step \notin {"locked", "call", "settle", "write", "start"}
      /\ \A q \in Procs : q # p => job'[q] = job[q]
  <2>1. [step |-> "notify", order |-> o, op |-> "none", attempt |-> 0, answer |-> "none"] \in Job
        /\ Idle \in Job /\ Idle.step = "idle"
    BY DEF Job, Idle
  <2> QED
    BY <1>1, <1>2, <2>1 DEF Start, Finish, Types
<1>7. item'[o] = final /\ \A x \in Orders : x # o => item'[x] = item[x]
  BY <1>1, <1>2 DEF Types
<1>8. Types'
  BY <1>1, <1>2, <1>5, <1>6 DEF Types, DeliveryStatus
<1>9. ASSUME NEW x \in Orders PROVE OrderSound(x)'
  <2>1. CASE x = o
    <3>1. final \notin Initial \cup {"CANCELLED"} /\ OrderSound(o)
      BY <1>1, <1>5, Vocabulary DEF Initial, IInv
    <3> QED
      BY <1>1, <1>2, <1>3, <1>5, <1>7, <2>1, <3>1 DEF OrderSound, Orderly
  <2>2. CASE x # o
    BY <1>1, <1>7, <2>2 DEF IInv, OrderSound, Orderly
  <2> QED
    BY <2>1, <2>2
<1>10. ASSUME NEW q \in Procs PROVE CallSound(q)'
  <2>1. CASE q = p
    BY <1>6, <2>1 DEF CallSound, Calling
  <2>2. CASE q # p
    <3>1. CallSound(q) /\ job'[q] = job[q]
      BY <1>6, <2>2 DEF IInv
    <3>2. \A r \in Procs, x \in Orders : (Submitting(r, x))' => Submitting(r, x)
      BY <1>6 DEF Submitting, Calling
    <3>3. Orderly /\ Calling(q) /\ job[q].op = "SUBMIT" /\ job[q].order = o
            => final \notin Initial \cup {"FAILED_RETRYABLE"}
      BY <1>4, <1>5, <2>2 DEF Submitting, Initial
    <3>4. Orderly /\ Calling(q) /\ job[q].op = "SUBMIT" /\ job[q].order = o /\ job[q].step = "call"
            => final # "FAILED_FINAL"
      BY <1>4, <1>5, <2>2, <3>1 DEF CallSound, Submitting, Open
    <3>5. CASE job[q].order = o
      BY <1>1, <1>7, <3>1, <3>2, <3>3, <3>4, <3>5 DEF CallSound, Calling, Orderly
    <3>6. CASE job[q].order # o
      BY <1>1, <1>7, <3>1, <3>2, <3>6 DEF CallSound, Calling, Orderly
    <3> QED
      BY <3>5, <3>6
  <2> QED
    BY <2>1, <2>2
<1>11. \A q \in Procs : StartSound(q)'
  BY <1>1, <1>6 DEF IInv, StartSound
<1> QED
  BY <1>8, <1>9, <1>10, <1>11 DEF IInv

------------------------------------------------------------------------------
(* Administrators, customers, payments *)

\* A step that changes the status of an item which no process submits, or which
\* does not go back to the queue or to a retry.
LEMMA ItemStep ==
  ASSUME IInv, NEW o \in Orders, NEW s \in DeliveryStatus \ (Initial \cup {"FAILED_RETRYABLE", "FAILED_FINAL"}),
         item' = [item EXCEPT ![o] = s], NEW by \in Admins \cup {NoAdmin}, claimedBy' = [claimedBy EXCEPT ![o] = by],
         by # NoAdmin => attempts[o] = 0,
         s = "CANCELLED" => attempts[o] = 0 /\ by = NoAdmin,
         s \in Working \cup {"DELIVERED"} => by # NoAdmin,
         s # "CANCELLED" => orderPay[o] \notin Unpaid,
         UNCHANGED <<orderPay, attempts, provider, scenario>>, job' \in [Procs -> Job],
         \A p \in Procs : job'[p] = job[p] \/ job'[p].step \notin {"locked", "call", "settle", "write", "start"}
  PROVE  IInv'
<1>1. Types'
  BY DEF IInv, Types
<1>2. /\ item'[o] = s /\ \A x \in Orders : x # o => item'[x] = item[x]
      /\ claimedBy'[o] = by /\ \A x \in Orders : x # o => claimedBy'[x] = claimedBy[x]
  BY DEF IInv, Types
<1>3. ASSUME NEW x \in Orders PROVE OrderSound(x)'
  <2>1. CASE x = o
    BY <1>2, <2>1 DEF IInv, OrderSound
  <2>2. CASE x # o
    BY <1>2, <2>2 DEF IInv, OrderSound, Orderly
  <2> QED
    BY <2>1, <2>2
<1>4. ASSUME NEW q \in Procs PROVE CallSound(q)'
  <2>1. CASE job'[q].step \notin {"locked", "call", "settle", "write", "start"}
    BY <2>1 DEF CallSound, Calling
  <2>2. CASE job'[q] = job[q]
    <3>1. CallSound(q)
      BY DEF IInv
    <3>2. \A r \in Procs, x \in Orders : (Submitting(r, x))' => Submitting(r, x)
      BY DEF Submitting, Calling
    <3> QED
      BY <1>2, <2>2, <3>1, <3>2 DEF CallSound, Calling, Orderly
  <2> QED
    BY <2>1, <2>2
<1>5. \A q \in Procs : StartSound(q)'
  BY DEF IInv, StartSound
<1> QED
  BY <1>1, <1>3, <1>4, <1>5 DEF IInv

\* An administrator has the item.
LEMMA AdminItemStep ==
  ASSUME IInv, NEW o \in Orders, NEW s \in {"PROCESSING", "DELIVERED", "FAILED"}, NEW by \in Admins,
         item' = [item EXCEPT ![o] = s], claimedBy' = [claimedBy EXCEPT ![o] = by],
         attempts[o] = 0, orderPay[o] \notin Unpaid,
         UNCHANGED <<orderPay, attempts, provider, scenario>>, job' \in [Procs -> Job],
         \A p \in Procs : job'[p] = job[p] \/ job'[p].step \notin {"locked", "call", "settle", "write", "start"}
  PROVE  IInv'
<1>1. /\ s \in DeliveryStatus \ (Initial \cup {"FAILED_RETRYABLE", "FAILED_FINAL"})
      /\ by \in Admins \cup {NoAdmin} /\ by # NoAdmin /\ s # "CANCELLED"
  BY TopUpConstants DEF DeliveryStatus, Initial
<1> QED
  BY <1>1, ItemStep

\* A payment that was not paid has neither been queued nor submitted.
LEMMA PayStep ==
  ASSUME IInv, NEW o \in Orders, NEW s \in PaymentStatus, orderPay' = [orderPay EXCEPT ![o] = s],
         s \in Unpaid => orderPay[o] \in Unpaid,
         UNCHANGED <<item, attempts, claimedBy, provider, scenario>>, job' \in [Procs -> Job],
         \A p \in Procs : job'[p] = job[p] \/ job'[p].step \notin {"locked", "call", "settle", "write", "start"}
  PROVE  IInv'
<1>1. Types'
  BY DEF IInv, Types
<1>2. orderPay'[o] = s /\ \A x \in Orders : x # o => orderPay'[x] = orderPay[x]
  BY DEF IInv, Types
<1>3. ASSUME NEW x \in Orders PROVE OrderSound(x)'
  BY <1>2 DEF IInv, OrderSound, Orderly
<1>4. ASSUME NEW q \in Procs PROVE CallSound(q)'
  <2>1. CallSound(q) /\ \A r \in Procs, x \in Orders : (Submitting(r, x))' => Submitting(r, x)
    BY DEF IInv, Submitting, Calling
  <2> QED
    BY <2>1 DEF CallSound, Calling, Orderly
<1>5. ASSUME NEW q \in Procs PROVE StartSound(q)'
  <2>1. StartSound(q)
    BY DEF IInv
  <2>2. \A x : orderPay'[x] = orderPay[x] \/ (x = o /\ orderPay'[x] = s)
    BY DEF IInv, Types
  <2> QED
    BY <2>1, <2>2 DEF StartSound
<1> QED
  BY <1>1, <1>3, <1>4, <1>5 DEF IInv

LEMMA JobKept == IInv => job \in [Procs -> Job]
BY DEF IInv, Types

\* A process that begins or ends, also when it settles a payment.
LEMMA JobStarts ==
  ASSUME IInv, NEW p \in Procs, NEW o \in Orders, NEW step \in {"claim", "notify", "send"},
         Start(p, step, o) \/ Finish(p)
  PROVE  /\ job' \in [Procs -> Job]
         /\ \A q \in Procs : job'[q] = job[q] \/ job'[q].step \notin {"locked", "call", "settle", "write", "start"}
<1>1. /\ [step |-> step, order |-> o, op |-> "none", attempt |-> 0, answer |-> "none"] \in Job
      /\ Idle \in Job /\ Idle.step = "idle"
  BY DEF Job, Idle
<1> QED
  BY <1>1, JobKept DEF Start, Finish

LEMMA PaymentIInv ==
  ASSUME IInv, NEW o \in Orders,
         \/ CreateOrder(o) \/ StartPayment(o) \/ MarkUnknown(o) \/ FailPayment(o)
         \/ \E verdict \in Verdicts : VerifyPaymentIssue(o, verdict)
         \/ \E p \in Procs : CompletePayment(p, o)
  PROVE  IInv'
<1>0. \A p \in Procs : job[p] = job[p]
  OBVIOUS
<1>1. {"PENDING", "PROCESSING", "UNKNOWN", "FAILED", "CANCELLED", "PAID"} \subseteq PaymentStatus
      /\ {NoRow, "PENDING", "PROCESSING", "UNKNOWN", "FAILED", "CANCELLED"} \subseteq Unpaid /\ "PAID" \notin Unpaid
  BY DEF PaymentStatus, Payable, LateTerminal, Unpaid, NoRow
<1>2. CASE CreateOrder(o)
  BY <1>1, <1>2, JobKept, PayStep DEF CreateOrder, attemptVars
<1>3. CASE StartPayment(o)
  BY <1>1, <1>3, JobKept, PayStep DEF StartPayment, attemptVars
<1>4. CASE MarkUnknown(o)
  BY <1>1, <1>4, JobKept, PayStep DEF MarkUnknown, attemptVars
<1>5. CASE FailPayment(o)
  BY <1>1, <1>5, JobKept, PayStep DEF FailPayment, FailFrom, attemptVars
<1>6. ASSUME NEW verdict \in Verdicts, VerifyPaymentIssue(o, verdict) PROVE IInv'
  <2>1. verdict \in PaymentStatus /\ verdict \notin Unpaid
    BY Vocabulary, TopUpConstants
  <2> QED
    BY <1>6, <2>1, JobKept, PayStep DEF VerifyPaymentIssue, attemptVars
<1>7. ASSUME NEW p \in Procs, CompletePayment(p, o) PROVE IInv'
  <2>1. /\ orderPay' = [orderPay EXCEPT ![o] = "PAID"] /\ Start(p, "claim", o)
        /\ UNCHANGED <<item, attempts, claimedBy, provider, scenario>>
    BY <1>7 DEF CompletePayment, attemptVars
  <2>2. /\ job' \in [Procs -> Job]
        /\ \A q \in Procs : job'[q] = job[q] \/ job'[q].step \notin {"locked", "call", "settle", "write", "start"}
    BY <2>1, JobStarts
  <2> QED
    BY <1>1, <2>1, <2>2, PayStep
<1> QED
  BY <1>2, <1>3, <1>4, <1>5, <1>6, <1>7

LEMMA CancelIInv ==
  ASSUME IInv, NEW o \in Orders, Cancel(o)
  PROVE  IInv'
<1>0. Types /\ OrderSound(o)
  BY DEF IInv
<1>1. item[o] = "PENDING" /\ attempts[o] = 0 /\ claimedBy[o] = NoAdmin
  BY <1>0 DEF Cancel, OrderSound, Initial
<1>2. claimedBy' = [claimedBy EXCEPT ![o] = NoAdmin]
  BY <1>0, <1>1 DEF Cancel, attemptVars, Types
<1>3. "CANCELLED" \in DeliveryStatus \ (Initial \cup {"FAILED_RETRYABLE", "FAILED_FINAL"}) /\ "CANCELLED" \notin Working
  BY DEF DeliveryStatus, Initial, Working
<1> QED
  BY <1>1, <1>2, <1>3, JobKept, ItemStep DEF Cancel, attemptVars

LEMMA AdminIInv ==
  ASSUME IInv, NEW a \in Procs, NEW o \in Orders,
         StartProcessingRead(a, o) \/ StartProcessing(a, o) \/ Complete(a, o) \/ Fail(a, o)
  PROVE  IInv'
<1>0. Types /\ OrderSound(o) /\ StartSound(a) /\ CallSound(a)
  BY DEF IInv
<1>1. CASE StartProcessingRead(a, o)
  <2> DEFINE j == [step |-> "start", order |-> o, op |-> "none", attempt |-> 0, answer |-> "none"]
  <2>1. j \in Job /\ j.step = "start" /\ j.order = o
    BY DEF Job
  <2>2. /\ a \in Admins /\ orderPay[o] = "PAID" /\ UNCHANGED <<orderPay, item, attempts, claimedBy, provider, scenario>>
        /\ job' = [job EXCEPT ![a] = j]
    BY <1>1 DEF StartProcessingRead, Start, orderVars, attemptVars
  <2> HIDE DEF j
  <2>3. job' \in [Procs -> Job] /\ job'[a] = j /\ \A q \in Procs : q # a => job'[q] = job[q]
    BY <1>0, <2>1, <2>2 DEF Types
  <2>4. Types' /\ \A x \in Orders : OrderSound(x)'
    BY <2>2, <2>3 DEF IInv, Types, OrderSound, Orderly
  <2>5. \A q \in Procs : CallSound(q)'
    BY <2>1, <2>2, <2>3 DEF IInv, CallSound, Calling, Submitting, Orderly
  <2>6. \A q \in Procs : StartSound(q)'
    BY <2>1, <2>2, <2>3, Vocabulary DEF IInv, StartSound
  <2> QED
    BY <2>4, <2>5, <2>6 DEF IInv
<1>2. CASE StartProcessing(a, o)
  <2>1. Finish(a) /\ UNCHANGED <<orderPay, attempts, provider, scenario>>
    BY <1>2 DEF StartProcessing, StartIn
  <2>2. /\ job' \in [Procs -> Job]
        /\ \A q \in Procs : job'[q] = job[q] \/ job'[q].step \notin {"locked", "call", "settle", "write", "start"}
    BY <2>1, JobStarts
  <2>3. CASE item[o] = "PENDING"
    <3>1. item' = [item EXCEPT ![o] = "PROCESSING"] /\ claimedBy' = [claimedBy EXCEPT ![o] = a]
      BY <1>2, <2>3 DEF StartProcessing, StartIn
    <3>2. attempts[o] = 0 /\ orderPay[o] \notin Unpaid
      BY <1>0, <1>2, <2>3 DEF StartProcessing, StartIn, At, OrderSound, StartSound, Initial
    <3>3. a \in Admins
      BY <1>0, <1>2 DEF StartProcessing, StartIn, At, StartSound
    <3> QED
      BY <2>1, <2>2, <3>1, <3>2, <3>3, AdminItemStep
  <2>4. CASE item[o] # "PENDING"
    BY <1>2, <2>1, <2>2, <2>4, QuietStep DEF StartProcessing, StartIn
  <2> QED
    BY <2>3, <2>4
<1>3. CASE Complete(a, o)
  <2>1. /\ a \in Admins /\ item[o] = "PROCESSING" /\ claimedBy[o] = a
        /\ item' = [item EXCEPT ![o] = "DELIVERED"] /\ Start(a, "notify", o)
        /\ UNCHANGED <<orderPay, attempts, claimedBy, provider, scenario>>
    BY <1>3 DEF Complete, attemptVars
  <2>2. attempts[o] = 0 /\ orderPay[o] \notin Unpaid
    BY <1>0, <2>1, TopUpConstants DEF OrderSound
  <2>3. claimedBy' = [claimedBy EXCEPT ![o] = a]
    BY <1>0, <2>1 DEF Types
  <2>4. /\ job' \in [Procs -> Job]
        /\ \A q \in Procs : job'[q] = job[q] \/ job'[q].step \notin {"locked", "call", "settle", "write", "start"}
    BY <2>1, JobStarts
  <2> QED
    BY <2>1, <2>2, <2>3, <2>4, AdminItemStep
<1>4. CASE Fail(a, o)
  <2>1. /\ a \in Admins /\ item[o] = "PROCESSING" /\ claimedBy[o] = a
        /\ item' = [item EXCEPT ![o] = "FAILED"] /\ job' = job
        /\ UNCHANGED <<orderPay, attempts, claimedBy, provider, scenario>>
    BY <1>4 DEF Fail, attemptVars, orderVars
  <2>2. attempts[o] = 0 /\ orderPay[o] \notin Unpaid
    BY <1>0, <2>1, TopUpConstants DEF OrderSound
  <2>3. claimedBy' = [claimedBy EXCEPT ![o] = a]
    BY <1>0, <2>1 DEF Types
  <2> QED
    BY <2>1, <2>2, <2>3, JobKept, AdminItemStep
<1> QED
  BY <1>1, <1>2, <1>3, <1>4

LEMMA StepIInv == IInv /\ ClaimsExclude /\ [Next]_vars => IInv'
<1> SUFFICES ASSUME IInv, ClaimsExclude, [Next]_vars PROVE IInv'
  OBVIOUS
<1>0. job \in [Procs -> Job]
  BY JobKept
<1>1. CASE UNCHANGED vars
  BY <1>0, <1>1, QuietStep DEF vars, orderVars, attemptVars
<1>2. ASSUME NEW o \in Orders,
             \/ CreateOrder(o) \/ StartPayment(o) \/ MarkUnknown(o) \/ FailPayment(o)
             \/ \E verdict \in Verdicts : VerifyPaymentIssue(o, verdict)
             \/ \E p \in Procs : CompletePayment(p, o)
      PROVE  IInv'
  BY <1>2, PaymentIInv
<1>3. ASSUME NEW o \in Orders,
             RetryBecomesDue(o) \/ ClaimBecomesStale(o) \/ WindowCloses(o) \/ MailBecomesDue(o)
      PROVE  IInv'
  <2>1. UNCHANGED <<orderPay, item, attempts, claimedBy, provider, job, scenario>>
    BY <1>3 DEF RetryBecomesDue, ClaimBecomesStale, WindowCloses, MailBecomesDue, orderVars, attemptVars
  <2> QED
    BY <1>0, <2>1, QuietStep
<1>4. ASSUME NEW o \in Orders, NEW p \in Procs,
             StartProcessingRead(p, o) \/ StartProcessing(p, o) \/ Complete(p, o) \/ Fail(p, o)
      PROVE  IInv'
  BY <1>4, AdminIInv
<1>5. ASSUME NEW o \in Orders, Cancel(o) PROVE IInv'
  BY <1>5, CancelIInv
<1>6. ASSUME NEW o \in Orders, NEW p \in Procs,
             VerifyPaid(p, o) \/ RetryScan(p, o) \/ NotifyScan(p, o) \/ ClaimRefused(p, o) \/ SettleRefused(p, o)
             \/ Notify(p, o) \/ NotifyRefused(p, o) \/ MailSent(p, o)
      PROVE  IInv'
  <2>1. UNCHANGED <<orderPay, item, attempts, claimedBy, provider, scenario>>
    BY <1>6 DEF VerifyPaid, RetryScan, RetryListed, NotifyScan, NotifyListed, ClaimRefused, SettleRefused, Notify,
       NotifyRefused, MailSent, orderVars, attemptVars
  <2>2. job' = job \/ (\E step \in {"claim", "notify", "send"} : Start(p, step, o)) \/ Finish(p)
    BY <1>6 DEF VerifyPaid, RetryScan, RetryListed, NotifyScan, NotifyListed, ClaimRefused, SettleRefused, Notify,
       NotifyRefused, MailSent
  <2> QED
    BY <1>0, <2>1, <2>2, QuietStep, StartsQuietly
<1>7. ASSUME NEW p \in Procs, MailFails(p) \/ Abandon(p) PROVE IInv'
  <2>1. UNCHANGED <<orderPay, item, attempts, claimedBy, provider, scenario>> /\ job' = [job EXCEPT ![p] = Idle]
    BY <1>7 DEF MailFails, Abandon, Finish, orderVars, attemptVars
  <2>2. Idle \in Job /\ Idle.step = "idle"
    BY DEF Job, Idle
  <2>3. /\ job' \in [Procs -> Job]
        /\ \A q \in Procs : job'[q] = job[q] \/ job'[q].step \notin {"locked", "call", "settle", "write", "start"}
    BY <1>0, <2>1, <2>2
  <2> QED
    BY <2>1, <2>3, QuietStep
<1>8. ASSUME NEW o \in Orders, NEW p \in Procs, Work(p, o) PROVE IInv'
  BY <1>6, <1>8, ClaimIInv, SettleIInv DEF Work
<1>9. ASSUME NEW p \in Procs, Provide(p) PROVE IInv'
  BY <1>9, ProviderIInv, ReadPaidIInv DEF Provide
<1> QED
  BY <1>1, <1>2, <1>3, <1>4, <1>5, <1>6, <1>7, <1>8, <1>9, Zenon DEF Next

------------------------------------------------------------------------------
(* Claims and calls *)

\* A step after which the calls are some of those before, and in which an item
\* changes only where nobody calls afterwards.
LEMMA ExclusionKept ==
  ASSUME IInv, ClaimsExclude, scenario' = scenario, stale' \in [Orders -> BOOLEAN],
         \A q \in Procs : Calling(q)' => Calling(q) /\ job'[q].order = job[q].order,
         \A x \in Orders : \/ item'[x] = item[x] /\ stale'[x] = stale[x]
                           \/ scenario.prompt => \A q \in Procs : ~ (Calling(q)' /\ job'[q].order = x)
  PROVE  ClaimsExclude'
<1> SUFFICES ASSUME NEW p \in Procs PROVE Alone(p)'
  BY DEF ClaimsExclude
<1>1. Alone(p) /\ (Calling(p) => job[p].order \in Orders)
  BY DEF ClaimsExclude, IInv, CallSound
<1> QED
  BY <1>1 DEF Alone

\* A claim in time finds no call for its item.
LEMMA ClaimExcludes ==
  ASSUME IInv, ClaimsExclude, NEW p \in Procs, NEW o \in Orders, ClaimItem(p, o)
  PROVE  ClaimsExclude'
<1>1. /\ CanSubmit(o) \/ CanQuery(o)
      /\ item' = [item EXCEPT ![o] = "PROCESSING"] /\ stale' = [stale EXCEPT ![o] = FALSE]
      /\ scenario' = scenario /\ \A q \in Procs : q # p => job'[q] = job[q]
      /\ job'[p].order = o
  BY DEF ClaimItem, ClaimIf, IInv, Types
<1>2. scenario.prompt => \A q \in Procs : ~ (Calling(q) /\ job[q].order = o)
  BY <1>1 DEF ClaimsExclude, Alone, CanSubmit, CanQuery, Initial
<1>3. /\ item'[o] = "PROCESSING" /\ stale'[o] = FALSE
      /\ \A x \in Orders : x # o => item'[x] = item[x] /\ stale'[x] = stale[x]
  BY <1>1 DEF ClaimsExclude, IInv, Types
<1>4. stale' \in [Orders -> BOOLEAN]
  BY <1>1, Zenon DEF ClaimsExclude
<1>5. ASSUME NEW q \in Procs, scenario.prompt, Calling(q)'
      PROVE  /\ item'[job'[q].order] = "PROCESSING" /\ stale'[job'[q].order] = FALSE
             /\ \A r \in Procs : (Calling(r) /\ job[r].order = job[q].order)' => r = q
  <2>1. CASE q = p
    BY <1>1, <1>2, <1>3, <1>5, <2>1 DEF Calling
  <2>2. CASE q # p
    <3>1. Calling(q) /\ job'[q] = job[q] /\ job[q].order \in Orders /\ job[q].order # o /\ Alone(q)
      BY <1>1, <1>2, <1>5, <2>2 DEF Calling, IInv, CallSound, ClaimsExclude
    <3> QED
      BY <1>1, <1>3, <1>5, <3>1 DEF Alone, Calling
  <2> QED
    BY <2>1, <2>2
<1> QED
  BY <1>1, <1>4, <1>5 DEF ClaimsExclude, Alone

LEMMA StepExcludes == IInv /\ ClaimsExclude /\ [Next]_vars => ClaimsExclude'
<1> SUFFICES ASSUME IInv, ClaimsExclude, [Next]_vars PROVE ClaimsExclude'
  OBVIOUS
<1>0. stale \in [Orders -> BOOLEAN] /\ job \in [Procs -> Job] /\ item \in [Orders -> DeliveryStatus]
  BY DEF ClaimsExclude, IInv, Types
<1>1. ASSUME UNCHANGED <<item, stale, scenario>>,
             \A q \in Procs : job'[q] = job[q] \/ job'[q].step \notin {"call", "settle", "write"}
      PROVE  ClaimsExclude'
  BY <1>0, <1>1, ExclusionKept DEF Calling
<1>2. CASE UNCHANGED vars
  BY <1>1, <1>2 DEF vars, attemptVars
<1>3. ASSUME NEW o \in Orders,
             \/ CreateOrder(o) \/ StartPayment(o) \/ MarkUnknown(o) \/ FailPayment(o)
             \/ \E verdict \in Verdicts : VerifyPaymentIssue(o, verdict)
             \/ RetryBecomesDue(o) \/ WindowCloses(o) \/ MailBecomesDue(o)
      PROVE  ClaimsExclude'
  <2>1. UNCHANGED <<item, stale, scenario, job>>
    BY <1>3 DEF CreateOrder, StartPayment, MarkUnknown, FailPayment, FailFrom, VerifyPaymentIssue,
       RetryBecomesDue, WindowCloses, MailBecomesDue, attemptVars
  <2> QED
    BY <1>1, <2>1
<1>4. ASSUME NEW o \in Orders, Cancel(o) PROVE ClaimsExclude'
  <2>1. /\ item[o] = "PENDING" /\ item' = [item EXCEPT ![o] = "CANCELLED"] /\ UNCHANGED <<stale, scenario, job>>
    BY <1>4 DEF Cancel, attemptVars
  <2>2. scenario.prompt => \A q \in Procs : ~ (Calling(q)' /\ job'[q].order = o)
    BY <2>1 DEF ClaimsExclude, Alone, Calling
  <2>3. \A x \in Orders : x # o => item'[x] = item[x]
    BY <1>0, <2>1
  <2> QED
    BY <1>0, <2>1, <2>2, <2>3, ExclusionKept DEF Calling
<1>5. ASSUME NEW o \in Orders, ClaimBecomesStale(o) PROVE ClaimsExclude'
  <2>1. /\ ~scenario.prompt \/ ~ \E p \in Procs : Calling(p) /\ job[p].order = o
        /\ stale' = [stale EXCEPT ![o] = TRUE] /\ UNCHANGED <<item, scenario, job>>
    BY <1>5 DEF ClaimBecomesStale, orderVars
  <2>2. stale' \in [Orders -> BOOLEAN]
    BY <1>0, <2>1, Zenon
  <2>3. \A x \in Orders : x # o => stale'[x] = stale[x]
    BY <1>0, <2>1
  <2> QED
    BY <2>1, <2>2, <2>3, ExclusionKept DEF Calling
<1>6. ASSUME NEW o \in Orders, NEW p \in Procs,
             \/ CompletePayment(p, o) \/ VerifyPaid(p, o) \/ RetryScan(p, o) \/ NotifyScan(p, o)
             \/ ClaimRefused(p, o) \/ SettleRefused(p, o) \/ Notify(p, o) \/ NotifyRefused(p, o) \/ MailSent(p, o)
             \/ StartProcessingRead(p, o)
      PROVE  ClaimsExclude'
  <2>1. UNCHANGED <<item, stale, scenario>>
    BY <1>6 DEF CompletePayment, VerifyPaid, RetryScan, RetryListed, NotifyScan, NotifyListed, ClaimRefused,
       SettleRefused, Notify, NotifyRefused, MailSent, StartProcessingRead, attemptVars
  <2>2. job' = job \/ (\E step \in {"claim", "notify", "send", "start"} : Start(p, step, o)) \/ Finish(p)
    BY <1>6 DEF CompletePayment, VerifyPaid, RetryScan, RetryListed, NotifyScan, NotifyListed, ClaimRefused,
       SettleRefused, Notify, NotifyRefused, MailSent, StartProcessingRead
  <2>3. \A q \in Procs : job'[q] = job[q] \/ job'[q].step \notin {"call", "settle", "write"}
    BY <1>0, <2>2 DEF Start, Finish, Idle
  <2> QED
    BY <1>1, <2>1, <2>3
<1>7. ASSUME NEW p \in Procs, MailFails(p) \/ Abandon(p) PROVE ClaimsExclude'
  <2>1. UNCHANGED <<item, stale, scenario>> /\ job' = [job EXCEPT ![p] = Idle]
    BY <1>7 DEF MailFails, Abandon, Finish, attemptVars
  <2> QED
    BY <1>0, <1>1, <2>1 DEF Idle
<1>8. ASSUME NEW p \in Procs, Provide(p) PROVE ClaimsExclude'
  <2>1. UNCHANGED <<item, stale, scenario>>
    BY <1>8 DEF Provide, ReadPaid, TopUp, QueryTopUp, Answered, attemptVars
  <2>2. ASSUME NEW step \in {"claim", "settle"}, NEW next \in {"locked", "write"}, ReadPaid(p, step, next),
               step = "claim" => next = "locked"
        PROVE  \A q \in Procs : Calling(q)' => Calling(q) /\ job'[q].order = job[q].order
    BY <1>0, <2>2 DEF ReadPaid, At, Calling, Job
  <2>3. ASSUME TopUp(p) \/ QueryTopUp(p)
        PROVE  \A q \in Procs : Calling(q)' => Calling(q) /\ job'[q].order = job[q].order
    <3>1. PICK answer, record : Answered(p, answer, record)
      BY <2>3 DEF TopUp, QueryTopUp
    <3>2. At(p, "call")
      BY <2>3 DEF TopUp, QueryTopUp
    <3> QED
      BY <1>0, <3>1, <3>2 DEF Answered, At, Calling
  <2>4. \A q \in Procs : Calling(q)' => Calling(q) /\ job'[q].order = job[q].order
    BY <1>8, <2>2, <2>3 DEF Provide
  <2> QED
    BY <1>0, <2>1, <2>4, ExclusionKept
<1>9. ASSUME NEW o \in Orders, NEW p \in Procs, SettleItem(p, o) PROVE ClaimsExclude'
  <2>1. /\ job[p].step = "write" /\ job[p].order = o /\ UNCHANGED <<stale, scenario>>
        /\ \A x \in Orders : x # o => item'[x] = item[x]
        /\ job'[p].step \notin {"call", "settle", "write"} /\ \A q \in Procs : q # p => job'[q] = job[q]
    BY <1>0, <1>9 DEF SettleItem, SettleTo, At, Start, Finish, Idle
  <2>2. scenario.prompt => \A q \in Procs : ~ (Calling(q)' /\ job'[q].order = o)
    BY <2>1 DEF ClaimsExclude, Alone, Calling
  <2> QED
    BY <1>0, <2>1, <2>2, ExclusionKept DEF Calling
<1>10. ASSUME NEW o \in Orders, NEW a \in Procs, StartProcessing(a, o) PROVE ClaimsExclude'
  <2>1. CASE item[o] # "PENDING"
    BY <1>0, <1>1, <1>10, <2>1 DEF StartProcessing, StartIn, Finish, Idle
  <2>2. CASE item[o] = "PENDING"
    <3>1. /\ stale' = [stale EXCEPT ![o] = FALSE] /\ item' = [item EXCEPT ![o] = "PROCESSING"]
          /\ job' = [job EXCEPT ![a] = Idle] /\ scenario' = scenario
      BY <1>10, <2>2 DEF StartProcessing, StartIn, Finish
    <3>2. stale' \in [Orders -> BOOLEAN]
      BY <1>0, <3>1, Zenon
    <3>3. \A q \in Procs : Calling(q)' => Calling(q) /\ job'[q].order = job[q].order
      BY <1>0, <3>1 DEF Calling, Idle
    <3>4. scenario.prompt => \A q \in Procs : ~ (Calling(q)' /\ job'[q].order = o)
      BY <2>2, <3>3 DEF ClaimsExclude, Alone
    <3>5. \A x \in Orders : x # o => item'[x] = item[x] /\ stale'[x] = stale[x]
      BY <1>0, <3>1
    <3> QED
      BY <3>1, <3>2, <3>3, <3>4, <3>5, ExclusionKept
  <2> QED
    BY <2>1, <2>2
<1>11. ASSUME NEW o \in Orders, NEW a \in Procs, Complete(a, o) \/ Fail(a, o) PROVE ClaimsExclude'
  <2>1. /\ a \in Admins /\ claimedBy[o] = a /\ UNCHANGED <<stale, scenario>>
        /\ \A x \in Orders : x # o => item'[x] = item[x]
        /\ \A q \in Procs : job'[q] = job[q] \/ job'[q].step \notin {"call", "settle", "write"}
    BY <1>0, <1>11 DEF Complete, Fail, Start, attemptVars
  <2>2. attempts[o] = 0
    BY <2>1, TopUpConstants DEF IInv, OrderSound
  <2>3. \A q \in Procs : Calling(q)' => Calling(q) /\ job'[q].order = job[q].order
    BY <2>1 DEF Calling
  <2>4. \A q \in Procs : ~ (Calling(q)' /\ job'[q].order = o)
    <3> SUFFICES ASSUME NEW q \in Procs, Calling(q), job[q].order = o PROVE FALSE
      BY <2>3
    <3>1. attempts[o] > 0
      BY DEF IInv, CallSound
    <3> QED
      BY <2>2, <3>1
  <2> QED
    BY <1>0, <2>1, <2>3, <2>4, ExclusionKept
<1>12. ASSUME NEW o \in Orders, NEW p \in Procs, Work(p, o) PROVE ClaimsExclude'
  BY <1>6, <1>9, <1>12, ClaimExcludes DEF Work
<1> QED
  BY <1>2, <1>3, <1>4, <1>5, <1>6, <1>7, <1>8, <1>10, <1>11, <1>12, Zenon DEF Next

LEMMA InitExcludes == Init => ClaimsExclude
<1> SUFFICES ASSUME Init PROVE ClaimsExclude
  OBVIOUS
<1>1. stale \in [Orders -> BOOLEAN]
  BY Zenon DEF Init
<1>2. \A p \in Procs : ~Calling(p)
  BY DEF Init, Calling, Idle
<1> QED
  BY <1>1, <1>2 DEF ClaimsExclude, Alone

LEMMA Invariance == Spec => []IInv /\ []ClaimsExclude
BY InitIInv, InitExcludes, StepIInv, StepExcludes, PTL DEF Spec

------------------------------------------------------------------------------
(* What a paid order can rely on *)

\* topUp is called for an order only while the provider has no record of it but a
\* retryable failure, and by one process at a time, wherever processes stop and in
\* whatever order answers come: also with claims that go stale under their calls,
\* if failures are final, and with retryable failures, if claims do not go stale.
THEOREM SubmittedOnce == Spec => []OneSubmissionAtATime
<1>1. IInv => OneSubmissionAtATime
  BY DEF IInv, CallSound, OneSubmissionAtATime, Submitting
<1> QED
  BY <1>1, Invariance, PTL

\* What Phase and Channel make of the rows of one order.
LEMMA PhaseOf ==
  ASSUME NEW o \in Orders
  PROVE  /\ item[o] \in Initial => Phase(o) = "open"
         /\ item[o] \in Working => Phase(o) = "working"
         /\ item[o] = "DELIVERED" => Phase(o) = "delivered"
         /\ item[o] \in {"FAILED", "FAILED_FINAL"} => Phase(o) = "failed"
         /\ item[o] = "MANUAL_REVIEW" => Phase(o) = "review"
         /\ item[o] = "CANCELLED" => Phase(o) = "cancelled"
BY DEF Phase, Initial, Working

LEMMA PhaseOfPrime ==
  ASSUME NEW o \in Orders
  PROVE  /\ item'[o] \in Initial => Phase(o)' = "open"
         /\ item'[o] \in Working => Phase(o)' = "working"
         /\ item'[o] = "DELIVERED" => Phase(o)' = "delivered"
         /\ item'[o] \in {"FAILED", "FAILED_FINAL"} => Phase(o)' = "failed"
         /\ item'[o] = "MANUAL_REVIEW" => Phase(o)' = "review"
         /\ item'[o] = "CANCELLED" => Phase(o)' = "cancelled"
BY DEF Phase, Initial, Working

\* The abstract step that a step on one order takes: it changes the phase and the
\* channel of that order only.
LEMMA ChannelStep ==
  ASSUME NEW o \in Orders,
         \A x \in Orders : x # o => Phase(x)' = Phase(x) /\ Channel(x)' = Channel(x),
         \/ Phase(o)' = Phase(o) /\ Channel(o)' = Channel(o)
         \/ /\ Phase(o) = "open" /\ Channel(o) = "none"
            /\ Phase(o)' = "working" /\ Channel(o)' \in {"provider", "admin"}
         \/ /\ Phase(o) = "working" /\ Phase(o)' \in {"delivered", "failed", "review"}
            /\ Channel(o)' = Channel(o) /\ (Phase(o)' = "review" => Channel(o) = "provider")
         \/ Phase(o) = "open" /\ Phase(o)' = "cancelled" /\ Channel(o)' = Channel(o)
  PROVE  [Fulfilment!Next]_(Fulfilment!channelVars)
<1> DEFINE phase == [x \in Orders |-> Phase(x)]
           channel == [x \in Orders |-> Channel(x)]
<1>1. /\ phase' = [phase EXCEPT ![o] = Phase(o)'] /\ channel' = [channel EXCEPT ![o] = Channel(o)']
      /\ phase[o] = Phase(o) /\ channel[o] = Channel(o)
  OBVIOUS
<1>2. CASE Phase(o)' = Phase(o) /\ Channel(o)' = Channel(o)
  BY <1>2 DEF Fulfilment!channelVars
<1>3. CASE /\ Phase(o) = "open" /\ Channel(o) = "none"
           /\ Phase(o)' = "working" /\ Channel(o)' \in {"provider", "admin"}
  <2>1. Fulfilment!Take(o, Channel(o)')
    BY <1>1, <1>3 DEF Fulfilment!Take
  <2> QED
    BY <1>3, <2>1 DEF Fulfilment!Next
<1>4. CASE /\ Phase(o) = "working" /\ Phase(o)' \in {"delivered", "failed", "review"}
           /\ Channel(o)' = Channel(o) /\ (Phase(o)' = "review" => Channel(o) = "provider")
  <2>1. Fulfilment!Finish(o, Phase(o)')
    BY <1>1, <1>4 DEF Fulfilment!Finish
  <2> QED
    BY <1>4, <2>1 DEF Fulfilment!Next, Fulfilment!Outcomes
<1>5. CASE Phase(o) = "open" /\ Phase(o)' = "cancelled" /\ Channel(o)' = Channel(o)
  <2>1. Fulfilment!Cancel(o)
    BY <1>1, <1>5 DEF Fulfilment!Cancel
  <2> QED
    BY <2>1 DEF Fulfilment!Next
<1> QED
  BY <1>2, <1>3, <1>4, <1>5
\* A step that changes no item, claim or count of attempts is a stutter.
LEMMA ChannelStutter ==
  UNCHANGED <<item, attempts, claimedBy>> => [Fulfilment!Next]_(Fulfilment!channelVars)
BY DEF Fulfilment!channelVars, Phase, Channel

LEMMA TakeOrKeep ==
  ASSUME IInv, NEW p \in Procs, NEW o \in Orders, ClaimItem(p, o)
  PROVE  [Fulfilment!Next]_(Fulfilment!channelVars)
<1>1. /\ claimedBy[o] = NoAdmin /\ (CanSubmit(o) \/ CanQuery(o)) /\ claimedBy' = claimedBy
      /\ item' = [item EXCEPT ![o] = "PROCESSING"] /\ attempts' = [attempts EXCEPT ![o] = @ + 1]
  BY DEF ClaimItem, ClaimIf
<1>2. OrderSound(o) /\ item[o] \in Initial \cup Working /\ attempts[o] \in Nat
  BY <1>1 DEF IInv, Types, CanSubmit, CanQuery, Working
<1>3. item'[o] = "PROCESSING" /\ attempts'[o] = attempts[o] + 1
  BY <1>1 DEF IInv, Types
<1>4. \A x \in Orders : x # o => Phase(x)' = Phase(x) /\ Channel(x)' = Channel(x)
  BY <1>1 DEF IInv, Types, Phase, Channel
<1>5. Phase(o)' = "working" /\ Channel(o)' = "provider"
  BY <1>1, <1>2, <1>3, PhaseOfPrime DEF Channel, Working
<1>6. \/ Phase(o) = "open" /\ Channel(o) = "none"
      \/ Phase(o) = "working" /\ Channel(o) = "provider"
  BY <1>1, <1>2, PhaseOf DEF Channel, OrderSound
<1> QED
  BY <1>4, <1>5, <1>6, ChannelStep

LEMMA FinishOrKeep ==
  ASSUME IInv, NEW p \in Procs, NEW o \in Orders, SettleItem(p, o)
  PROVE  [Fulfilment!Next]_(Fulfilment!channelVars)
<1> DEFINE final == FinalStatus(job[p].answer, job[p].attempt)
<1>1. /\ At(p, "write") /\ job[p].order = o /\ item[o] = "PROCESSING"
      /\ item' = [item EXCEPT ![o] = final] /\ UNCHANGED <<attempts, claimedBy>>
  BY DEF SettleItem, SettleTo
<1>2. job[p].answer \in Answers /\ job[p].attempt \in Nat /\ attempts[o] > 0 /\ OrderSound(o) /\ Types
  BY <1>1 DEF IInv, Types, Job, CallSound, Calling, At
<1>3. final \in {"DELIVERED", "MANUAL_REVIEW", "PROVIDER_PENDING", "FAILED_RETRYABLE", "FAILED_FINAL"}
  BY <1>2, FinalStatuses
<1> HIDE DEF final
<1>4. item'[o] = final /\ \A x \in Orders : x # o => Phase(x)' = Phase(x) /\ Channel(x)' = Channel(x)
  BY <1>1, <1>2 DEF Types, Phase, Channel
<1>5. Phase(o) = "working" /\ Channel(o) = "provider" /\ Channel(o)' = "provider"
  BY <1>1, <1>2, PhaseOf, TopUpConstants DEF Channel, OrderSound, Working
<1>6. Phase(o)' \in {"working", "delivered", "failed", "review"}
  BY <1>3, <1>4, PhaseOfPrime DEF Working
<1> QED
  BY <1>4, <1>5, <1>6, ChannelStep

LEMMA AdminStep ==
  ASSUME IInv, NEW a \in Procs, NEW o \in Orders, StartProcessing(a, o) \/ Complete(a, o) \/ Fail(a, o)
  PROVE  [Fulfilment!Next]_(Fulfilment!channelVars)
<1>0. Types /\ OrderSound(o) /\ StartSound(a)
  BY DEF IInv
<1>1. CASE StartProcessing(a, o) /\ item[o] = "PENDING"
  <2>1. /\ a \in Admins /\ a # NoAdmin /\ attempts[o] = 0 /\ claimedBy[o] = NoAdmin
    BY <1>0, <1>1, TopUpConstants DEF StartProcessing, StartIn, At, StartSound, OrderSound, Initial
  <2>2. /\ item'[o] = "PROCESSING" /\ claimedBy'[o] = a /\ attempts' = attempts
        /\ \A x \in Orders : x # o => item'[x] = item[x] /\ claimedBy'[x] = claimedBy[x]
    BY <1>0, <1>1 DEF StartProcessing, StartIn, Types
  <2>3. Phase(o) = "open" /\ Channel(o) = "none" /\ Phase(o)' = "working" /\ Channel(o)' = "admin"
    BY <1>1, <2>1, <2>2, PhaseOf, PhaseOfPrime DEF Channel, Initial, Working
  <2>4. \A x \in Orders : x # o => Phase(x)' = Phase(x) /\ Channel(x)' = Channel(x)
    BY <2>2 DEF Phase, Channel
  <2> QED
    BY <2>3, <2>4, ChannelStep
<1>2. CASE StartProcessing(a, o) /\ item[o] # "PENDING"
  BY <1>2, ChannelStutter DEF StartProcessing, StartIn
<1>3. CASE Complete(a, o) \/ Fail(a, o)
  <2>1. PICK s \in {"DELIVERED", "FAILED"} : /\ item[o] = "PROCESSING" /\ item' = [item EXCEPT ![o] = s]
                                           /\ UNCHANGED <<attempts, claimedBy>>
    BY <1>3 DEF Complete, Fail, attemptVars
  <2>2. item'[o] = s /\ \A x \in Orders : x # o => Phase(x)' = Phase(x) /\ Channel(x)' = Channel(x)
    BY <1>0, <2>1 DEF Types, Phase, Channel
  <2>3. Phase(o) = "working" /\ Phase(o)' \in {"delivered", "failed"} /\ Channel(o)' = Channel(o)
    BY <2>1, <2>2, PhaseOf, PhaseOfPrime DEF Channel, Working
  <2> QED
    BY <2>2, <2>3, ChannelStep
<1> QED
  BY <1>1, <1>2, <1>3

LEMMA CancelStep ==
  ASSUME IInv, NEW o \in Orders, Cancel(o)
  PROVE  [Fulfilment!Next]_(Fulfilment!channelVars)
<1>1. /\ item[o] = "PENDING" /\ item'[o] = "CANCELLED" /\ UNCHANGED <<attempts, claimedBy>>
      /\ \A x \in Orders : x # o => item'[x] = item[x]
  BY DEF Cancel, attemptVars, IInv, Types
<1>2. Phase(o) = "open" /\ Phase(o)' = "cancelled" /\ Channel(o)' = Channel(o)
  BY <1>1, PhaseOf, PhaseOfPrime DEF Channel, Initial
<1>3. \A x \in Orders : x # o => Phase(x)' = Phase(x) /\ Channel(x)' = Channel(x)
  BY <1>1 DEF Phase, Channel
<1> QED
  BY <1>2, <1>3, ChannelStep

LEMMA FulfilmentStep ==
  ASSUME IInv, [Next]_vars
  PROVE  [Fulfilment!Next]_(Fulfilment!channelVars)
<1>1. CASE UNCHANGED vars
  BY <1>1, ChannelStutter DEF vars, attemptVars
<1>2. ASSUME NEW o \in Orders,
             \/ CreateOrder(o) \/ StartPayment(o) \/ MarkUnknown(o) \/ FailPayment(o)
             \/ \E verdict \in Verdicts : VerifyPaymentIssue(o, verdict)
             \/ \E p \in Procs : CompletePayment(p, o)
             \/ RetryBecomesDue(o) \/ ClaimBecomesStale(o) \/ WindowCloses(o) \/ MailBecomesDue(o)
      PROVE  [Fulfilment!Next]_(Fulfilment!channelVars)
  <2>1. UNCHANGED <<item, attempts, claimedBy>>
    BY <1>2 DEF CreateOrder, StartPayment, MarkUnknown, FailPayment, FailFrom, VerifyPaymentIssue, CompletePayment,
       RetryBecomesDue, ClaimBecomesStale, WindowCloses, MailBecomesDue, attemptVars
  <2> QED
    BY <2>1, ChannelStutter
<1>3. ASSUME NEW o \in Orders, NEW p \in Procs,
             \/ VerifyPaid(p, o) \/ RetryScan(p, o) \/ NotifyScan(p, o) \/ ClaimRefused(p, o) \/ SettleRefused(p, o)
             \/ Notify(p, o) \/ NotifyRefused(p, o) \/ MailSent(p, o) \/ StartProcessingRead(p, o)
             \/ Provide(p) \/ MailFails(p) \/ Abandon(p)
      PROVE  [Fulfilment!Next]_(Fulfilment!channelVars)
  <2>1. UNCHANGED <<item, attempts, claimedBy>>
    BY <1>3 DEF VerifyPaid, RetryScan, RetryListed, NotifyScan, NotifyListed, ClaimRefused, SettleRefused, Notify,
       NotifyRefused, MailSent, StartProcessingRead, Provide, ReadPaid, TopUp, QueryTopUp, Answered, MailFails, Abandon, attemptVars
  <2> QED
    BY <2>1, ChannelStutter
<1>4. ASSUME NEW o \in Orders, NEW p \in Procs, Work(p, o) PROVE [Fulfilment!Next]_(Fulfilment!channelVars)
  BY <1>3, <1>4, TakeOrKeep, FinishOrKeep DEF Work
<1>5. ASSUME NEW p \in Procs, Provide(p) \/ MailFails(p) \/ Abandon(p)
      PROVE  [Fulfilment!Next]_(Fulfilment!channelVars)
  <2>1. UNCHANGED <<item, attempts, claimedBy>>
    BY <1>5 DEF Provide, ReadPaid, TopUp, QueryTopUp, Answered, MailFails, Abandon, attemptVars
  <2> QED
    BY <2>1, ChannelStutter
<1> QED
  BY <1>1, <1>2, <1>3, <1>4, <1>5, AdminStep, CancelStep, Zenon DEF Next

\* Customer, provider and administrators compete for an item of a paid order:
\* every step of theirs is a step of FulfilmentChannel, where one of them takes
\* it, keeps it and brings it to one final outcome, or leaves it alone.
THEOREM OneChannelForGood == Spec => ImplementsFulfilment
<1>1. Init => Fulfilment!Init
  BY DEF Init, Fulfilment!Init, Phase, Channel, Initial
<1> QED
  BY <1>1, FulfilmentStep, Invariance, PTL DEF Spec, ImplementsFulfilment, Fulfilment!Spec

------------------------------------------------------------------------------
(* The queue *)

QueueSound ==
  /\ serial \in [Orders -> Nat] /\ lastSerial \in Nat /\ window \in [Orders -> BOOLEAN]
  /\ \A o \in Orders : serial[o] <= lastSerial
  /\ \A o1, o2 \in Orders : serial[o1] = serial[o2] /\ serial[o1] # 0 => o1 = o2

\* A step of the queue: it stays, a window closes, or an order without a place
\* gets the next one.
QueueStep ==
  \/ UNCHANGED queueVars
  \/ \E o \in Orders : UNCHANGED <<serial, lastSerial>> /\ window' = [window EXCEPT ![o] = FALSE]
  \/ \E o \in Orders : serial[o] = 0 /\ Assign(o)

LEMMA QueueSteps == [Next]_vars => QueueStep
<1> SUFFICES ASSUME [Next]_vars PROVE QueueStep
  OBVIOUS
<1>1. CASE UNCHANGED vars
  BY <1>1 DEF vars, QueueStep
<1>2. ASSUME NEW o \in Orders,
             \/ CreateOrder(o) \/ Cancel(o) \/ StartPayment(o) \/ MarkUnknown(o) \/ FailPayment(o)
             \/ \E verdict \in Verdicts : VerifyPaymentIssue(o, verdict)
             \/ RetryBecomesDue(o) \/ ClaimBecomesStale(o) \/ MailBecomesDue(o)
      PROVE  QueueStep
  BY <1>2 DEF QueueStep, CreateOrder, Cancel, StartPayment, MarkUnknown, FailPayment, FailFrom, VerifyPaymentIssue,
     RetryBecomesDue, ClaimBecomesStale, MailBecomesDue
<1>3. ASSUME NEW o \in Orders, WindowCloses(o) PROVE QueueStep
  BY <1>3 DEF QueueStep, WindowCloses
<1>4. ASSUME NEW o \in Orders, NEW p \in Procs, CompletePayment(p, o) \/ VerifyPaid(p, o) PROVE QueueStep
  <2>1. AssignQueue(o)
    BY <1>4 DEF CompletePayment, VerifyPaid
  <2> QED
    BY <2>1 DEF AssignQueue, QueueStep
<1>5. ASSUME NEW o \in Orders, NEW p \in Procs,
             \/ RetryScan(p, o) \/ NotifyScan(p, o) \/ StartProcessingRead(p, o) \/ StartProcessing(p, o)
             \/ Complete(p, o) \/ Fail(p, o) \/ Work(p, o)
      PROVE  QueueStep
  BY <1>5 DEF QueueStep, RetryScan, RetryListed, NotifyScan, NotifyListed, StartProcessingRead, StartProcessing, StartIn,
     Complete, Fail, Work, ClaimItem, ClaimIf, ClaimRefused, SettleItem, SettleTo, SettleRefused, Notify, NotifyRefused,
     MailSent
<1>6. ASSUME NEW p \in Procs, Provide(p) \/ MailFails(p) \/ Abandon(p) PROVE QueueStep
  BY <1>6 DEF QueueStep, Provide, ReadPaid, TopUp, QueryTopUp, Answered, MailFails, Abandon
<1> QED
  BY <1>1, <1>2, <1>3, <1>4, <1>5, <1>6, Zenon DEF Next

LEMMA QueueInvariance == Spec => []QueueSound
<1>1. Init => QueueSound
  BY DEF Init, QueueSound
<1>2. ASSUME QueueSound, QueueStep PROVE QueueSound'
  <2>1. CASE UNCHANGED queueVars
    BY <1>2, <2>1 DEF QueueSound, queueVars
  <2>2. ASSUME NEW o \in Orders, UNCHANGED <<serial, lastSerial>>, window' = [window EXCEPT ![o] = FALSE]
        PROVE  QueueSound'
    BY <1>2, <2>2 DEF QueueSound
  <2>3. ASSUME NEW o \in Orders, serial[o] = 0, Assign(o) PROVE QueueSound'
    <3>1. /\ serial' \in [Orders -> Nat] /\ lastSerial' = lastSerial + 1 /\ window' \in [Orders -> BOOLEAN]
          /\ serial'[o] = lastSerial + 1 /\ \A x \in Orders : x # o => serial'[x] = serial[x]
      BY <1>2, <2>3 DEF QueueSound, Assign
    <3> QED
      BY <1>2, <3>1 DEF QueueSound
  <2> QED
    BY <1>2, <2>1, <2>2, <2>3 DEF QueueStep
<1> QED
  BY <1>1, <1>2, QueueSteps, PTL DEF Spec

\* assignQueueToPaidTopUpOrder gives every order a place of its own, although
\* settlements, late payments and repeated verifications assign at any time: a
\* place that was given is never given to another order.
THEOREM PlacesAreUnique == Spec => []SerialsAreUnique
<1>1. QueueSound => SerialsAreUnique
  BY DEF QueueSound, SerialsAreUnique
<1> QED
  BY <1>1, QueueInvariance, PTL

\* Repeated callbacks and verifications neither move an order in the queue nor
\* open its cancellation window again.
THEOREM PlaceStays == Spec => PlaceIsKept
<1>1. ASSUME QueueSound, [Next]_vars
      PROVE  [\A o \in Orders : serial[o] # 0 => serial'[o] = serial[o] /\ (window'[o] => window[o])]_vars
  <2>1. QueueStep
    BY <1>1, QueueSteps
  <2>2. SUFFICES ASSUME NEW o \in Orders, serial[o] # 0 PROVE serial'[o] = serial[o] /\ (window'[o] => window[o])
    OBVIOUS
  <2> QED
    BY <1>1, <2>1, <2>2 DEF QueueStep, QueueSound, Assign, queueVars
<1> QED
  BY <1>1, QueueInvariance, PTL DEF Spec, PlaceIsKept

------------------------------------------------------------------------------
(* Types *)

Rest ==
  /\ orderStatus \in [Orders -> OrderStatus \cup {NoRow}]
  /\ due \in [Orders -> BOOLEAN] /\ stale \in [Orders -> BOOLEAN]
  /\ mailed \in [Orders -> BOOLEAN] /\ mails \in [Orders -> Nat] /\ mailDue \in [Orders -> BOOLEAN]
  /\ scenario \in Scenarios

LEMMA RestSteps == Rest /\ [Next]_vars => Rest'
<1> SUFFICES ASSUME Rest, [Next]_vars PROVE Rest'
  OBVIOUS
<1>0. {"PENDING", "CONFIRMED", "PROCESSING", "COMPLETED", "CANCELLED", "REFUND_PENDING", "MANUAL_REVIEW"}
        \subseteq OrderStatus
  BY DEF OrderStatus
<1>1. CASE UNCHANGED vars
  BY <1>1 DEF vars, Rest, orderVars, attemptVars, mailVars
<1>2. ASSUME NEW o \in Orders,
             \/ CreateOrder(o) \/ Cancel(o) \/ StartPayment(o) \/ MarkUnknown(o) \/ FailPayment(o)
             \/ \E verdict \in Verdicts : VerifyPaymentIssue(o, verdict)
      PROVE  Rest'
  <2>1. /\ orderStatus' = orderStatus \/ \E s \in OrderStatus : orderStatus' = [orderStatus EXCEPT ![o] = s]
        /\ UNCHANGED <<attemptVars, mailVars, scenario>>
    BY <1>0, <1>2 DEF CreateOrder, Cancel, StartPayment, MarkUnknown, FailPayment, FailFrom, VerifyPaymentIssue
  <2> QED
    BY <2>1 DEF Rest, attemptVars, mailVars
<1>7. ASSUME NEW o \in Orders,
             RetryBecomesDue(o) \/ ClaimBecomesStale(o) \/ MailBecomesDue(o) \/ WindowCloses(o)
      PROVE  Rest'
  <2>1. CASE RetryBecomesDue(o)
    BY <2>1, Zenon DEF RetryBecomesDue, Rest, orderVars, mailVars
  <2>2. CASE ClaimBecomesStale(o)
    BY <2>2, Zenon DEF ClaimBecomesStale, Rest, orderVars, mailVars
  <2>3. CASE MailBecomesDue(o)
    BY <2>3, Zenon DEF MailBecomesDue, Rest, orderVars, attemptVars
  <2>4. CASE WindowCloses(o)
    BY <2>4, Zenon DEF WindowCloses, Rest, orderVars, attemptVars, mailVars
  <2> QED
    BY <1>7, <2>1, <2>2, <2>3, <2>4
<1>3. ASSUME NEW o \in Orders, NEW p \in Procs,
             \/ CompletePayment(p, o) \/ VerifyPaid(p, o) \/ RetryScan(p, o) \/ NotifyScan(p, o)
             \/ StartProcessingRead(p, o) \/ StartProcessing(p, o) \/ Complete(p, o) \/ Fail(p, o)
      PROVE  Rest'
  BY <1>0, <1>3 DEF Rest, CompletePayment, VerifyPaid, RetryScan, RetryListed, NotifyScan, NotifyListed,
     StartProcessingRead, StartProcessing, StartIn, Complete, Fail, orderVars, attemptVars, mailVars
<1>4. ASSUME NEW o \in Orders, NEW p \in Procs, ClaimItem(p, o) \/ SettleItem(p, o) PROVE Rest'
  <2>1. CASE ClaimItem(p, o)
    BY <1>0, <2>1 DEF ClaimItem, ClaimIf, Rest, mailVars
  <2>2. CASE SettleItem(p, o)
    <3> DEFINE final == FinalStatus(job[p].answer, job[p].attempt)
               next == CASE final = "DELIVERED" -> "COMPLETED"
                         [] final \in {"MANUAL_REVIEW", "FAILED_FINAL"} -> "MANUAL_REVIEW"
                         [] OTHER -> orderStatus[o]
    <3> HIDE DEF final
    <3>1. /\ due' = [due EXCEPT ![o] = final \in Resolved] /\ orderStatus' = [orderStatus EXCEPT ![o] = next]
          /\ UNCHANGED <<stale, mailVars, scenario>>
      BY <2>2 DEF SettleItem, SettleTo, final
    <3>2. (final \in Resolved) \in BOOLEAN /\ next \in OrderStatus \cup {NoRow}
      BY <1>0 DEF Rest
    <3> HIDE DEF next
    <3>3. orderStatus' \in [Orders -> OrderStatus \cup {NoRow}]
      BY <3>1, <3>2 DEF Rest
    <3>4. due' \in [Orders -> BOOLEAN]
      <4> DEFINE b == final \in Resolved
      <4>1. due' = [due EXCEPT ![o] = b] /\ b \in BOOLEAN
        BY <3>1
      <4> HIDE DEF b
      <4> QED
        BY <4>1, Zenon DEF Rest
    <3> QED
      BY <3>1, <3>3, <3>4 DEF Rest, mailVars
  <2> QED
    BY <1>4, <2>1, <2>2
<1>5. ASSUME NEW o \in Orders, NEW p \in Procs,
             \/ ClaimRefused(p, o) \/ SettleRefused(p, o) \/ Notify(p, o) \/ NotifyRefused(p, o) \/ MailSent(p, o)
      PROVE  Rest'
  <2>1. CASE ClaimRefused(p, o) \/ SettleRefused(p, o) \/ NotifyRefused(p, o)
    BY <2>1 DEF Rest, ClaimRefused, SettleRefused, NotifyRefused, orderVars, attemptVars, mailVars
  <2>2. CASE Notify(p, o)
    <3>1. mails' \in [Orders -> Nat]
      BY <2>2 DEF Notify, Rest
    <3>2. mailDue' \in [Orders -> BOOLEAN]
      BY <2>2, Zenon DEF Notify, Rest
    <3> QED
      BY <2>2, <3>1, <3>2 DEF Notify, Rest, orderVars, attemptVars
  <2>3. CASE MailSent(p, o)
    BY <2>3, Zenon DEF MailSent, Rest, orderVars, attemptVars
  <2> QED
    BY <1>5, <2>1, <2>2, <2>3
<1>6. ASSUME NEW p \in Procs, Provide(p) \/ MailFails(p) \/ Abandon(p) PROVE Rest'
  BY <1>6 DEF Rest, Provide, ReadPaid, TopUp, QueryTopUp, Answered, MailFails, Abandon, orderVars, attemptVars, mailVars
<1> QED
  BY <1>1, <1>2, <1>3, <1>4, <1>5, <1>6, <1>7, Zenon DEF Next, Work

\* What is recorded of an order is well-typed; DELIVERED is what happened at the
\* provider (settleItem), also when an older claim's answer settled it; an order
\* that failed or waits for a retry is neither delivered nor pending there, if
\* failures are final or claims do not go stale under calls; and only orders that
\* were paid reach the provider.
THEOREM StatusAgrees == Spec => []TopUpInvariant
<1>1. Init => Rest
  BY TopUpConstants DEF Init, Rest
<1>2. IInv /\ QueueSound /\ Rest => TypeOK
  BY DEF IInv, Types, QueueSound, Rest, TypeOK
<1>3. IInv => OutcomeIsTrue /\ UnpaidIsNotSubmitted
  BY DEF IInv, OrderSound, OutcomeIsTrue, UnpaidIsNotSubmitted, Unpaid
<1> QED
  BY <1>1, <1>2, <1>3, RestSteps, Invariance, QueueInvariance, PTL DEF Spec, TopUpInvariant
==============================================================================
