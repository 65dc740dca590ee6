------------------------ MODULE GiftCardDeliveryProofs ------------------------
(***************************************************************************)
(* What the delivery of gift cards never does, for every number of orders,  *)
(* requests, workers and attempts, and wherever processes stop.             *)
(*                                                                         *)
(* The argument: rows of gift_card_deliveries come with the settlement, so  *)
(* an order that may still settle has none.  While no send outlasts the     *)
(* retry delay, the claim excludes other claims until its outcome is        *)
(* recorded: nobody else works on the order and its rows stay not due.      *)
(***************************************************************************)
EXTENDS GiftCardDelivery, TLAPS

Types ==
  /\ scenario \in Scenario
  /\ orderPay \in [Orders -> PaymentStatus] /\ pay \in [Orders -> PaymentStatus]
  /\ item \in [Orders -> DeliveryStatus]
  /\ delivery \in [Orders -> {NoRow, "PENDING", "PROCESSING", "DELIVERED", "FAILED"}]
  /\ attempts \in [Orders -> Nat] /\ due \in [Orders -> BOOLEAN] /\ mails \in [Orders -> Nat]
  /\ job \in [Procs -> [step : Steps, order : Orders \cup {NoOrder}]]
  /\ \A p \in Procs : job[p].step # "idle" => job[p].order \in Orders

NoRowBeforeSettlement ==
  \A o \in Orders : pay[o] \in Payable => delivery[o] = NoRow /\ orderPay[o] \notin RefundVerdicts

\* The process p works on o alone, and the rows say what it has done so far.
Alone(p, o) ==
  /\ due[o] = FALSE
  /\ job[p].step \in {"template", "send", "sent"} => delivery[o] = "PROCESSING"
  /\ job[p].step = "failed" => delivery[o] \in {"PROCESSING", "DELIVERED"}
  /\ job[p].step = "sentItems" => delivery[o] = "DELIVERED"
  /\ job[p].step = "failedItems" => delivery[o] \in {"FAILED", "DELIVERED"}
  /\ \A q \in Procs : WorksOn(q, o) => q = p

ClaimExcludes ==
  scenario.slow \/ \A p \in Procs, o \in Orders : WorksOn(p, o) => Alone(p, o)

IInv == Types /\ NoRowBeforeSettlement /\ ClaimExcludes

------------------------------------------------------------------------------

LEMMA InitIInv == Init => IInv
BY DeliveryConstants DEF Init, IInv, Types, NoRowBeforeSettlement, ClaimExcludes, WorksOn, Working, Idle, Steps,
   PaymentStatus, Payable, RefundVerdicts, DeliveryStatus

LEMMA Distinct ==
  /\ Payable \cap RefundVerdicts = {} /\ "PAID" \notin Payable \cup RefundVerdicts
  /\ Payable \subseteq PaymentStatus /\ RefundVerdicts \subseteq PaymentStatus
  /\ "PAID" \in PaymentStatus /\ NoRow = "NONE" /\ NoOrder \notin Orders
BY DeliveryConstants DEF Payable, RefundVerdicts, PaymentStatus, NoRow

\* Steps after which no process works on an order it did not work on before, and
\* the rows of deliveries are as they were.
LEMMA QuietStep ==
  ASSUME IInv, Types', UNCHANGED <<delivery, due, scenario>>, NoRowBeforeSettlement',
         \A p \in Procs : job'[p] = job[p] \/ job'[p].step \notin Working
  PROVE  IInv'
BY DEF IInv, ClaimExcludes, Alone, WorksOn

\* Steps of a process that works on an order and goes on with it.
LEMMA WorkStep ==
  ASSUME IInv, Types', UNCHANGED <<due, scenario>>, NoRowBeforeSettlement',
         NEW p \in Procs, NEW o \in Orders, WorksOn(p, o),
         job'[p].order = o, job'[p].step \in Working,
         \A q \in Procs : q # p => job'[q] = job[q],
         \A x \in Orders : x # o => delivery'[x] = delivery[x],
         scenario.slow \/
           /\ job'[p].step \in {"template", "send", "sent"} => delivery'[o] = "PROCESSING"
           /\ job'[p].step = "failed" => delivery'[o] \in {"PROCESSING", "DELIVERED"}
           /\ job'[p].step = "sentItems" => delivery'[o] = "DELIVERED"
           /\ job'[p].step = "failedItems" => delivery'[o] \in {"FAILED", "DELIVERED"}
  PROVE  IInv'
BY DEF IInv, ClaimExcludes, Alone, WorksOn

------------------------------------------------------------------------------
(* The operations *)

LEMMA SettleIInv ==
  ASSUME IInv, NEW p \in Procs, NEW o \in Orders, Settle(p, o)
  PROVE  IInv'
<1>1. /\ job' = [job EXCEPT ![p] = [step |-> "claim", order |-> o]] /\ delivery[o] = NoRow
      /\ delivery' = [delivery EXCEPT ![o] = "PENDING"] /\ pay' = [pay EXCEPT ![o] = "PAID"]
      /\ UNCHANGED <<due, scenario>>
  BY DEF Settle, Go, IInv, NoRowBeforeSettlement
<1>2. Types'
  BY <1>1, Distinct DEF Settle, IInv, Types, Steps, Working, DeliveryStatus
<1>3. NoRowBeforeSettlement'
  BY <1>1, Distinct DEF Settle, IInv, Types, NoRowBeforeSettlement
<1>4. ~scenario.slow => \A q \in Procs : ~WorksOn(q, o)
  BY <1>1, Distinct DEF IInv, ClaimExcludes, Alone, WorksOn, Working
<1>5. \A q \in Procs, x \in Orders : (WorksOn(q, x))' => WorksOn(q, x) /\ q # p
  BY <1>1 DEF IInv, Types, WorksOn, Working
<1>6. ClaimExcludes'
  <2> SUFFICES ASSUME ~scenario.slow, NEW q \in Procs, NEW x \in Orders, (WorksOn(q, x))'
               PROVE  (Alone(q, x))'
    BY <1>1 DEF ClaimExcludes
  <2>1. x # o /\ q # p /\ Alone(q, x)
    BY <1>4, <1>5 DEF IInv, ClaimExcludes
  <2> QED
    BY <1>1, <1>5, <2>1 DEF Alone, IInv, Types
<1> QED
  BY <1>2, <1>3, <1>6 DEF IInv

LEMMA ClaimIInv ==
  ASSUME IInv, NEW p \in Procs, Claim(p)
  PROVE  IInv'
<1> DEFINE o == job[p].order
<1>1. /\ job' = [job EXCEPT ![p].step = "template"] /\ job[p].step = "update" /\ o \in Orders
      /\ delivery' = [delivery EXCEPT ![o] = "PROCESSING"] /\ due' = [due EXCEPT ![o] = FALSE]
      /\ attempts' = [attempts EXCEPT ![o] = @ + 1]
      /\ UNCHANGED <<orderVars, item, mails, scenario>> /\ Claimable(o)
  BY DEF Claim, Step, At, IInv, Types
<1>2. Types'
  BY <1>1 DEF IInv, Types, Steps, Working, orderVars
<1>3. NoRowBeforeSettlement'
  BY <1>1, Distinct DEF IInv, NoRowBeforeSettlement, Claimable, orderVars, Types
<1>4. ~scenario.slow => \A q \in Procs : ~WorksOn(q, o)
  BY <1>1 DEF IInv, ClaimExcludes, Alone, WorksOn, Working, Claimable
<1>5. \A q \in Procs, x \in Orders : q # p /\ (WorksOn(q, x))' => WorksOn(q, x) /\ job'[q] = job[q]
  BY <1>1 DEF IInv, Types, WorksOn
<1>6. job'[p].step = "template" /\ job'[p].order = o
  BY <1>1 DEF IInv, Types
<1>7. ClaimExcludes'
  <2> SUFFICES ASSUME ~scenario.slow, NEW q \in Procs, NEW x \in Orders, (WorksOn(q, x))'
               PROVE  (Alone(q, x))'
    BY <1>1 DEF ClaimExcludes
  <2>1. CASE q = p
    <3>1. x = o
      BY <1>6, <2>1 DEF WorksOn
    <3> QED
      BY <1>1, <1>4, <1>5, <1>6, <2>1, <3>1 DEF Alone, IInv, Types
  <2>2. CASE q # p
    <3>1. x # o /\ Alone(q, x)
      BY <1>4, <1>5, <2>2 DEF IInv, ClaimExcludes
    <3> QED
      BY <1>1, <1>5, <1>6, <2>2, <3>1 DEF Alone, IInv, Types, WorksOn
  <2> QED
    BY <2>1, <2>2
<1> QED
  BY <1>2, <1>3, <1>7 DEF IInv

\* A worker or a request takes an order up or gives it up.
LEMMA JobOnlyIInv ==
  ASSUME IInv, NEW p \in Procs, NEW j \in [step : Steps, order : Orders \cup {NoOrder}],
         job' = [job EXCEPT ![p] = j], j.step \notin Working,
         j.step # "idle" => j.order \in Orders,
         UNCHANGED <<orderVars, item, deliveryVars, mails, scenario>>
  PROVE  IInv'
<1>1. Types'
  BY DEF IInv, Types, orderVars, deliveryVars
<1>2. NoRowBeforeSettlement'
  BY DEF IInv, NoRowBeforeSettlement, orderVars, deliveryVars
<1>3. \A q \in Procs : job'[q] = job[q] \/ job'[q].step \notin Working
  BY DEF IInv, Types
<1> QED
  BY <1>1, <1>2, <1>3, QuietStep DEF deliveryVars

LEMMA WorkIInv ==
  ASSUME IInv, NEW p \in Procs, Work(p) \/ QueryFails(p) \/ Abandon(p)
  PROVE  IInv'
<1> DEFINE o == job[p].order
<1>0. Idle \in [step : Steps, order : Orders \cup {NoOrder}] /\ Idle.step = "idle" /\ "idle" \notin Working
  BY DEF Idle, Steps, Working
<1>1. CASE Claim(p)
  BY <1>1, ClaimIInv
<1>2. CASE Skipped(p) \/ Overtaken(p)
  BY <1>0, <1>2, JobOnlyIInv DEF Skipped, Overtaken
<1>9. CASE ReadOrder(p)
  <2> DEFINE j == [job[p] EXCEPT !.step = "update"]
  <2>1. job[p].step = "claim" /\ job' = [job EXCEPT ![p] = j] /\ UNCHANGED <<orderVars, item, deliveryVars, mails, scenario>>
    BY <1>9 DEF ReadOrder, At, Step
  <2>2. j \in [step : Steps, order : Orders \cup {NoOrder}] /\ j.step = "update" /\ j.order \in Orders
    BY <2>1 DEF IInv, Types, Steps
  <2>3. "update" \notin Working
    BY DEF Working
  <2> QED
    BY <2>1, <2>2, <2>3, JobOnlyIInv
<1>3. CASE CannotDecrypt(p) \/ Abandon(p)
  BY <1>0, <1>3, JobOnlyIInv DEF CannotDecrypt, Abandon, Drop
<1>4. CASE Template(p)
  <2>1. /\ WorksOn(p, o) /\ o \in Orders /\ job[p].step = "template"
        /\ job' = [job EXCEPT ![p].step = "send"] /\ UNCHANGED <<orderVars, item, deliveryVars, mails, scenario>>
    BY <1>4 DEF Template, At, Step, WorksOn, Working, IInv, Types
  <2>2. Types' /\ NoRowBeforeSettlement'
    BY <2>1 DEF IInv, Types, Steps, Working, NoRowBeforeSettlement, orderVars, deliveryVars
  <2>3. job'[p].order = o /\ job'[p].step = "send" /\ \A q \in Procs : q # p => job'[q] = job[q]
    BY <2>1 DEF IInv, Types
  <2>4. scenario.slow \/ delivery'[o] = "PROCESSING"
    BY <2>1 DEF IInv, ClaimExcludes, Alone, deliveryVars
  <2> QED
    BY <2>1, <2>2, <2>3, <2>4, WorkStep DEF Working, deliveryVars
<1>5. CASE Sent(p) \/ SendFails(p)
  <2>1. PICK step \in {"sent", "failed"} :
        /\ WorksOn(p, o) /\ o \in Orders /\ job[p].step = "send"
        /\ mails' \in {mails, [mails EXCEPT ![o] = @ + 1]}
        /\ job' = [job EXCEPT ![p].step = step] /\ UNCHANGED <<orderVars, item, deliveryVars, scenario>>
    BY <1>5 DEF Sent, SendFails, At, Step, WorksOn, Working, IInv, Types
  <2>2. Types' /\ NoRowBeforeSettlement'
    BY <2>1 DEF IInv, Types, Steps, Working, NoRowBeforeSettlement, orderVars, deliveryVars
  <2>3. job'[p].order = o /\ job'[p].step = step /\ \A q \in Procs : q # p => job'[q] = job[q]
    BY <2>1 DEF IInv, Types
  <2>4. scenario.slow \/ delivery'[o] = "PROCESSING"
    BY <2>1 DEF IInv, ClaimExcludes, Alone, deliveryVars
  <2> QED
    BY <2>1, <2>2, <2>3, <2>4, WorkStep DEF Working, deliveryVars
<1>6. CASE RecordDeliveries(p)
  <2>1. PICK outcome \in {"DELIVERED", "FAILED"}, step \in {"sentItems", "failedItems"} :
        /\ WorksOn(p, o) /\ o \in Orders
        /\ \/ job[p].step = "sent" /\ step = "sentItems" /\ outcome = "DELIVERED"
           \/ job[p].step = "failed" /\ step = "failedItems" /\ outcome = "FAILED"
        /\ delivery' = [delivery EXCEPT ![o] = IF @ = "PROCESSING" THEN outcome ELSE @]
        /\ job' = [job EXCEPT ![p].step = step] /\ UNCHANGED <<orderVars, item, due, attempts, mails, scenario>>
    BY <1>6 DEF RecordDeliveries, RecordOutcome, At, Step, WorksOn, Working, IInv, Types
  <2>2. Types'
    BY <2>1 DEF IInv, Types, Steps, Working, orderVars
  <2>3. NoRowBeforeSettlement'
    BY <2>1, Distinct DEF IInv, Types, NoRowBeforeSettlement, orderVars
  <2>4. job'[p].order = o /\ job'[p].step = step /\ \A q \in Procs : q # p => job'[q] = job[q]
    BY <2>1 DEF IInv, Types
  <2>5. /\ delivery'[o] = IF delivery[o] = "PROCESSING" THEN outcome ELSE delivery[o]
        /\ \A x \in Orders : x # o => delivery'[x] = delivery[x]
    BY <2>1 DEF IInv, Types
  <2>6. \/ scenario.slow
        \/ job[p].step = "sent" /\ delivery[o] = "PROCESSING"
        \/ job[p].step = "failed" /\ delivery[o] \in {"PROCESSING", "DELIVERED"}
    BY <2>1 DEF IInv, ClaimExcludes, Alone
  <2> QED
    BY <2>1, <2>2, <2>3, <2>4, <2>5, <2>6, WorkStep DEF Working
<1>7. CASE RecordItems(p)
  <2>1. /\ job' = [job EXCEPT ![p] = Idle] /\ item' = [item EXCEPT ![o] = ItemsOutcome(p)]
        /\ UNCHANGED <<orderVars, deliveryVars, mails, scenario>>
    BY <1>7 DEF RecordItems
  <2>2. Types' /\ NoRowBeforeSettlement'
    BY <1>0, <2>1 DEF IInv, Types, NoRowBeforeSettlement, ItemsOutcome, DeliveryStatus, orderVars, deliveryVars
  <2>3. \A q \in Procs : job'[q] = job[q] \/ job'[q].step \notin Working
    BY <1>0, <2>1 DEF IInv, Types
  <2> QED
    BY <2>1, <2>2, <2>3, QuietStep DEF deliveryVars
<1>8. CASE QueryFails(p)
  <2>1. /\ WorksOn(p, o) /\ o \in Orders /\ job[p].step \in {"sent", "sentItems"}
        /\ job' = [job EXCEPT ![p].step = "failed"] /\ UNCHANGED <<orderVars, item, deliveryVars, mails, scenario>>
    BY <1>8 DEF QueryFails, At, Step, WorksOn, Working, IInv, Types
  <2>2. Types' /\ NoRowBeforeSettlement'
    BY <2>1 DEF IInv, Types, Steps, Working, NoRowBeforeSettlement, orderVars, deliveryVars
  <2>3. job'[p].order = o /\ job'[p].step = "failed" /\ \A q \in Procs : q # p => job'[q] = job[q]
    BY <2>1 DEF IInv, Types
  <2>4. scenario.slow \/ delivery'[o] \in {"PROCESSING", "DELIVERED"}
    BY <2>1 DEF IInv, ClaimExcludes, Alone, deliveryVars
  <2> QED
    BY <2>1, <2>2, <2>3, <2>4, WorkStep DEF Working, deliveryVars
<1> QED
  BY <1>1, <1>2, <1>3, <1>4, <1>5, <1>6, <1>7, <1>8, <1>9 DEF Work

LEMMA OtherIInv ==
  ASSUME IInv, NEW o \in Orders,
         \/ View(o) \/ EditCode(o) \/ BecomesDue(o)
         \/ \E verdict \in Verdicts : VerifyPaymentIssue(o, verdict)
         \/ \E s \in scenario.overrides : UpdateOrderStatus(o, s)
         \/ \E s \in ItemOverrides : UpdateDeliveryStatus(o, s)
  PROVE  IInv'
<1>1. CASE View(o) \/ EditCode(o)
  BY <1>1 DEF View, EditCode, IInv, Types, NoRowBeforeSettlement, ClaimExcludes, Alone, WorksOn, orderVars, deliveryVars
<1>2. CASE BecomesDue(o)
  <2>1. /\ due' = [due EXCEPT ![o] = TRUE] /\ UNCHANGED <<orderVars, item, delivery, attempts, mails, scenario, job>>
        /\ scenario.slow \/ \A p \in Procs : ~WorksOn(p, o)
    BY <1>2 DEF BecomesDue
  <2>2. Types' /\ NoRowBeforeSettlement'
    BY <2>1 DEF IInv, Types, NoRowBeforeSettlement, orderVars
  <2>3. ClaimExcludes'
    BY <2>1 DEF IInv, Types, ClaimExcludes, Alone, WorksOn, Working
  <2> QED
    BY <2>2, <2>3 DEF IInv
<1>3. ASSUME NEW verdict \in Verdicts, VerifyPaymentIssue(o, verdict) PROVE IInv'
  <2>1. verdict \in RefundVerdicts
    BY DeliveryConstants
  <2>2. /\ pay' = [pay EXCEPT ![o] = verdict] /\ orderPay' = [orderPay EXCEPT ![o] = verdict]
        /\ UNCHANGED <<item, deliveryVars, mails, scenario, job>>
    BY <1>3 DEF VerifyPaymentIssue
  <2>3. Types' /\ NoRowBeforeSettlement'
    BY <2>1, <2>2, Distinct DEF IInv, Types, NoRowBeforeSettlement, deliveryVars
  <2> QED
    BY <2>2, <2>3, QuietStep DEF deliveryVars
<1>4. ASSUME NEW s, UpdateOrderStatus(o, s) PROVE IInv'
  BY <1>4 DEF UpdateOrderStatus, IInv, Types, NoRowBeforeSettlement, ClaimExcludes, Alone, WorksOn, deliveryVars
<1>5. ASSUME NEW s \in ItemOverrides, UpdateDeliveryStatus(o, s) PROVE IInv'
  BY <1>5, DeliveryConstants DEF UpdateDeliveryStatus, IInv, Types, NoRowBeforeSettlement, ClaimExcludes, Alone,
     WorksOn, orderVars, deliveryVars
<1> QED
  BY <1>1, <1>2, <1>3, <1>4, <1>5

LEMMA StepIInv == IInv /\ [Next]_vars => IInv'
<1> SUFFICES ASSUME IInv, [Next]_vars PROVE IInv'
  OBVIOUS
<1>0. Handlers \subseteq Procs /\ Workers \subseteq Procs /\ scenario \in Scenario
  BY DEF Procs, IInv, Types
<1>1. ASSUME NEW p \in Procs, NEW o \in Orders, Settle(p, o) PROVE IInv'
  BY <1>1, SettleIInv
<1>2. ASSUME NEW h \in Procs, NEW o \in Orders, Repeated(h, o) PROVE IInv'
  BY <1>2, JobOnlyIInv DEF Repeated, Go, Working, Steps
<1>3. ASSUME NEW p \in Procs, Work(p) \/ QueryFails(p) \/ Abandon(p) PROVE IInv'
  BY <1>3, WorkIInv
<1>4. ASSUME NEW w \in Procs, Sweep(w) PROVE IInv'
  BY <1>4 DEF Sweep, IInv, Types, NoRowBeforeSettlement, ClaimExcludes, Alone, WorksOn, orderVars, deliveryVars
<1>5. ASSUME NEW w \in Procs, NEW o \in Orders, SweepNext(w, o) PROVE IInv'
  BY <1>5, JobOnlyIInv DEF SweepNext, Go, Working, Steps
<1>6. CASE UNCHANGED vars
  BY <1>6 DEF vars, IInv, Types, NoRowBeforeSettlement, ClaimExcludes, Alone, WorksOn, orderVars, deliveryVars
<1> QED
  BY <1>0, <1>1, <1>2, <1>3, <1>4, <1>5, <1>6, OtherIInv DEF Next, Worker, Scenario

------------------------------------------------------------------------------

LEMMA StaysStep ==
  ASSUME IInv, [Next]_vars, NEW o \in Orders, delivery[o] = "DELIVERED"
  PROVE  delivery'[o] = "DELIVERED"
<1>1. ASSUME NEW p, NEW x \in Orders, Settle(p, x) PROVE delivery'[o] = delivery[o]
  <2>1. delivery' = [delivery EXCEPT ![x] = "PENDING"] /\ delivery[x] = NoRow
    BY <1>1 DEF Settle, IInv, NoRowBeforeSettlement
  <2> QED
    BY <2>1, Distinct DEF IInv, Types
<1>2. ASSUME NEW p, Claim(p) PROVE delivery'[o] = delivery[o]
  BY <1>2 DEF Claim, Claimable, IInv, Types
<1>3. ASSUME NEW p, RecordDeliveries(p) PROVE delivery'[o] = delivery[o]
  BY <1>3 DEF RecordDeliveries, RecordOutcome, IInv, Types
<1>4. scenario.started \subseteq Orders
  BY DEF IInv, Types, Scenario
<1> QED
  BY <1>1, <1>2, <1>3, <1>4 DEF Next, Worker, Work, Repeated, Sweep, SweepNext, ReadOrder, Skipped, Overtaken,
     EditCode, Template, CannotDecrypt, Drop, Sent, SendFails, RecordItems, QueryFails, Abandon, View, BecomesDue,
     VerifyPaymentIssue, UpdateOrderStatus, UpdateDeliveryStatus, deliveryVars, vars

\* A delivery that was recorded is never sent back, whatever the answers of other
\* claims, failing queries or administrators do afterwards (deliverGiftCardOrder,
\* finalizeGiftCardOrder).
THEOREM DeliveriesStay == Spec => DeliveredStays
<1>1. IInv /\ [Next]_vars =>
        [\A o \in Orders : delivery[o] = "DELIVERED" => delivery'[o] = "DELIVERED"]_vars
  BY StaysStep
<1> QED
  BY InitIInv, StepIInv, <1>1, PTL DEF Spec, DeliveredStays

\* Only a process that is past its read of the order works on its delivery.
LEMMA RefundedStep ==
  ASSUME IInv, Next, NEW o \in Orders, RefundedForGood(o)
  PROVE  RefundedForGood(o)' /\ attempts'[o] = attempts[o] /\ mails'[o] = mails[o]
<1> DEFINE Rests == RefundedForGood(o)' /\ attempts'[o] = attempts[o] /\ mails'[o] = mails[o]
<1>0. /\ orderPay[o] \in RefundVerdicts /\ ~Ready(o) /\ pay[o] \notin Payable
      /\ \A p \in Procs : job[p].order = o => job[p].step = "claim"
      /\ Handlers \subseteq Procs /\ Workers \subseteq Procs /\ scenario \in Scenario
      /\ Idle.step = "idle" /\ Idle.order # o
  BY Distinct DEF RefundedForGood, Ready, At, IInv, Types, NoRowBeforeSettlement, Procs, Idle
<1>1. ASSUME NEW p \in Procs, NEW j, job' = [job EXCEPT ![p] = j],
             j.order = o => j.step = "claim", UNCHANGED <<orderVars, attempts, mails>>
      PROVE  Rests
  BY <1>0, <1>1 DEF RefundedForGood, At, IInv, Types, orderVars
<1>2. ASSUME NEW p \in Procs, NEW step, job' = [job EXCEPT ![p].step = step], job[p].step # "claim",
             \A x \in Orders : x # job[p].order => attempts'[x] = attempts[x] /\ mails'[x] = mails[x],
             UNCHANGED orderVars
      PROVE  Rests
  BY <1>0, <1>2 DEF RefundedForGood, At, IInv, Types, orderVars
<1>3. ASSUME UNCHANGED <<orderPay, job, attempts, mails>> PROVE Rests
  BY <1>0, <1>3 DEF RefundedForGood, At
<1>4. ASSUME NEW p \in Procs, NEW x \in Orders, Settle(p, x) PROVE Rests
  <2>1. x # o /\ job' = [job EXCEPT ![p] = [step |-> "claim", order |-> x]]
        /\ orderPay' = [orderPay EXCEPT ![x] = "PAID"] /\ UNCHANGED <<attempts, mails>>
    BY <1>0, <1>4 DEF Settle, Go
  <2> QED
    BY <1>0, <2>1 DEF RefundedForGood, At, IInv, Types
<1>5. ASSUME NEW p \in Procs, Work(p) PROVE Rests
  <2>1. CASE ReadOrder(p)
    <3>1. job[p].order # o /\ job' = [job EXCEPT ![p] = [@ EXCEPT !.step = "update"]]
      BY <1>0, <2>1 DEF ReadOrder, Step
    <3> QED
      BY <1>1, <2>1, <3>1 DEF ReadOrder, deliveryVars, IInv, Types
  <2>2. CASE Skipped(p) \/ Overtaken(p) \/ CannotDecrypt(p) \/ RecordItems(p)
    BY <1>0, <1>1, <2>2 DEF Skipped, Overtaken, CannotDecrypt, Drop, RecordItems, deliveryVars
  <2>3. CASE Claim(p)
    BY <1>2, <2>3 DEF Claim, At, Step, IInv, Types
  <2>4. CASE Template(p)
    BY <1>2, <2>4 DEF Template, At, Step, deliveryVars
  <2>5. CASE Sent(p) \/ SendFails(p)
    BY <1>2, <2>5 DEF Sent, SendFails, At, Step, deliveryVars, IInv, Types
  <2>6. CASE RecordDeliveries(p)
    BY <1>2, <2>6 DEF RecordDeliveries, At, Step
  <2> QED
    BY <1>5, <2>1, <2>2, <2>3, <2>4, <2>5, <2>6 DEF Work
<1>6. ASSUME NEW p \in Procs, NEW x \in Orders, Repeated(p, x) \/ SweepNext(p, x) PROVE Rests
  BY <1>1, <1>6 DEF Repeated, SweepNext, Go, deliveryVars
<1>7. ASSUME NEW p \in Procs, QueryFails(p) \/ Abandon(p) PROVE Rests
  <2>1. CASE QueryFails(p)
    BY <1>2, <2>1 DEF QueryFails, At, Step, deliveryVars
  <2>2. CASE Abandon(p)
    BY <1>0, <1>1, <2>2 DEF Abandon, Drop, deliveryVars
  <2> QED
    BY <1>7, <2>1, <2>2
<1>8. ASSUME NEW x \in Orders, NEW verdict \in Verdicts, VerifyPaymentIssue(x, verdict) PROVE Rests
  <2>1. verdict \in RefundVerdicts /\ orderPay' = [orderPay EXCEPT ![x] = verdict]
        /\ UNCHANGED <<job, attempts, mails>>
    BY <1>8, DeliveryConstants DEF VerifyPaymentIssue, deliveryVars
  <2> QED
    BY <1>0, <2>1 DEF RefundedForGood, At, IInv, Types
<1>9. ASSUME NEW x, \/ Sweep(x) \/ View(x) \/ EditCode(x) \/ BecomesDue(x)
                    \/ \E s : UpdateOrderStatus(x, s) \/ UpdateDeliveryStatus(x, s)
      PROVE Rests
  BY <1>3, <1>9 DEF Sweep, View, EditCode, BecomesDue, UpdateOrderStatus, UpdateDeliveryStatus,
     orderVars, deliveryVars
<1> QED
  BY <1>0, <1>4, <1>5, <1>6, <1>7, <1>8, <1>9 DEF Next, Worker, Scenario

\* Once a refund is recorded on an order and the deliveries that had read it before
\* are over, nothing of it is claimed, mailed or shown again (the reads of
\* deliverGiftCardOrder, getForCustomer and getDeliveryForCustomer).
THEOREM RefundsStopDelivery == Spec => RefundedGetsNothing
<1> DEFINE Nothing == \A o \in Orders :
             /\ RefundedForGood(o) => RefundedForGood(o)' /\ attempts'[o] = attempts[o] /\ mails'[o] = mails[o]
             /\ orderPay[o] \in RefundVerdicts /\ o \in shown' => o \in shown
<1>1. IInv /\ [Next]_vars => [Nothing]_vars
  <2> SUFFICES ASSUME IInv, Next, NEW o \in Orders
               PROVE  /\ RefundedForGood(o) => RefundedForGood(o)' /\ attempts'[o] = attempts[o] /\ mails'[o] = mails[o]
                      /\ orderPay[o] \in RefundVerdicts /\ o \in shown' => o \in shown
    OBVIOUS
  <2>1. ASSUME NEW x \in Orders, View(x), orderPay[o] \in RefundVerdicts, o \in shown' PROVE o \in shown
    BY <2>1, Distinct DEF View, CanReveal
  <2>2. orderPay[o] \in RefundVerdicts /\ o \in shown' => o \in shown
    BY <2>1 DEF Next, Worker, Work, Settle, Repeated, Sweep, SweepNext, ReadOrder, Skipped, Claim, Overtaken,
       Template, CannotDecrypt, Drop, Sent, SendFails, RecordDeliveries, RecordItems, QueryFails, Abandon,
       EditCode, BecomesDue, VerifyPaymentIssue, UpdateOrderStatus, UpdateDeliveryStatus
  <2> QED
    BY <2>2, RefundedStep
<1> QED
  BY InitIInv, StepIInv, <1>1, PTL DEF Spec, RefundedGetsNothing

\* While no send outlasts the retry delay, the codes of an order are mailed only
\* under a claim that is still open, never after the delivery was recorded.
THEOREM MailsAreClaimed == Spec => NoMailAfterDelivered
<1> DEFINE Claimed == \A o \in Orders :
             ~scenario.slow /\ mails'[o] > mails[o] => delivery[o] = "PROCESSING"
<1>1. IInv /\ [Next]_vars => [Claimed]_vars
  <2> SUFFICES ASSUME IInv, Next, NEW o \in Orders, ~scenario.slow, mails'[o] > mails[o]
               PROVE  delivery[o] = "PROCESSING"
    OBVIOUS
  <2>1. mails' # mails
    BY DEF IInv, Types
  <2>2. PICK p \in Procs : Sent(p) \/ SendFails(p)
    BY <2>1 DEF Next, Worker, Work, Procs, Settle, Repeated, Sweep, SweepNext, Claim, ReadOrder, Skipped, Overtaken,
       EditCode, Template, CannotDecrypt, Drop, RecordDeliveries, RecordItems, QueryFails, Abandon, View,
       BecomesDue, VerifyPaymentIssue, UpdateOrderStatus, UpdateDeliveryStatus
  <2>3. job[p].step = "send" /\ mails' = [mails EXCEPT ![job[p].order] = @ + 1]
    BY <2>1, <2>2 DEF Sent, SendFails, At
  <2>4. job[p].order = o
    BY <2>3 DEF IInv, Types
  <2> QED
    BY <2>3, <2>4 DEF IInv, ClaimExcludes, Alone, WorksOn, Working
<1> QED
  BY InitIInv, StepIInv, <1>1, PTL DEF Spec, NoMailAfterDelivered

------------------------------------------------------------------------------
(* The items of an order *)

LEMMA ItemStep ==
  ASSUME IInv, IInv', [Next]_vars, ItemFollowsDelivery, "DELIVERED" \notin ItemOverrides
  PROVE  ItemFollowsDelivery'
<1> SUFFICES ASSUME NEW o \in Orders, ~scenario'.slow, item'[o] = "DELIVERED"
             PROVE  delivery'[o] = "DELIVERED"
  BY DEF ItemFollowsDelivery
<1>1. scenario' = scenario
  BY DEF Next, Worker, Work, Settle, Repeated, Sweep, SweepNext, Claim, ReadOrder, Skipped, Overtaken,
     EditCode, Template, CannotDecrypt, Drop, Sent, SendFails, RecordDeliveries, RecordItems, QueryFails, Abandon, View,
     BecomesDue, VerifyPaymentIssue, UpdateOrderStatus, UpdateDeliveryStatus, vars
<1>2. CASE item'[o] = item[o]
  BY <1>1, <1>2, StaysStep DEF ItemFollowsDelivery
<1>3. ASSUME NEW p, NEW x, Settle(p, x) PROVE item'[o] = item[o]
  BY <1>3 DEF Settle, IInv, Types
<1>4. ASSUME NEW p \in Procs, RecordItems(p), item'[o] # item[o] PROVE delivery'[o] = "DELIVERED"
  <2>1. job[p].order = o /\ job[p].step = "sentItems" /\ delivery' = delivery
    BY <1>4 DEF RecordItems, ItemsOutcome, At, IInv, Types, deliveryVars
  <2> QED
    BY <1>1, <2>1 DEF IInv, ClaimExcludes, Alone, WorksOn, Working
<1>5. ASSUME NEW x, NEW s \in ItemOverrides, UpdateDeliveryStatus(x, s) PROVE item'[o] = item[o]
  BY <1>5 DEF UpdateDeliveryStatus, IInv, Types
<1> QED
  BY <1>2, <1>3, <1>4, <1>5 DEF Next, Worker, Work, Repeated, Sweep, SweepNext, Claim, ReadOrder, Skipped, Overtaken,
     EditCode, Template, CannotDecrypt, Drop, Sent, SendFails, RecordDeliveries, QueryFails, Abandon, View,
     BecomesDue, VerifyPaymentIssue, UpdateOrderStatus, vars, Procs

------------------------------------------------------------------------------
(* Types *)

Rest ==
  /\ status \in [Orders -> OrderStatus] /\ attempts \in [Orders -> 0..MaxAttempts]
  /\ shown \subseteq Orders /\ scenario \in Scenarios /\ todo \in [Workers -> SUBSET Orders]
  /\ codes \in [Orders -> {"RESERVED", "SOLD", "REOPENED"}]

LEMMA RestStep ==
  ASSUME IInv, Rest, [Next]_vars
  PROVE  Rest'
<1>0. /\ scenario \in Scenario /\ MaxAttempts \in Nat
      /\ {"PENDING", "COMPLETED", "CANCELLED", "REFUND_PENDING"} \subseteq OrderStatus
  BY DeliveryConstants DEF IInv, Types, OrderStatus
<1>1. ASSUME NEW p, NEW o, Settle(p, o) PROVE Rest'
  BY <1>0, <1>1 DEF Settle, Rest
<1>2. ASSUME NEW w \in Workers, Sweep(w) PROVE Rest'
  BY <1>2 DEF Sweep, Rest, orderVars, deliveryVars
<1>3. ASSUME NEW w \in Workers, NEW o, SweepNext(w, o) PROVE Rest'
  BY <1>3 DEF SweepNext, Rest, orderVars, deliveryVars
<1>4. ASSUME NEW p \in Procs, Claim(p) PROVE Rest'
  <2>1. /\ attempts' = [attempts EXCEPT ![job[p].order] = @ + 1] /\ attempts[job[p].order] < MaxAttempts
        /\ job[p].order \in Orders /\ UNCHANGED <<orderVars, codes, shown, scenario, todo>>
    BY <1>4 DEF Claim, Claimable, At, IInv, Types
  <2> QED
    BY <1>0, <2>1 DEF Rest, orderVars
<1>5. ASSUME NEW p, CannotDecrypt(p) \/ Abandon(p) PROVE Rest'
  BY <1>5 DEF CannotDecrypt, Abandon, Drop, Rest, orderVars, deliveryVars
<1>6. ASSUME NEW o \in Orders, View(o) PROVE Rest'
  BY <1>6 DEF View, Rest, orderVars, deliveryVars
<1>7. ASSUME NEW o, NEW verdict, VerifyPaymentIssue(o, verdict) PROVE Rest'
  BY <1>0, <1>7 DEF VerifyPaymentIssue, Rest, deliveryVars
<1>8. ASSUME NEW o, NEW s \in scenario.overrides, UpdateOrderStatus(o, s) PROVE Rest'
  BY <1>0, <1>8 DEF UpdateOrderStatus, Rest, deliveryVars, Scenario
<1>9. ASSUME UNCHANGED <<status, codes, attempts, shown, scenario, todo>> PROVE Rest'
  BY <1>9 DEF Rest
<1>11. ASSUME NEW o \in Orders, EditCode(o) PROVE Rest'
  BY <1>11 DEF EditCode, Rest, orderVars, deliveryVars
<1>10. Handlers \subseteq Procs /\ Workers \subseteq Procs
  BY DEF Procs
<1> QED
  BY <1>1, <1>2, <1>3, <1>4, <1>5, <1>6, <1>7, <1>8, <1>9, <1>10, <1>11 DEF Next, Worker, Work, Repeated,
     ReadOrder, Skipped, Overtaken, Template, Sent, SendFails, RecordDeliveries, RecordItems, QueryFails,
     BecomesDue, UpdateDeliveryStatus,
     orderVars, deliveryVars, vars

\* The rows are well-typed and attempts stay within their limit; and unless an
\* administrator writes it by hand, the items of an order say DELIVERED only once
\* its deliveries do, also when a process stops between the two writes.
THEOREM ItemsTellTheTruth ==
  ASSUME "DELIVERED" \notin ItemOverrides
  PROVE  Spec => []DeliveryInvariant
<1>1. Init => ItemFollowsDelivery
  BY DEF Init, ItemFollowsDelivery
<1>2. IInv /\ IInv' /\ [Next]_vars /\ ItemFollowsDelivery => ItemFollowsDelivery'
  BY ItemStep
<1>3. Init => Rest
  BY DeliveryConstants DEF Init, Rest, OrderStatus
<1>4. IInv /\ Rest /\ [Next]_vars => Rest'
  BY RestStep
<1>5. IInv /\ Rest => TypeOK
  BY DEF IInv, Types, Rest, TypeOK
<1> QED
  BY InitIInv, StepIInv, <1>1, <1>2, <1>3, <1>4, <1>5, PTL DEF Spec, DeliveryInvariant
==============================================================================
