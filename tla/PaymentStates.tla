---------------------------- MODULE PaymentStates ----------------------------
(***************************************************************************)
(* The status vocabularies shared by the payment, order and inventory      *)
(* state machines, and the table of payment transitions that the payment   *)
(* service and the administrator's endpoint assert before they write.      *)
(***************************************************************************)

\* A payment is being worked on: the gateway's verdict is still wanted.
Payable == {"CREATED", "PENDING", "INITIATED", "PROCESSING", "UNKNOWN"}

\* A definite failure was recorded.  A payment verified afterwards is "late".
LateTerminal == {"FAILED", "CANCELLED", "EXPIRED"}

\* The verdicts an administrator may record on a payment issue.
RefundVerdicts == {"REFUND_PENDING", "REFUNDED", "REFUND_FAILED"}

PaymentStatus ==
  Payable \cup LateTerminal \cup RefundVerdicts \cup {"PAID", "PARTIALLY_REFUNDED"}

\* The transition table: from each status, the statuses it may move to.
Transitions ==
  [CREATED            |-> {"PENDING", "PROCESSING", "FAILED", "UNKNOWN"},
   PENDING            |-> {"INITIATED", "PROCESSING", "PAID", "UNKNOWN"} \cup LateTerminal,
   INITIATED          |-> {"PROCESSING", "PAID", "UNKNOWN"} \cup LateTerminal,
   PROCESSING         |-> {"PAID", "UNKNOWN"} \cup LateTerminal,
   UNKNOWN            |-> {"PROCESSING", "PAID", "REFUND_PENDING"} \cup LateTerminal,
   PAID               |-> {"REFUND_PENDING", "REFUNDED", "PARTIALLY_REFUNDED"},
   FAILED             |-> {"REFUND_PENDING"},
   CANCELLED          |-> {"REFUND_PENDING"},
   EXPIRED            |-> {"REFUND_PENDING"},
   REFUND_PENDING     |-> {"REFUNDED", "REFUND_FAILED"},
   REFUND_FAILED      |-> {"REFUND_PENDING", "REFUNDED"},
   REFUNDED           |-> {},
   PARTIALLY_REFUNDED |-> {"REFUND_PENDING", "REFUNDED"}]

\* assertPaymentTransition without the late-recovery option.
PaymentTransitionAllowed(from, to) == from = to \/ to \in Transitions[from]

\* assertPaymentTransition with lateVerifiedRecovery: a late payment may settle.
LateRecoveryAllowed(from, to) ==
  PaymentTransitionAllowed(from, to) \/ (from \in LateTerminal /\ to = "PAID")

OrderStatus ==
  {"PENDING", "CONFIRMED", "PROCESSING", "COMPLETED", "CANCELLED",
   "MANUAL_REVIEW", "REFUND_PENDING", "REFUNDED", "PARTIALLY_REFUNDED"}

GiftCardCodeStatus == {"AVAILABLE", "RESERVED", "SOLD", "DISABLED", "EXPIRED"}

\* The status a row would have if it existed.
NoRow == "NONE"
==============================================================================
