\* One order of one code, three processes that race to settle its payment, under
\* fairness; a transaction of the initiation may fail.
SPECIFICATION FairSpec
CONSTANTS
  o1 = o1  o2 = o2  c1 = c1  c2 = c2  c3 = c3  d1 = d1  d2 = d2
  Orders = {o1}
  Codes = {c1}
  Denominations = {d1}
  CodeDenom <- OneCode
  Lines <- SingleLines
  Handlers = {h1, h2}
  Workers = {w1}
  NoOrder = NoOrder
  DbFaults = TRUE
  Verdicts = {"REFUNDED", "REFUND_FAILED"}
  Overrides = {}
INVARIANTS SettlementInvariant
PROPERTIES SettledPaymentCompletesItsOrder CapturedPaymentIsSettled OneSessionPerOrder NoReleaseUnderOpenSession
CHECK_DEADLOCK FALSE
