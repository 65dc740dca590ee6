\* An order of two items, one for two codes, and an order that needs one of
\* the same codes: each may lose codes to the other and come back late, a
\* transaction may fail and an administrator may close an order.
SPECIFICATION Spec
CONSTANTS
  o1 = o1  o2 = o2  c1 = c1  c2 = c2  c3 = c3  d1 = d1  d2 = d2
  Orders = {o1, o2}
  Codes = {c1, c2, c3}
  Denominations = {d1, d2}
  CodeDenom <- ThreeCodes
  Lines <- ContendedLines
  Handlers = {h1}
  Workers = {}
  NoOrder = NoOrder
  DbFaults = TRUE
  Verdicts = {"REFUND_PENDING"}
  Overrides = {"CANCELLED"}
SYMMETRY SameCodes
INVARIANTS PaidOrderOwnsItsCodes
PROPERTIES SoldIsFinal ImplementsLedger
CHECK_DEADLOCK FALSE
