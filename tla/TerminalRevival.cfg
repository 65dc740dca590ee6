\* A mark that was decided before the payment settled is written after it.
SPECIFICATION Spec
CONSTANTS
  o1 = o1  o2 = o2  c1 = c1  c2 = c2  c3 = c3  d1 = d1  d2 = d2
  Orders = {o1}
  Codes = {c1}
  Denominations = {d1}
  CodeDenom <- OneCode
  Lines <- SingleLines
  Handlers = {h1}
  Workers = {w1}
  NoOrder = NoOrder
  DbFaults = FALSE
  Verdicts = {}
  Overrides = {}
PROPERTIES NoTerminalRevival
CHECK_DEADLOCK FALSE
