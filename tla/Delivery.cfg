\* Two orders, a request that may stop and the worker, in three scenarios.
SPECIFICATION FairSpec
CONSTANTS
  o1 = o1
  o2 = o2
  h1 = h1
  Orders = {o1, o2}
  Undecryptable = {o2}
  Handlers = {h1}
  Workers = {w1}
  MaxAttempts = 2
  Batch = 1
  Verdicts = {"REFUND_PENDING"}
  ItemOverrides = {"FAILED"}
  Stops = {h1}
  Scenarios <- AllScenarios
  NoOrder = NoOrder
INVARIANTS DeliveryInvariant
PROPERTIES DeliveredStays RefundedGetsNothing NoMailAfterDelivered SettledOrderIsMailed
CHECK_DEADLOCK FALSE
