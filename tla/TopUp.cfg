\* One order, a request, the worker and an administrator, all of which may stop.
SPECIFICATION FairSpec
CONSTANTS
  Orders = {o1}
  Handlers = {h1}
  Workers = {w1}
  Admins = {a1}
  NoAdmin = NoAdmin
  NoOrder = NoOrder
  MaxAttempts = 3
  MaxMails = 2
  Verdicts = {"REFUND_PENDING", "REFUNDED"}
  Stops = {h1, w1, a1}
  Scenarios <- AllScenarios
INVARIANTS OneSubmissionAtATime TopUpInvariant
PROPERTIES ImplementsFulfilment PlaceIsKept PaidOrderIsResolved CompletionIsMailed
CHECK_DEADLOCK FALSE
