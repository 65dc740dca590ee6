\* One client, with one request at a time or up to three at once.
SPECIFICATION BlockSpec
CONSTANTS
  Clients = {c1}
  Window = 2
  MaxViolations = 3
  BlockTime = 4
  InFlight = {1, 3}
  MaxTime = 12
CONSTRAINT Enough
INVARIANTS AbuseInvariant
PROPERTIES OldOffencesAreForgotten BlockLasts
CHECK_DEADLOCK FALSE
