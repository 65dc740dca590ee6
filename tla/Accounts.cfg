\* Two accounts, the seeded super administrator and two requests, in four scenarios.
SPECIFICATION Spec
CONSTANTS
  p1 = p1
  p2 = p2
  e1 = e1
  e2 = e2
  Rows = {r1, r2}
  Supers = {s1}
  Addresses = {e1, e2}
  Passwords = {p1, p2}
  Handlers = {h1, h2}
  MaxCodes = 3
  Scenarios <- AllScenarios
  NoUser = NoUser
  NoAddress = NoAddress
  NoPassword = NoPassword
SYMMETRY Interchangeable
INVARIANTS AccountInvariant UndeliveredCodeIsDead
PROPERTIES VerifiedByNewestCode ResetByNewestCode DeletedPasswordStays AdminsAreManagedBySupers
CHECK_DEADLOCK FALSE
