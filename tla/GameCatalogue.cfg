\* Two games, a package, three fields, a customer and two administrators, in four scenarios.
SPECIFICATION Spec
CONSTANTS
  g1 = g1
  g2 = g2
  p1 = p1
  f1 = f1
  f2 = f2
  f3 = f3
  Games = {g1, g2}
  Packages = {p1}
  Fields = {f1, f2, f3}
  GameOf <- OwnerOf
  Strict = {f2}
  TokenNamed = {f3}
  Offers <- TwoOffers
  Customers = {c1}
  Admins = {a1, a2}
  NoGame = NoGame
  MaxOrders = 1
  Scenarios <- AllScenarios
SYMMETRY AdminSymmetry
INVARIANTS OrdersAreSound
PROPERTIES ArchivedIsGone FilledFormIsAccepted
CHECK_DEADLOCK FALSE
