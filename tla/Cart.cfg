\* Three options, three requests and two keys, in four scenarios.
SPECIFICATION Spec
CONSTANTS
  g1 = g1
  g2 = g2
  t1 = t1
  k1 = k1
  k2 = k2
  Requests = {r1, r2, r3}
  Options = {g1, g2, t1}
  GiftCards = {g1, g2}
  Stock <- StockOf
  Unlimited <- Many
  Prices = {1, 2}
  MaxLine = 2
  Keys = {k1, k2}
  NoKey = NoKey
  NoOption = NoOption
  MaxRow = 3
  MaxOrders = 2
  Scenarios <- AllScenarios
SYMMETRY RequestSymmetry
INVARIANTS CartInvariant KeyBuysOnce
PROPERTIES UnboughtStays
CHECK_DEADLOCK FALSE
