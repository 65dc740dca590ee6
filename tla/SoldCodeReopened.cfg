\* An edit that frees a reserved code is written after the code was sold.
SPECIFICATION Spec
CONSTANTS
  c1 = c1
  c2 = c2
  d1 = d1
  d2 = d2
  o1 = o1
  o2 = o2
  s1 = s1
  s2 = s2
  Codes = {c1, c2}
  Secrets = {s1, s2}
  LegacySecret <- SecretOf
  Denominations = {d1, d2}
  Orders = {o1, o2}
  Wanted <- AllWantFirst
  Admins = {a1, a2}
  Scenarios <- OnlySlowRelease
  NoOrder = NoOrder
  NoSecret = NoSecret
  NoCode = NoCode
  NoDenomination = NoDenomination
SYMMETRY AdminSymmetry
PROPERTIES SoldIsImmutable
CHECK_DEADLOCK FALSE
