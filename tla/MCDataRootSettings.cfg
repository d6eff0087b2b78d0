SPECIFICATION Spec
CONSTANTS
  p1 = p1
  p2 = p2
  k1 = k1
  k2 = k2
  Job = {p1, p2}
  Key = {k1, k2}
  Elsewhere <- MCElsewhere
  Package <- MCPackage
  PerUser <- MCPerUser
  MaxRollbacks = 1
  MaxPrints = 1
  MaxUnsettled = 1
  MaxSaves = 1
  Create = Create
  Remote = Remote
  Torn = Torn
  None = None
PROPERTIES
  FingerprintKept
