SPECIFICATION FairSpec
CONSTANTS
  p1 = p1
  p2 = p2
  k1 = k1
  k2 = k2
  None = None
  Configs <- SomeConfigs
  Packages = {p1, p2}
  Keys = {k1, k2}
  MaxUpdates = 2
  MaxRaises = 2
INVARIANTS
  ApplyConverges
PROPERTY DesiredReached
