SPECIFICATION FairSpec
CONSTANTS
  c1 = c1
  c2 = c2
  s1 = s1
  s2 = s2
  Clients = {c1, c2}
  Slots = {s1, s2}
  MaxOutages = 2
INVARIANTS
  TypeOK
  OrderlyExit
PROPERTIES
  ShutdownEnds
  ReadinessSettles
