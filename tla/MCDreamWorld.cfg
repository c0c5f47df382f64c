SPECIFICATION FairSpec
CONSTANTS
  Places = 2
  Linked = {2}
  MaxEvents = 4
INVARIANTS
  TypeOK
  CanvasHonest
  DialogHoldsItsOwn
PROPERTY WorldSettles
