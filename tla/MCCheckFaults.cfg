CONSTANTS
  s1 = s1
  s2 = s2
  m1 = m1
  c1 = c1
  c2 = c2
  Slots <- TwoSlots
  Monitors <- OneMonitor
  Codes <- TwoCodes
  Faults <- AllButLease
  NoResponse = NoResponse
  NoDoc = NoDoc
  NoMonitor = NoMonitor
  Free = Free
  FailureThreshold = 3
  MaxQueued = 1
  MaxFailures = 4
  MaxFaults = 2
  MaxChanges = 2
SPECIFICATION Spec
SYMMETRY SlotSymmetry
INVARIANTS
  TypeOK
  OneCheckAtATime
  VerdictCoherent
  NoRepeatedAlert
  UntoldChangesAreFaults
  AlertsPairUp
PROPERTIES
  EditsSurviveChecks
  ImplementsIncidents
