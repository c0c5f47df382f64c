CONSTANTS
  s1 = s1
  s2 = s2
  m1 = m1
  c1 = c1
  c2 = c2
  Slots <- TwoSlots
  Monitors <- OneMonitor
  Codes <- OneCode
  Faults <- AllButLease
  NoResponse = NoResponse
  NoDoc = NoDoc
  NoMonitor = NoMonitor
  Free = Free
  FailureThreshold = 3
  MaxQueued = 1
  MaxFailures = 4
  MaxFaults = 1
  MaxChanges = 2
SPECIFICATION FairSpec
PROPERTIES
  VerdictFollowsEndpoint
  LocksAreFreed
