CONSTANTS
  s1 = s1
  s2 = s2
  m1 = m1
  c1 = c1
  c2 = c2
  Slots <- TwoSlots
  Monitors <- OneMonitor
  Codes <- OneCode
  Faults <- LeaseOnly
  NoResponse = NoResponse
  NoDoc = NoDoc
  NoMonitor = NoMonitor
  Free = Free
  FailureThreshold = 3
  MaxQueued = 1
  MaxFailures = 4
  MaxFaults = 0
  MaxChanges = 1
SPECIFICATION Spec
INVARIANT OneCheckAtATime
