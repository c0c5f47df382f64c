CONSTANTS
  r1 = r1
  r2 = r2
  w1 = w1
  w2 = w2
  m1 = m1
  m2 = m2
  m3 = m3
  i1 = i1
  i2 = i2
  Unset = Unset
  Monitors <- ThreeMonitors
  Intervals <- TwoIntervals
  Reqs <- TwoReqs
  Workers <- NoOne
  Limit = 1
  Faults <- AnyFault
  MaxFaults = 1
SPECIFICATION Spec
SYMMETRY Symmetry
INVARIANTS
  TypeOK
  EveryMonitorScheduled
  FailedRequestLeavesNoTrace
  UncheckedMonitorsAreFaults
  QuotaOvershootBounded
