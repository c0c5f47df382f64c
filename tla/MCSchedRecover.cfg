CONSTANTS
  r1 = r1
  r2 = r2
  w1 = w1
  w2 = w2
  m1 = m1
  m2 = m2
  m3 = m3
  i1 = i1
  i2 = i2
  Unset = Unset
  Monitors <- TwoMonitors
  Intervals <- TwoIntervals
  Reqs <- NoOne
  Workers <- TwoWorkers
  Limit = 2
  Faults <- AnyFault
  MaxFaults = 1
SPECIFICATION RecoverySpec
PROPERTY SchedulesRecover
