CONSTANTS
  m1 = m1
  r1 = r1
  r2 = r2
  Monitors <- OneMonitor
  Reqs <- TwoReqs
  Limit = 1
  MaxLogs = 2
  MaxFaults = 1
SPECIFICATION FairSpec
INVARIANTS
  TypeOK
  PagesAreExact
PROPERTIES
  RefreshRepairs
  DeletedHistoryLeaves
