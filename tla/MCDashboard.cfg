SPECIFICATION FairSpec
CONSTANTS
  MaxCalls = 2
  MonitorLimit = 1
  MaxMonitors = 1
  MaxEdits = 3
  MaxFaults = 1
INVARIANTS TypeOK ListFaithful PanelFaithful
PROPERTIES DraftsCloseForAReason DashboardSettles
CHECK_DEADLOCK FALSE
