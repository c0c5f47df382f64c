CONSTANTS
  p1 = p1
  p2 = p2
  u1 = u1
  u2 = u2
  c1 = c1
  t1 = t1
  t2 = t2
  None = None
  Free = Free
  Bare = Bare
  Other = Other
  Procs <- TwoProcs
  Users <- TwoUsers
  Chats <- OneChat
  Tokens <- TwoTokens
  BatchLimit = 2
  Faults <- LeaseCrashMongo
  MaxFaults = 1
  MaxUpdates = 2
SPECIFICATION Spec
SYMMETRY Symmetry
INVARIANTS
  TypeOK
  RetriesStayConnected
  NoUpdateLost
  TokenUsedOnce
  DisconnectSticks
