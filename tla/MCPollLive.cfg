CONSTANTS
  p1 = p1
  p2 = p2
  u1 = u1
  u2 = u2
  c1 = c1
  t1 = t1
  t2 = t2
  None = None
  Free = Free
  Bare = Bare
  Other = Other
  Procs <- TwoProcs
  Users <- OneUser
  Chats <- OneChat
  Tokens <- OneToken
  BatchLimit = 1
  Faults <- AnyButLease
  MaxFaults = 2
  MaxUpdates = 2
SPECIFICATION FairSpec
INVARIANT OneLeader
PROPERTY EveryUpdateHandled
