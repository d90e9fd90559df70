CONSTANTS
  Handlers = {h1, h2}
  Operators = {}
  Requests = {1}
  MaxConcurrency = 2
  DefaultConcurrency = 2
  Arrivals = 2
  Buckets = 2
  Checks = {1, 2, 3}
  MaxReplays = 1
  MaxAcks = 2
  MaxAttempts = 2
  MaxStalls = 1
  MaxFaults = 1
  Free = Free
  Orphan = Orphan
  Scan = Scan
CHECK_DEADLOCK FALSE
SPECIFICATION FairSpec
INVARIANTS MergeTypeOK NeverForgotten NoneTrimmedUnread AnsweredOnce OneAtATime
PROPERTY EveryMessageHandled
