CONSTANTS
  Handlers = {h1, h2, h3}
  Operators = {w1, w2}
  Requests = {1, 2, 3, 4}
  MaxConcurrency = 3
  DefaultConcurrency = 2
  Orders = {1, 2}
  Times = {1, 2, 3}
  MaxListed = 1
  Events = {1, 2, 3}
  Syncers = {w1, w2}
  Readers = {r1}
  MaxCalls = 3
  Runners = {w1, w2}
  Commander = Commander
  Turns = {1, 2}
  Collecting = {1}
  Hours = {2, 3}
  MaxTouches = 1
  MaxTries = 2
  MaxStalls = 2
  MaxSlips = 1
CHECK_DEADLOCK FALSE
SPECIFICATION Spec
INVARIANTS TypeOK SlotsAccounted NoIdleSlot CancelledStaysGone PointersAgree CacheAgrees TouchOnce FrequencyKept ReminderKept AcceptedRecorded
PROPERTY FairGrant NeverRevived
SYMMETRY Symmetry
