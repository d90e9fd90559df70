CONSTANTS
  Runners = {w1, w2}
  Commander = Commander
  Turns = {1, 2}
  Collecting = {1}
  Hours = {2, 3}
  MaxTouches = 1
  MaxTries = 2
  MaxStalls = 2
  MaxSlips = 0
CHECK_DEADLOCK FALSE
SPECIFICATION FollowSpec
INVARIANT MovedIsScheduled
