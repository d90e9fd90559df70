CONSTANTS
  Messages = {m1}
  Workers = {w1, w2}
  Recoverers = {v1}
  Dispatch = {"merged", "direct"}
  Kinds = {"reply", "receipt"}
  Segments = 1
  MaxArrivals = 2
  MaxFaults = 1
  None = None
CHECK_DEADLOCK FALSE
SPECIFICATION FairSpec
INVARIANTS GeneratedOnce LiveNotPreempted
PROPERTY TurnResolved ResultFrozen
