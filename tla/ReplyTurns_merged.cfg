CONSTANTS
  Messages = {m1, m2}
  Workers = {w1, w2}
  Recoverers = {v1}
  Dispatch = {"merged"}
  Kinds = {"reply", "silent"}
  Segments = 2
  MaxArrivals = 1
  MaxFaults = 1
  None = None
CHECK_DEADLOCK FALSE
SPECIFICATION Spec
INVARIANTS TypeOK OneTurnAtATime HonestResult EffectsBeforeAck
PROPERTY ImplementsOutcome NothingSwallowed
SYMMETRY Symmetry
