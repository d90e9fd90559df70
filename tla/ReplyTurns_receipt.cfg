CONSTANTS
  Messages = {m1}
  Workers = {w1}
  Recoverers = {v1}
  Dispatch = {"merged"}
  Kinds = {"receipt"}
  Segments = 1
  MaxArrivals = 1
  MaxFaults = 1
  None = None
CHECK_DEADLOCK FALSE
SPECIFICATION Spec
INVARIANT HonestResult
