CONSTANTS
  Messages = {m1, m2}
  Workers = {w1, w2}
  Recoverers = {v1}
  Dispatch = {"direct"}
  Kinds = {"reply", "silent"}
  Segments = 1
  MaxArrivals = 1
  MaxFaults = 0
  None = None
CHECK_DEADLOCK FALSE
SPECIFICATION Spec
INVARIANT NoInputDropped
