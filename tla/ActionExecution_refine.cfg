CONSTANTS
  AttemptLimit = 1
  Actions = {a1, a2}
  Resource <- OneResource
  Handled = {a1}
  CallBack = {a1}
  Executors = {e1}
  Recoverers = {v1}
  CallModes = {"execute"}
  Conclusions = {"succeeded", "failed", "leave_unknown", "retry_local_sync"}
  Misreports = FALSE
  None = None
  MaxClaims = 2
  MaxFence = 2
  MaxFaults = 1
SPECIFICATION Spec
INVARIANT ResourceExclusive
PROPERTY ImplementsOutcome
