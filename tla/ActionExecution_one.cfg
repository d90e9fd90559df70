CONSTANTS
  AttemptLimit = 1
  Actions = {a1}
  Resource <- OneResource
  Handled = {a1}
  CallBack = {a1}
  Executors = {e1, e2}
  Recoverers = {v1, v2}
  CallModes = {"execute", "off"}
  Conclusions = {"succeeded", "failed", "leave_unknown", "retry_local_sync"}
  Misreports = FALSE
  None = None
  MaxClaims = 2
  MaxFence = 3
  MaxFaults = 2
SPECIFICATION Spec
INVARIANTS TypeOK AtMostOneEffect FailureIsDefinitive SuccessLanded SyncedMeansProjected Discoverable
SYMMETRY Symmetry
