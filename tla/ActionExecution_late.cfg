CONSTANTS
  AttemptLimit = 1
  Actions = {a1}
  Resource <- OneResource
  Handled = {a1}
  CallBack = {a1}
  Executors = {e1}
  Recoverers = {v1}
  CallModes = {"execute"}
  Conclusions = {}
  Misreports = FALSE
  None = None
  MaxClaims = 1
  MaxFence = 2
  MaxFaults = 1
SPECIFICATION Spec
INVARIANT LateEvidenceAccepted
