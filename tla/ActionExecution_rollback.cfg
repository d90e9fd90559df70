CONSTANTS
  AttemptLimit = 1
  Actions = {a1, a2}
  Resource <- OneResource
  Handled = {a1}
  CallBack = {}
  Executors = {e1, e2}
  Recoverers = {v1}
  CallModes = {"observe", "execute"}
  Conclusions = {}
  Misreports = FALSE
  None = None
  MaxClaims = 2
  MaxFence = 2
  MaxFaults = 0
SPECIFICATION Spec
PROPERTY HonorsExecuteObligations
