CONSTANTS
  AttemptLimit = 1
  Actions = {a1}
  Resource <- OneResource
  Handled = {a1}
  CallBack = {a1}
  Executors = {e1, e2}
  Recoverers = {v1}
  CallModes = {"observe", "execute"}
  Conclusions = {"succeeded", "failed", "leave_unknown", "retry_local_sync"}
  Misreports = TRUE
  None = None
  MaxClaims = 2
  MaxFence = 6
  MaxFaults = 2
SPECIFICATION FairSpec
INVARIANTS InFlightBlocks ExecuteNeverLoose
PROPERTY TerminalFrozen NoActionStranded
