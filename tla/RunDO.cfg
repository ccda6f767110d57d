SPECIFICATION Spec
CONSTANTS
  GraniteChief = granite
  Agent = {granite}
  Verdicts <- MCVerdict
  Title = {t1}
  STALL = 1
  AGENT_TIMEOUT = 1
  JOB_START = 1
  Task = {x, y}
  None = none
  CheckIds = {1, 2, 3}
  Outcomes = {"ok", "refused", "lost"}
  Calls = {"verdict", "repost"}
  Resets = TRUE
  LateCalls = FALSE
  MaxRetries = 1
  MaxReposts = 2
INVARIANTS TypeOK RowDelivered CheckDelivered RowRetried
SYMMETRY Symmetric
CHECK_DEADLOCK FALSE
