SPECIFICATION Spec
CONSTANTS
  GraniteChief = granite
  Agent = {granite}
  Verdicts <- MCVerdicts
  Title = {t1}
  STALL = 1
  AGENT_TIMEOUT = 1
  JOB_START = 1
  Task = {x, y}
  None = none
  CheckIds = {1, 2, 3}
  Outcomes = {"ok"}
  Calls = {"verdict", "failure", "retry"}
  Resets = FALSE
  LateCalls = TRUE
  MaxRetries = 1
  MaxReposts = 1
PROPERTY LateReportsFail
SYMMETRY Symmetric
CHECK_DEADLOCK FALSE
