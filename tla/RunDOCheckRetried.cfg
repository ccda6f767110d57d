SPECIFICATION Spec
CONSTANTS
  GraniteChief = granite
  Agent = {granite}
  Verdicts <- MCVerdicts
  Title = {t1}
  STALL = 1
  AGENT_TIMEOUT = 1
  JOB_START = 1
  Task = {x, y}
  None = none
  CheckIds = {1, 2, 3}
  Outcomes = {"ok", "lost"}
  Calls = {"brief", "stop"}
  Resets = FALSE
  LateCalls = FALSE
  MaxRetries = 1
  MaxReposts = 1
INVARIANT CheckRetried
SYMMETRY Symmetric
CHECK_DEADLOCK FALSE
