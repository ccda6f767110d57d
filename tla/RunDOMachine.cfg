SPECIFICATION Spec
CONSTANTS
  GraniteChief = granite
  Agent = {granite}
  Verdicts <- MCVerdicts
  Title = {t1, t2}
  STALL = 1
  AGENT_TIMEOUT = 1
  JOB_START = 1
  Task = {x, y}
  None = none
  CheckIds = {1, 2, 3}
  Outcomes = {"ok"}
  Calls = {"brief", "events", "verdict", "failure", "stop", "land", "retitle", "bypass", "retry", "repost"}
  Resets = FALSE
  LateCalls = FALSE
  MaxRetries = 1
  MaxReposts = 1
PROPERTY ImplementsMachine
SYMMETRY Symmetric
CHECK_DEADLOCK FALSE
