SPECIFICATION FairSpec
CONSTANTS
  GraniteChief = granite
  Agent = {granite, ridge}
  Verdicts <- MCVerdicts
  Title = {t1}
  STALL = 1
  AGENT_TIMEOUT = 2
  JOB_START = 2
  MaxRetries = 1
  MaxReposts = 1
  CheckIds = {}
  Reruns = FALSE
  Uploaders = {}
PROPERTY ReviewEnds
CHECK_DEADLOCK FALSE
