SPECIFICATION Spec
CONSTANTS
  GraniteChief = granite
  Agent = {granite, ridge}
  Verdicts <- MCVerdicts
  Title = {t1, t2}
  STALL = 1
  AGENT_TIMEOUT = 2
  JOB_START = 2
  MaxRetries = 1
  MaxReposts = 1
  Reruns = TRUE
  Uploaders = {granite}
  CheckIds = {1}
INVARIANTS WaitingIsWaitingForSomeone ClearMeansClear ReportCurrent WritesFollow AlarmMakesProgress JobsAreTheAgentsOwn
PROPERTIES ReportsStand AbandonedJobIsCancelled
SYMMETRY Titles
CHECK_DEADLOCK FALSE
