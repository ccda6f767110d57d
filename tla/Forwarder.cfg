SPECIFICATION FairSpec
CONSTANTS
  MaxEvents = 2
  MaxTries = 2
  MaxSignals = 2
INVARIANTS GreenMeansPassed RedHasACause GreenMeansTold VerdictInTime NoClaudeLeft
PROPERTIES JobEnds
CHECK_DEADLOCK FALSE
