SPECIFICATION FairSpec
CONSTANTS
  Webhook = {w}
  Cron = cron
  Sha = {1, 2}
  Unpatrolled = {2}
  Title = {t1}
  FirstTitles = {t1}
  None = none
  Neutral = neutral
  Deeds = {"push", "draft", "retarget", "close", "reopen", "merge"}
  MaxDeeds = 2
  Faults = {}
  MaxFaults = 0
  MaxRuns = 5
  Sweepers = {}
INVARIANTS LandsOnlyMerged
PROPERTIES RunsSettle AskedAfterTheStops
CHECK_DEADLOCK FALSE
