SPECIFICATION FairSpec
CONSTANTS
  Webhook = {w}
  Cron = cron
  Sha = {1}
  Unpatrolled = {}
  Title = {t1, t2}
  FirstTitles = {t1}
  None = none
  Neutral = neutral
  Deeds = {"retitle"}
  MaxDeeds = 1
  Faults = {"call", "row", "check", "repeat"}
  MaxFaults = 1
  MaxRuns = 4
  Sweepers = {1}
PROPERTIES RunsSettle TitlesSettle AskedAfterTheStops
CHECK_DEADLOCK FALSE
