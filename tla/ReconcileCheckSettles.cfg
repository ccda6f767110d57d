SPECIFICATION FairSpec
CONSTANTS
  Webhook = {w}
  Cron = cron
  Sha = {1}
  Unpatrolled = {}
  Title = {t1}
  FirstTitles = {t1}
  None = none
  Neutral = neutral
  Deeds = {}
  MaxDeeds = 0
  Faults = {"call"}
  MaxFaults = 1
  MaxRuns = 4
  Sweepers = {}
PROPERTY CheckSettles
CHECK_DEADLOCK FALSE
