SPECIFICATION FairSpec
CONSTANTS
  Targets = {t1}
  NoTarget = NoTarget
  MaxRuns = 2
  WatchRuns = 1
  MaxTests = 1
  Lossy = TRUE
  WatchModes = {FALSE}
PROPERTIES
  StopResolves
  StopHonoured
