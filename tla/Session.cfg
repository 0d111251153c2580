SPECIFICATION Spec
CONSTANTS
  Targets = {t1}
  NoTarget = NoTarget
  MaxRuns = 3
  WatchRuns = 2
  MaxTests = 1
  Lossy = TRUE
  WatchModes = {TRUE, FALSE}
INVARIANTS
  OneScan
  RowsOfRun
  HeldWhileIsolated
  StopNeverWedges
