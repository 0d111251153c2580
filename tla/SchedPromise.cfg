SPECIFICATION FairSpec
CONSTANTS
  N = 2
  Invalid = {}
  ProbeCount = 2
  MinProbes = 1
  Concurrency = 1
  MinWorkers = 1
  MaxWorkers = 2
  Warmup = TRUE
  AdaptiveProbing = FALSE
  AdaptiveWorkers = FALSE
  EarlyStop = TRUE
  EarlyMin = 1
  EarlyStreak = 2
  EarlyFloor = 0
  EarlyPrune = TRUE
  Top = 1
  WarmupSamples = {"ok", "loss", "setup", "panic"}
  ProbeSamples = {"ok", "loss", "setup", "panic"}
  Overrides = {0, 2}
  CanPause = TRUE
  CanResume = TRUE
  CanCancel = TRUE
INVARIANTS
  NoStrandedProbe
PROPERTIES
  PriorityRespected
  PromiseKept
  CancelEnds
  PauseDrains
  Terminates
