SPECIFICATION Spec
CONSTANTS
  N = 3
  Invalid = {3}
  ProbeCount = 2
  MinProbes = 1
  Concurrency = 2
  MinWorkers = 1
  MaxWorkers = 2
  Warmup = TRUE
  AdaptiveProbing = TRUE
  AdaptiveWorkers = TRUE
  EarlyStop = TRUE
  EarlyMin = 1
  EarlyStreak = 2
  EarlyFloor = 50
  EarlyPrune = TRUE
  Top = 0
  WarmupSamples = {"ok", "loss", "setup", "panic"}
  ProbeSamples = {"ok", "loss", "error", "setup", "panic"}
  Overrides = {0, 1, 2}
  CanPause = TRUE
  CanResume = TRUE
  CanCancel = TRUE
INVARIANTS
  BooksBalance
  PoolBound
