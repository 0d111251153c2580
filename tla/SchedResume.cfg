SPECIFICATION Spec
CONSTANTS
  N = 2
  Invalid = {}
  ProbeCount = 2
  MinProbes = 1
  Concurrency = 1
  MinWorkers = 1
  MaxWorkers = 2
  Warmup = FALSE
  AdaptiveProbing = FALSE
  AdaptiveWorkers = FALSE
  EarlyStop = FALSE
  EarlyMin = 1
  EarlyStreak = 2
  EarlyFloor = 0
  EarlyPrune = FALSE
  Top = 1
  WarmupSamples = {"ok", "loss"}
  ProbeSamples = {"ok", "loss"}
  Overrides = {0}
  CanPause = TRUE
  CanResume = TRUE
  CanCancel = FALSE
INVARIANTS
  AllReported
