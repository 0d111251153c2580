SPECIFICATION Spec
CONSTANTS
  StartWorkers = 1
  MinWorkers = 1
  MaxWorkers = 4
  Window = 3
  WindowCapacity = 2
  MinSamples = 2
  BaselineSamples = 1
  Cooldown = 1
  Dwell = 2
  RecoveryStreak = 2
  HysteresisStreak = 2
  UpStep = 1
  DownStep = 2
  TimeoutRate = 25
  Degradation = 150
  DegradedSamples = 1
  HealthyLatency = 120
  Gain = 2
  WorkPerWorker = 1
  StableRate = 90
  Remaining = {9}
  Requests = {2}
  Floors = {1, 3}
  MaxTime = 3
  Observations <- MCMixed
PROPERTIES
  ResizesApart
  RecoveryEarned
  NoBlindRamp
