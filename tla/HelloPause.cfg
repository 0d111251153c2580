SPECIFICATION TestersSpec
CONSTANTS
  Flights <- MCBareFlights
  Ips = {i1, i2}
  Writes = 2
  NoIp = NoIp
  Sweeps <- MCSweeps
  Watch = TRUE
  Concurrency = 1
  Repetitions = 1
  Rates = {1}
  Directions = {"upload", "both"}
  MaxSpeedTests = 2
CHECK_DEADLOCK FALSE
INVARIANT
  HelloPauseKept
