SPECIFICATION Spec
CONSTANTS
  BuiltIn <- MCBuiltIn
  Own <- MCOwn
  Typed <- MCTyped
  Drivers <- MCDrivers
  Ports = {443}
  Interfaces = 1
  MaxWorkers = 2
  MaxChanges = 2
INVARIANTS
  SettingsSound
PROPERTIES
  RemovalConfirmed
