SPECIFICATION Spec
CONSTANTS
  Capacity = 2
  MaxFaults = 2
INVARIANTS
  ShutdownReport
PROPERTIES
  DeathIsReported
  ShutdownEnds
CHECK_DEADLOCK FALSE
