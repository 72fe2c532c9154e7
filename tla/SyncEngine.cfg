CONSTANTS
  Capacity = 1
  TickLimit = 1
  MaxPending = 1
SPECIFICATION LiveSpec
INVARIANTS
  SyncedIsCurrent
  ShutdownIsFinal
PROPERTIES
  StopIsReported
  ProcessEnds
CHECK_DEADLOCK FALSE
