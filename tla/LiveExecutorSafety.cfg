CONSTANTS
  Clients = {c1}
  Capacity = 2
  CleanUp = TRUE
  MaxFaults = 1
  None = None
SPECIFICATION Spec
INVARIANTS
  ReadyGuardHolds
  RefreshExcludesActions
  ReadyIsBacked
  SyncedIsAwaited
  NoReadyAfterShutdown
CHECK_DEADLOCK FALSE
