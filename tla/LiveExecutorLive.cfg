CONSTANTS
  Clients = {c1}
  Capacity = 1
  CleanUp = FALSE
  MaxFaults = 1
  None = None
SPECIFICATION LiveSpec
PROPERTIES
  EventuallyReady
  ShutdownCompletes
CHECK_DEADLOCK FALSE
