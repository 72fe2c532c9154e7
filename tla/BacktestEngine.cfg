CONSTANTS
  Start = 4
  End = 8
  Day = 2
  NumOperators = 2
  Evaluators <- MCEvaluators
  Owner <- MCOwner
  Interval <- MCInterval
  Raw <- MCRaw
  Resolution <- MCResolution
  Period <- MCPeriod
  BufferSize = 5
  Settlements <- MCSettlements
  Histories <- MCHistories
  Unstable <- MCUnstable
SPECIFICATION Spec
INVARIANTS
  StopIsOnItsWay
  WindowsAgree
PROPERTIES
  RefinesReplay
  WaiterIsTold
CHECK_DEADLOCK FALSE
