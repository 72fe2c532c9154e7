CONSTANTS
  Evaluators <- MCEvaluators
  WithLookback <- MCWithLookback
  Interval <- MCInterval
  Second = 2
  Far = 99
  Capacity = 1
  MaxTime = 9
SPECIFICATION FairSpec
INVARIANTS
  NoneOverdue
PROPERTIES
  CallsApart
  SilenceIsResolved
CHECK_DEADLOCK FALSE
