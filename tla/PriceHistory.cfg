CONSTANTS
  MaxTime = 6
  StableAge = 2
  MinPage = 3
  Batch = 4
  Buffer = 1
  FlagRange = 5
  Reach = 1
  Lookback = 2
  MaxHoles = 2
  MaxFaults = 1
SPECIFICATION FairSpec
INVARIANTS
  NoSilentGap
  CompleteWhenDone
PROPERTY BackfillEnds
CHECK_DEADLOCK FALSE
