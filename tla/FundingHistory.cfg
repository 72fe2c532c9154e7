CONSTANTS
  AStart = 8
  AEnd = 32
  BStart = 44
  BEnd = 52
  CStart = 64
  Clock = {72, 90, 104}
  Page = 3
  FlagRange = 48
  Reach = 44
  OddTimes = {60, 66}
  MaxHoles = 2
  MaxFaults = 1
SPECIFICATION FundingSpec
INVARIANTS
  FundingTypeOK
  SyncedIsComplete
PROPERTY BackfillEnds
CHECK_DEADLOCK FALSE
