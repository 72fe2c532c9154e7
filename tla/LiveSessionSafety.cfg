CONSTANTS
  Trades = {t1, t2}
  ChunkSize = 1
  MaxRunning = 2
  Recover = TRUE
  StartClean = FALSE
  StopClean = TRUE
  MaxFunding = 2
  MaxRefreshFaults = 1
SPECIFICATION SessionSpec
SYMMETRY Symmetry
INVARIANTS
  RowUntilClosed
  EveryTradeAccounted
  FeesCountedOnce
CHECK_DEADLOCK FALSE
