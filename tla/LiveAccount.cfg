CONSTANTS
  Trades = {t1, t2}
  Margin = 4
  Fee = 1
  Start = 6
  Deposits = {2}
  Results <- MCResults
  MaxOps = 2
  MaxMoves = 2
SPECIFICATION AccountSpec
INVARIANTS
  AccountTypeOK
  BooksAgree
  ProfitCountedOnce
  CrossProfitTold
CHECK_DEADLOCK FALSE
SYMMETRY MCSymmetry
