CONSTANTS
  Threads = {t1, t2}
  Positions = {x1, x2}
  NoPosition = NoPosition
  NumDays = 2
  Pnls <- MCPnls
  Faults = TRUE
  MaxResults = 1
SPECIFICATION PositionsSpec
INVARIANTS
  PositionsTypeOK
  CountersMatchResults
  PositionsBooked
  ShownIsCounted
PROPERTIES
  LedgerSpec
  StreakIfApart
