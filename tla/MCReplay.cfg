CONSTANTS
  Requests <- MCRequests
  RateScale = 10
SPECIFICATION ReplaySpec
CHECK_DEADLOCK FALSE
INVARIANTS
  NoLookAhead
  NoBetterThanMarket
  DrawdownIsWorstFall
  SplitsDoNotLeak
