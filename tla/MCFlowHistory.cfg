CONSTANTS
  Threads = {t1, t2}
  Summaries <- MCSummaries
  Limit = 3
  MinSamples = 3
  Swing = 35
  NumDays = 2
  MaxCaptures = 5
SYMMETRY MCPerms
SPECIFICATION FlowSpec
INVARIANTS
  ReversalIsSincePrevious
  FlagsHaveACause
