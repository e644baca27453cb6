CONSTANTS
  Threads = {u, m}
  Reviewers = {u}
  Traders = {u}
  Closers = {u, m}
  Setups = {s1, s2}
  NoSetup = NoSetup
  Verdicts <- MCVerdicts
  NumDays = 1
  Pnls <- MCLosses
  Faults = FALSE
  MaxResults = 0
  MaxTrades = 2
  LossLimit = 10
  MaxStreak = 10
SYMMETRY MCSetupPerms
SPECIFICATION PaperSpec
INVARIANT SessionMatchesLedger
