CONSTANTS
  Threads = {u, m}
  Reviewers = {u, m}
  Traders = {u}
  Closers = {u, m}
  Setups = {s1, s2, s3}
  NoSetup = NoSetup
  Verdicts <- MCApproved
  NumDays = 1
  Pnls <- MCPnls
  Faults = FALSE
  MaxResults = 0
  MaxTrades = 2
  LossLimit = 2
  MaxStreak = 2
SPECIFICATION PaperSpec
PROPERTIES
  StatusIfApart
  LedgerIfApart
  LimitIfApart
  LockoutIfApart
