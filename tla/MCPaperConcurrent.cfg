CONSTANTS
  Threads = {t1, t2}
  Reviewers = {t1}
  Traders = {t1, t2}
  Closers = {t1, t2}
  Setups = {s1, s2}
  NoSetup = NoSetup
  Verdicts <- MCVerdicts
  NumDays = 2
  Pnls <- MCLosses
  Faults = TRUE
  MaxResults = 0
  MaxTrades = 1
  LossLimit = 2
  MaxStreak = 1
SYMMETRY MCSetupPerms
SPECIFICATION PaperSpec
INVARIANTS
  PaperTypeOK
  NoEntryWhileBarred
  SessionBehindLedger
PROPERTIES
  BookSpec
  EntryOnlyFromApproved
