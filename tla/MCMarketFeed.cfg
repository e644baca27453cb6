CONSTANTS
  Loop = Loop
  Endpoints = {e}
  StaleAfter = 1
  Ahead = 1
  MaxCount = 1
  MaxRestarts = 1
SPECIFICATION FairSpec
INVARIANTS
  FeedTypeOK
  OutageIsSafe
  FailureIsSafe
PROPERTY FeedRecovers
