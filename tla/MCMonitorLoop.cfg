CONSTANTS
  Plans <- MCPlans
  MaxTrades = 2
  MaxReboots = 1
SPECIFICATION MonitorSpec
INVARIANT MonitorTypeOK
PROPERTIES
  ExitFitsTrade
  ExitsAreTaken
