CONSTANTS
  Plans <- MCPlans
  MaxTrades = 2
  MaxReboots = 1
SPECIFICATION MonitorSpec
PROPERTY EndOfDayExit
