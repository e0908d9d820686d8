SPECIFICATION Spec
CONSTANTS
  Settings <- MCSettings
  MonthStarts <- Months
  YearStarts <- Years
  DailyCap = 600
  WeeklyCap = 600
  AnnualCap = 600
  MaxInt = 1000000000
  MaxPeriod = 366
  MaxLeaves = 2
INVARIANTS
  WorkIsPresence
  OpenDayIsFlagged
  BreachIsSeen
  PaidPerMinute
  DayIsAccountedFor
  FortnightsAddUp
CHECK_DEADLOCK FALSE
