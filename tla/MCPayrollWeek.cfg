SPECIFICATION Spec
CONSTANTS
  Settings <- WeekOnly
  MonthStarts <- Months
  YearStarts <- Years
  DailyCap = 600
  WeeklyCap = 600
  AnnualCap = 600
  MaxInt = 1000000000
  MaxPeriod = 366
  MaxLeaves = 2
INVARIANT WeekBreachIsFlagged
CHECK_DEADLOCK FALSE
