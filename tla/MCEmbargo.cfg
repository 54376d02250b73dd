CONSTANTS
  Tables <- MCTables
  MonthDays = 4
  MonthsInYear = 2
  Embargo = 2
  OuterYears = {4}
  MinSettled = 1
  MaxCrashes = 2
SPECIFICATION WalkSpec
INVARIANT EmbargoKept
CHECK_DEADLOCK FALSE
