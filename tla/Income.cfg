SPECIFICATION IncomeSpec
CONSTANTS
  Day = 3
  Cap = 8
  Incomes <- IncomeSet
  Advances <- AdvanceSet
  MaxBusinesses = 3
  MaxTime = 12
INVARIANTS DaysPaidOnce
PROPERTIES PreviewIsPaid
CHECK_DEADLOCK FALSE
