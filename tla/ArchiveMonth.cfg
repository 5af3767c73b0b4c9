SPECIFICATION Spec
CONSTANTS
  i1 = i1
  i2 = i2
  i3 = i3
  Items = {i1, i2}
  Price <- MCPrice
  MaxInflow = 1
  MaxCrawls = 2
  HoursPerDay = 2
  WeekLength = 2
  MonthStarts = {0, 3, 6}
  HourlyRetention = 1
  SnapshotAge = 2
  DailyRetention = 3
  WeeklyRetention = 4
  MaxDay = 6
  MaxEvents = 0
CHECK_DEADLOCK FALSE
INVARIANT MonthlyHasItsWeeks
