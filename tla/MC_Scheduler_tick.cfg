SPECIFICATION PartSpec
CONSTANTS
  Broken = Broken
  None = None
  Keys = {0, 1}
  Wakes = {0, 1}
  MaxTime = 3
  Occ <- Occurrences
  Grace = 1
  WakeAt <- At
  ExpireAfter <- Expire
  Configs <- AnyConfig
  MaxLost = 1
  Horizon = 72
  Minute <- SmallMinute
  Hour <- SmallHour
  Dom <- SmallDom
  Month <- SmallMonth
  Dow <- SmallDow
  HourEnd <- SmallHourEnd
  MonthEnd <- SmallMonthEnd
  MaxLookahead = 36
  Exprs <- SmallExprs
INVARIANTS CronFiresOnce FindsNext
PROPERTIES FiresAfterApplied WakeAnswered
CHECK_DEADLOCK FALSE
