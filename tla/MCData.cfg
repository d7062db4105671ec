SPECIFICATION DataSpec
CONSTANTS
  Texts = {"x"}
  Keep = Keep
  Fallible = TRUE
  MaxCalls = 4
  MaxTasks = 2
  MaxClock = 1
  MaxTime = 1
  Hours <- MCHours
  Own = Own
  Other = Other
  Absent = Absent
  Faults = TRUE
  MaxOps = 4
  Cost <- MCCost
  Capacity = 3
  PerTick = 1
  HourTicks = 8
  FetchTicks = 4
  Nothing = Nothing
  MaxTries = 3
  MaxNow = 11
  None = None
  GapThreshold = 1
  HourLength = 2
  DefaultPage = 2
  MaxPage = 3
  DefaultEvents = 3
  Unset = Unset
  Missed = Missed
  MaxBuffer = 4
INVARIANTS RowsAccounted OrdinalsDistinct FetchSound QueriesAgree SettingsAgree LinesAgree
PROPERTIES EachRowOnce
CHECK_DEADLOCK FALSE
