SPECIFICATION LiveSpec
CONSTANTS
  Refresh = 2
  RetryBase = 1
  RetryMax = 2
  MinuteWindow = 1
  Hour = 3
  Day = 6
  DailyRecheck = 4
  RetryAfters <- MCRetryAfters
  Persistent = TRUE
  Fallible = TRUE
  MaxFailures = 2
INVARIANTS SettingDurable ChannelsCurrent
PROPERTIES WaitsKept QuotaPromise FetchesAgain StopHonoured
