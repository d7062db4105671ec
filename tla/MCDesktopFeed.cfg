SPECIFICATION FairSpec
CONSTANTS
  MaxFeeds = 2
  Calls <- OneCall
  c1 = c1
  Overlap = FALSE
  ReadTimeout = 0
  HeartbeatTimeout = 1
  MaxQuiet = 3
INVARIANTS OneFeed
PROPERTIES TasksEnd LightFollows
CHECK_DEADLOCK FALSE
