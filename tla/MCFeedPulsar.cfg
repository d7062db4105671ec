SPECIFICATION BackendsFairSpec
CONSTANTS
  Kind <- MCPulsar
  Mode = "client"
  Heartbeat = TRUE
  MaxRetryQueue = 1
  MaxDrain = 1
  RequestCap = 1
  MaxBatch = 2
  MaxMsg = 2
PROPERTY ForwardersComeUp
CHECK_DEADLOCK FALSE
