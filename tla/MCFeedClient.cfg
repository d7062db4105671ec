SPECIFICATION FairSpec
CONSTANTS
  Kind <- MCMqttFile
  Mode = "client"
  Heartbeat = TRUE
  MaxRetryQueue = 2
  MaxDrain = 2
  RequestCap = 1
  MaxBatch = 2
  MaxMsg = 4
INVARIANTS TypeOK RetryQueuesSound
PROPERTIES DeliveryPromise FanoutCompletes ShutdownHonoured
CHECK_DEADLOCK FALSE
