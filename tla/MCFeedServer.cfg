SPECIFICATION Spec
CONSTANTS
  Kind <- MCPulsarMqtt
  Mode = "server"
  Heartbeat = TRUE
  MaxRetryQueue = 0
  MaxDrain = 1
  RequestCap = 1
  MaxBatch = 2
  MaxMsg = 3
PROPERTIES DeliveryPromise
CHECK_DEADLOCK FALSE
