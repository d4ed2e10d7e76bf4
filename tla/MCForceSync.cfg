SPECIFICATION BoundedSpec
CONSTANTS
  MaxLogs = 2
  BATCH_SIZE = 1
  MAX_RETRIES = 1
  MaxFaults = 0
  MaxRetryCount = 3
  Runs = {r1}
PROPERTIES
  ForceIgnoresLimit
