SPECIFICATION BoundedFairSpec
CONSTANTS
  MaxLogs = 1
  BATCH_SIZE = 1
  MAX_RETRIES = 2
  MaxFaults = 0
  MaxRetryCount = 2
  Runs = {r1}
PROPERTIES
  FailedIsRetried
