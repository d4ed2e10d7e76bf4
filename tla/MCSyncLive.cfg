SPECIFICATION BoundedFairSpec
CONSTANTS
  MaxLogs = 2
  BATCH_SIZE = 1
  MAX_RETRIES = 2
  MaxFaults = 1
  MaxRetryCount = 3
  Runs = {r1}
PROPERTIES
  SyncReleases
  QueueDrains
