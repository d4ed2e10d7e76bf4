SPECIFICATION BoundedSpec
CONSTANTS
  MaxLogs = 1
  BATCH_SIZE = 1
  MAX_RETRIES = 1
  MaxFaults = 1
  MaxRetryCount = 2
  Runs = {r1}
INVARIANTS
  AllSyncedIsDelivered
