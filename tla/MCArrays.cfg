SPECIFICATION ArraysSpec
CONSTANTS
  MaxLogs = 3
  BATCH_SIZE = 2
  MAX_RETRIES = 1
  MaxRetryCount = 1
  DAY = 2
  KEEP = 2
  MaxTime = 3
INVARIANTS
  ArraysTypeOK
  InCreationOrder
  SlicesAreBatches
  LastSyncShown
PROPERTIES
  PurgeKeepsToday
  ImplementsStore
