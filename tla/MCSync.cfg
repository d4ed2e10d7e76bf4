SPECIFICATION BoundedSpec
CONSTANTS
  MaxLogs = 3
  BATCH_SIZE = 2
  MAX_RETRIES = 2
  MaxFaults = 1
  MaxRetryCount = 3
  Runs = {r1, r2}
SYMMETRY RunSymmetry
INVARIANTS
  TypeOK
  QueueMirrorsPending
  NothingSentTwice
  SyncedReachedCloud
  NothingLost
  SingleSyncRun
  AttemptedOnce
  NoDeadUpload
PROPERTIES
  DequeuedOnlyWhenDelivered
  ImplementsLedger
