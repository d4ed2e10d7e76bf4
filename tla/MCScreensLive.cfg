SPECIFICATION BoundedFairScreenSpec
CONSTANTS
  MaxLogs = 1
  BATCH_SIZE = 1
  MAX_RETRIES = 2
  MaxFaults = 1
  MaxRetryCount = 3
  Runs = {r1, r2}
  Visits = {v1}
  Followed = {"syncStatus"}
  MaxLoads = 1
INVARIANTS
  CountCatchesUp
PROPERTIES
  ButtonComesBack
  PressingDelivers
