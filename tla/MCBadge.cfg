SPECIFICATION BoundedFairScreenSpec
CONSTANTS
  MaxLogs = 1
  BATCH_SIZE = 1
  MAX_RETRIES = 1
  MaxFaults = 0
  MaxRetryCount = 2
  Runs = {r1}
  Visits = {v1}
  Followed = {"home"}
  MaxLoads = 1
PROPERTIES
  DashboardUpdates
