SPECIFICATION BoundedScreenSpec
CONSTANTS
  MaxLogs = 1
  BATCH_SIZE = 1
  MAX_RETRIES = 1
  MaxFaults = 1
  MaxRetryCount = 2
  Runs = {r1, r2}
  Visits = {v1, v2}
  Followed = {"home"}
  MaxLoads = 2
SYMMETRY ScreenSymmetry
INVARIANTS
  ScreenTypeOK
  ReportedReachedCloud
  ReportedOnce
  CountCatchesUp
PROPERTIES
  ImplementsEngine
