SPECIFICATION RosterSpec
CONSTANTS
  Text = {Ana, Ben}
  MaxWorkers = 2
  MaxVisits = 2
  MaxCrashes = 1
  Scans = {s1, s2}
SYMMETRY RosterSymmetry
INVARIANTS
  RosterTypeOK
  LogsNameTheirWorker
  OneWorkerPerVisit
