SPECIFICATION AuthSpec
CONSTANTS
  Pin = {"123456", "654321", "other"}
  Supervisor = {"SUP-001", "SUP-002"}
  DEFAULT_SUPERVISORS <- MCSupervisors
  SESSION_DURATION_MS = 1
  MaxTime = 3
  MaxSessions = 2
INVARIANTS
  AuthTypeOK
PROPERTIES
  EndedStaysEnded
