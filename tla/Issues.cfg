SPECIFICATION IssuesSpec
CONSTANTS
  Runs = {r1, r2}
  Rules = {hot}
  SoftwareRules = {}
  RetryAfter = 0
  RetryFor = 2
  DiagnosisStale = 1
  DiagnosisAttempts = 2
  DiagnosesPerEvaluation = 3
  RefireWindow = 1
  MarkerLookback = 1
  DiagnosesFor = 0
  MaxAlerts = 2
  MaxFailures = 1
  MaxHappenings = 1
  MaxTime = 2
  None = None
SYMMETRY Symmetry
INVARIANTS
  NamedOnce
  NothingJoinsAfterRecovery
PROPERTIES
  OneIssueToAFault
CHECK_DEADLOCK FALSE
