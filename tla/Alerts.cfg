SPECIFICATION Spec
CONSTANTS
  Runs = {r1, r2}
  Levels = {1, 2}
  EvaluationInterval = 0
  RunFor = 1
  ResolveAfterAbsent = 1
  RetryAfter = 0
  RetryFor = 2
  FlappingRefires = 1
  FlappingWindow = 3
  MaxAlerts = 3
  MaxTime = 7
  MaxFailures = 1
  None = None
SYMMETRY Symmetry
INVARIANTS
  NoLoneRecovery
  ClosedInMuteStaysQuiet
PROPERTIES
  MuteHolds
CHECK_DEADLOCK FALSE
