SPECIFICATION RigSpec
CONSTANTS
  SilentAfter = 1
  SilentLookback = 6
  CorrelationWindow = 1
  VenueRecoveryGrace = 1
  SimDisconnectedAfter = 1
  LapStuckAfter = 0
  RestartWindow = 1
  RestartsToAlert = 2
  ClockSkewAlert = 2
  ClockSkewClear = 1
  FootprintFor = 1
  UnattributedToAlert = 2
  UnattributedWindow = 1
  UnattributedClear = 2
  SignInFailuresToAlert = 1
  SignInFailureWindow = 1
  SignInFailureClear = 2
  ComboRejectedLaps = 2
  ComboRejectedWindow = 2
  MoveWindow = 2
  LongStint = 3
  FastLapPercent = 97
  FastLapMinOthers = 2
  BoardDarkAfter = 1
  BoardReloadGrace = 1
  FeedFailuresToAlert = 2
  None = None
  Reports <- MCReports
  ClockOffset = 2
  History = 3
  BeforeLatest = 1
  HeartbeatRateLimit = 2
  HeartbeatRateWindow = 1
  ResolveAfterAbsent = 2
  MaxDelay = 1
  MaxProcesses = 2
  MaxSends = 2
  MaxTime = 4
INVARIANTS
  ClosedRigStaysQuiet
  RestartsAreReal
  OutageIsNotStuck
  LaneShowsEveryAlert
CHECK_DEADLOCK FALSE
