SPECIFICATION Spec
CONSTANTS
  SilentAfter = 1
  SilentLookback = 3
  CorrelationWindow = 2
  VenueRecoveryGrace = 2
  SimDisconnectedAfter = 1
  LapStuckAfter = 0
  RestartWindow = 1
  RestartsToAlert = 2
  ClockSkewAlert = 2
  ClockSkewClear = 1
  FootprintFor = 1
  UnattributedToAlert = 2
  UnattributedWindow = 1
  UnattributedClear = 2
  SignInFailuresToAlert = 1
  SignInFailureWindow = 1
  SignInFailureClear = 2
  ComboRejectedLaps = 2
  ComboRejectedWindow = 2
  MoveWindow = 2
  LongStint = 3
  FastLapPercent = 97
  FastLapMinOthers = 2
  BoardDarkAfter = 1
  BoardReloadGrace = 1
  FeedFailuresToAlert = 2
  None = None
  Rigs = {r1, r2}
  Pages = {p1}
  ResolveAfterAbsent = 2
  RunFor = 1
  Midnight = 3
  MaxHappenings = 2
  MaxTime = 4
SYMMETRY Symmetry
INVARIANTS
  VenueGoesDarkQuietly
PROPERTIES
  SilenceIsNotForgotten
  NewerFlipStands
CHECK_DEADLOCK FALSE
