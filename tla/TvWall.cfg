SPECIFICATION Spec
CONSTANTS
  None = None
  a = a
  b = b
  TrackOrder <- MCTrackOrder
  d1 = d1
  d2 = d2
  Drivers = {d1, d2}
  Rigs = {r1}
  Slowest = 2
  EarlierLaps <- MCEarlierLaps
  RowsThatFit = 0
  SlideTime = 3
  RefreshTime = 1
  RotationTime = 4
  RetryTime = 1
  LoadTimeout = 1
  Celebration = 1
  LeagueTakeover = 5
  IdleResume = 2
  StaleTouch = 5
  MaxHappenings <- MCMaxHappenings
  MaxFailures = 1
  MaxHands = 2
INVARIANTS
  LiveWallIsFresh
  FailureIsTold
  ListGoesHome
PROPERTIES
  LeagueKeepsTheWall
  EveryTrackHasItsTurn
CHECK_DEADLOCK FALSE
