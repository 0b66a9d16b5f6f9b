SPECIFICATION FairSpec
CONSTANTS
  Drivers = {d1}
  Stints = {s1, s2}
  Laps = {l1}
  WalkUp = FALSE
  None = None
  Unnamed = Unnamed
PROPERTIES
  SeatLearnsOfTheEnd
  QueuedSignOutIsDelivered
  CheckInReachesTheSeat
