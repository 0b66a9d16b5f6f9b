SPECIFICATION FairSpec
CONSTANTS
  Laps = {l1, bad}
  Refused = {bad}
  Owners = {s1}
  BatchSize = 2
  Handlers = {h1, h2}
  WalkUp = FALSE
  MaxTime = 3
  Second = 2
  ClockErrors = {0, 2}
  None = None
  Undriven = Undriven
  Undecided = Undecided
PROPERTIES
  HeldLapsFindTheirDriver
  ImplementsLapLedger
  EveryLapIsSettled
