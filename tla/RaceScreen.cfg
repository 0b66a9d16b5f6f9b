SPECIFICATION ScreenSpec
CONSTANTS
  None = None
  Rigs = {1, 2, 3}
  Sessions = {1, 2}
  RaceSessions = {1, 2}
  StaleAfter = 1
  DropAfter = 2
  FinishHold = 2
  MinRigs = 2
  Highlight = 1
  MaxChanges = 3
INVARIANTS
  RaceIsNotFrozen
PROPERTIES
  FinishedRaceStaysGone
  MarksArePasses
CHECK_DEADLOCK FALSE
