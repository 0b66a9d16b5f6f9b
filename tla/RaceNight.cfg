SPECIFICATION Spec
CONSTANTS
  None = None
  Rigs = {r1, r2}
  Drivers = {d1, d2}
  WithLaps = {d1, d2}
  Races = {1, 2}
  MaxReports = 2
  MaxDelayed = 1
  MaxSaves = 1
  MaxIncidents = 1
SYMMETRY Symmetry
INVARIANTS
  SettledPlaceIsTheFinish
PROPERTIES
  HolderStands
  ReviewLosesNoPlace
  CapturedRaceStays
  StaffHaveTheLastWord
CHECK_DEADLOCK FALSE
