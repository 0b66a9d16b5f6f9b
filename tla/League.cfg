SPECIFICATION Spec
CONSTANTS
  None = None
  Staff = {s1, s2}
  Drivers = {1, 2}
  Combos = {c1, c2}
  Times = {1, 2}
  MaxHappenings = 4
SYMMETRY Symmetry
INVARIANTS
  OneRunningSeason
  ComboIsPutBack
PROPERTIES
  ALapNeverCosts
CHECK_DEADLOCK FALSE
