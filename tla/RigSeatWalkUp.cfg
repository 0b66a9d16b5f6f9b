SPECIFICATION Spec
CONSTANTS
  Drivers = {d1, d2}
  Stints = {s1, s2, s3}
  Laps = {l1}
  WalkUp = TRUE
  None = None
  Unnamed = Unnamed
SYMMETRY Symmetry
INVARIANTS
  SignedOutStaysOut
  PromiseKept
