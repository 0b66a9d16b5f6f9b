SPECIFICATION Spec
CONSTANTS
  Drivers = {d1, d2}
  Rigs = {r1, r2}
  MaxStints = 4
  Requests = {q1, q2}
  Confirmations <- AllOrNothing
  Nobody = Nobody
SYMMETRY Alike
INVARIANTS
  OrderedPassNeverDeadlocks
PROPERTIES
  DisplacedOnlyIfConfirmed
  ImplementsSeats
CHECK_DEADLOCK FALSE
