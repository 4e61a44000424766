SPECIFICATION Spec
CONSTANTS
  Handlers = {h1, h2, h3}
  Refs = {r1, r2}
  MaxAmount = 1
  Limit = 3
  LastDay = 0
  MaxFaults = 0
  None = None
SYMMETRY Symmetry
INVARIANT
  ReservationsGivenBack
CHECK_DEADLOCK FALSE
