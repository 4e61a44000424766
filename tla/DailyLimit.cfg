SPECIFICATION Spec
CONSTANTS
  Handlers = {h1, h2, h3}
  Refs = {r1, r2}
  MaxAmount = 2
  Limit = 3
  LastDay = 1
  MaxFaults = 1
  None = None
SYMMETRY Symmetry
INVARIANTS
  TypeOK
  CountsReservations
  LimitHolds
  PostedIsReserved
CHECK_DEADLOCK FALSE
