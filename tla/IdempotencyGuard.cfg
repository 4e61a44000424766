SPECIFICATION FairSpec
CONSTANTS
  Requests = {r1, r2, r3}
  Keys = {t1, t2}
  Transfers = {t1, t2}
  MaxFaults = 1
  None = None
INVARIANTS
  TypeOK
  OneWorkerPerKey
  LockStaysMine
  DoneMeansCompleted
PROPERTIES
  NothingHeldForever
CHECK_DEADLOCK FALSE
