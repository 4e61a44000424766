SPECIFICATION Spec
CONSTANTS
  Requests = {r1, r2}
  Keys = {t1, t2, d1}
  Transfers = {t1, t2}
  MaxFaults = 0
  None = None
PROPERTIES
  BusyMeansTransferring
CHECK_DEADLOCK FALSE
