SPECIFICATION Spec
CONSTANTS
  Workers = {w1}
  Events <- MCOneEvent
  Stamps <- MCStamps
  NoStamp = 0
  BatchSize = 1
  MaxRetries = 1
  MaxFaults = 0
PROPERTIES
  StopsAtMaxRetries
CHECK_DEADLOCK FALSE
