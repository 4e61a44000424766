SPECIFICATION FairSpec
CONSTANTS
  Workers = {w1, w2}
  Events <- MCEvents
  Stamps <- MCStamps
  NoStamp = 0
  BatchSize = 2
  MaxRetries = 1
  MaxFaults = 1
INVARIANTS
  TypeOK
  NoLostEvent
  DuplicatesOnlyByFault
PROPERTIES
  ForwardOnly
  ImplementsDelivery
  EveryEventProcessed
CHECK_DEADLOCK FALSE
