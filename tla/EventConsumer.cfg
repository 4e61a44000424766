SPECIFICATION FairSpec
CONSTANTS
  Processes = {p1, p2}
  p1 = p1
  p2 = p2
  Handlers <- MCHandlers
  Queues <- MCQueues
  Types <- MCTypes
  Unsupported <- MCUnsupported
  MaxRetries = 1
  MaxFaults = 1
  None = None
INVARIANTS
  TypeOK
  CompletedHasEffect
  EffectOnce
  DropsLeaveTrace
PROPERTIES
  QueuesDrain
CHECK_DEADLOCK FALSE
