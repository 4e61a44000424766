SPECIFICATION Spec
CONSTANTS
  Processes = {p1}
  p1 = p1
  p2 = p2
  Handlers <- MCOneProcess
  Queues <- MCQueues
  Types <- MCTypes
  Unsupported <- MCUnsupported
  MaxRetries = 1
  MaxFaults = 1
  None = None
INVARIANT
  AtLeastOnce
CHECK_DEADLOCK FALSE
