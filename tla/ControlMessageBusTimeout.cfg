SPECIFICATION Spec
CONSTANTS
  Types <- MCTypes
  MaxMessages = 1
  MaxWaits = 1
  MaxRuns = 0
PROPERTIES
  TimedWaitEnds
CHECK_DEADLOCK FALSE
