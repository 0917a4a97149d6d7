SPECIFICATION Spec
CONSTANTS
  MaxEvents = 1
  MaxRuns = 1
PROPERTIES
  StopReturns
CHECK_DEADLOCK FALSE
