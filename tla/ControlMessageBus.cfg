SPECIFICATION Spec
CONSTANTS
  Types <- MCTypes
  MaxMessages = 2
  MaxWaits = 3
  MaxRuns = 1
INVARIANTS
  TypeOK
  HeldOnce
  OneOutcome
  NoLostWakeup
  AwaiterAlive
  NoStaleMessage
PROPERTIES
  InOrder
  ArmedWaitEnds
CHECK_DEADLOCK FALSE
