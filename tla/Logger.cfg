SPECIFICATION Spec
CONSTANTS
  Threads = {t1}
  MaxLogs = 2
INVARIANTS
  TypeOK
  ThreadOrder
PROPERTIES
  ImplementsChannel
  StopFlushes
CHECK_DEADLOCK FALSE
