SPECIFICATION Spec
CONSTANTS
  Ports = {5201}
  Runs = 2
INVARIANTS
  TypeOK
  ZeroIsEarned
  NoOrphans
  SummaryComplete
PROPERTIES
  ClientExits
  HandlersReturn
CHECK_DEADLOCK FALSE
