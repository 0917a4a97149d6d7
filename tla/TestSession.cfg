SPECIFICATION Spec
CONSTANTS
  NumPackets <- MCNumPackets
  MaxPackets = 4
  SingleNetworkThread = TRUE
INVARIANTS
  TypeOK
  ResultsAgree
  EveryPacketCounted
  FinishedIsSuccess
  PhaseMatches
PROPERTIES
  UndisturbedSucceeds
  SessionsEnd
CHECK_DEADLOCK FALSE
