SPECIFICATION SafetySpec
CONSTANTS
  NumPackets <- MCLimited
  MaxPackets = 1
  SingleNetworkThread = FALSE
INVARIANTS
  EveryPacketCounted
CHECK_DEADLOCK FALSE
