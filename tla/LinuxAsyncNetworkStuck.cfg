SPECIFICATION SafetySpec
CONSTANTS
  MaxPayloadSize = 2
  Streams <- MCStreams
  PacketSize = 2
  MaxSends = 2
  MaxPeers = 2
INVARIANTS
  NoSessionStuck
CHECK_DEADLOCK FALSE
