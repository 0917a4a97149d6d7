SPECIFICATION Spec
CONSTANTS
  MaxPayloadSize = 2
  Streams <- MCStreams
  PacketSize = 2
  MaxSends = 2
  MaxPeers = 2
INVARIANTS
  TypeOK
  StraysHaveCause
  ParsedRight
PROPERTIES
  IOCompletes
  CloseReturns
CHECK_DEADLOCK FALSE
