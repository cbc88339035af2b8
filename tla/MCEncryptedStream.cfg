SPECIFICATION FairSpec
CONSTANTS
  MaxPacket = 5
  PeerBuf = 9
  TagSize = 1
  SaltSize = 2
  Block = 2
  PipeCap = 4
  MaxBytes = 6
CHECK_DEADLOCK FALSE
INVARIANT ChunksWhole
PROPERTIES ImplementsByteStream SentArrives
