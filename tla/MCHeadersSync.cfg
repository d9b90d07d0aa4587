CONSTANTS
  honest = honest
  other = other
  Radix = 4
  Digits = 8
  PowLimit = 2815
  Window = 2
  Spacing = 2
  AllowMinDifficulty = FALSE
  NoRetargeting = FALSE
  Header = {0, 1, 2, 3, 4, 5, 6, 7, 12, 13, 14, 15, 16, 17, 18, 19, 22}
  Genesis = 0
  Parent <- Parents
  Time <- Times
  Bits <- BitsOf
  Peer = {honest, other}
  Honest = honest
  HonestChain <- FastChain
  FirstLength = 7
  Minimum = 1500
  MaxResults = 2
  MaxAnnounce = 1
  Period = 2
  BufferSize = 2
  MaxCommitments = 3
  MedianSpan = 3
SPECIFICATION Spec
INVARIANTS
  StoredHasWork
  BoundedMemory
PROPERTIES
  HonestChainStored
CHECK_DEADLOCK FALSE
