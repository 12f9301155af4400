SPECIFICATION Spec
CONSTANTS
  Frames <- TwoFrames
  Header = 3
  Trailer = 4
  BufSize = 17
  PacketSize = 12
  Longest = 2
  Shortest = 1
  MaxShort = 2
  ScanDepth = 12
  MaxRaced = 2
INVARIANTS TypeOK StatusTracksSize
PROPERTY QueueSpec
