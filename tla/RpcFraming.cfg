SPECIFICATION FairSpec
CONSTANTS
  HeaderLen = 4
  BufferSize = 9
  Frames = 3
  MaxPacket = 6
INVARIANTS
  TypeOK
  PacketsIntact
  FrameAligned
  RoomToRead
  ErrorOnlyTooBig
PROPERTY AllParsed
CHECK_DEADLOCK FALSE
