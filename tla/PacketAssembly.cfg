SPECIFICATION FairSpec
CONSTANTS
  HeaderSize = 2
  CrcSize = 2
  MaxLength = 3
  Lengths = {1, 3, 4}
  EmptySpans = FALSE
  MetadataCapacity = 5
  DataCapacity = 3
  PlainCapacity = 1
  HeadersCapacity = 3
  PayloadCapacity = 3
  MaxSpace = 3
  NumIds = 3
INVARIANTS
  NoBlockFails
PROPERTIES
  FramesInOrder
  EveryPacketLeaves
