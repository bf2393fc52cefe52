CONSTANTS
  StreamMode = FALSE
  MaxPackets = 2
  Modulus = 3
  MaxLength = 1
  Lengths = {1, 2}
  Types = {"IDLE"}
  CodedSize = 1
  CrcSize = 1
  BitsPerByte = 2
  BitsPerSymbol = 2
  SyncwordSize = 1
  RampDownSize = 1
  FlushSize = 1
  Interpolation = 2
  NumTaps = 4
  Leading = 2
  Trailing = 2
  Capacity = 1
  StreamCapacity = 1
  Spaces = {9}
  NumIds = 3
SPECIFICATION FairSpec
INVARIANTS PacketsInStep
PROPERTIES BurstsInOrder IsRegion EveryPacketSent
