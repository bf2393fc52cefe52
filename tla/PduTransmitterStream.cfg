CONSTANTS
  StreamMode = TRUE
  MaxPackets = 2
  Modulus = 3
  MaxLength = 1
  Lengths = {1}
  Types = {"USER_DATA", "IDLE"}
  CodedSize = 1
  CrcSize = 1
  BitsPerByte = 2
  BitsPerSymbol = 2
  SyncwordSize = 1
  RampDownSize = 1
  FlushSize = 1
  Interpolation = 2
  NumTaps = 4
  Leading = 2
  Trailing = 2
  Capacity = 1
  StreamCapacity = 2
  Spaces = {5, 16}
  NumIds = 3
SPECIFICATION Spec
INVARIANTS TagsMarkPayloads
PROPERTIES BurstsInOrder
