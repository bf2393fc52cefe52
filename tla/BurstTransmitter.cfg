SPECIFICATION FairSpec
CONSTANTS
  Interpolation = 2
  NumTaps = 5
  SyncwordSize = 2
  RampDownSize = 1
  FlushSize = 2
  Leading = 4
  Trailing = 5
  Lengths = {1, 2}
  SyncwordCapacity = 2
  PacketsCapacity = 1
  RampDownCapacity = 1
  FlushCapacity = 2
  MuxedCapacity = 2
  FilteredCapacity = 2
  ScaledCapacity = 1
  NumIds = 3
INVARIANTS
  NoBlockFails
PROPERTIES
  BurstsAreWhole
  EveryPacketSent
