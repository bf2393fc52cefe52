SPECIFICATION FairSpec
CONSTANTS
  InputsPerOutput = 2
  CrcSize = 1
  Lengths = {2, 3}
  BitsCapacity = 3
  BytesCapacity = 3
  CheckedCapacity = 3
  UserCapacity = 2
  PdusCapacity = 1
  Kinds = {"user", "idle", "corrupt"}
  NumIds = 2
INVARIANTS
  NoBlockFails
PROPERTIES
  WritesWantedPackets
  EveryPacketDecided
