SPECIFICATION UnsetSpec
CONSTANTS
  Modulus = 8
  MaxPackets = 3
  MaxOffered = 4
  Oversize = FALSE
INVARIANT RegionBounded
