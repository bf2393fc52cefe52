SPECIFICATION FairSpec
CONSTANTS
  Modulus = 8
  MaxPackets = 3
  MaxOffered = 4
  Oversize = TRUE
INVARIANTS
  RegionBounded
  WindowExact
PROPERTY
  ClosedOnlyByDrops
