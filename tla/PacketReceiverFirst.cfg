SPECIFICATION FirstSpec
CONSTANTS
  SyncwordSize = 2
  HeaderSize = 3
  AllowedMargin = 3
  CrcSize = 1
  SymbolsPerByte = 2
  Lengths = {1, 2, 3}
  MaxChunk = 4
  TimeThreshold = 5
  ChainDelay = 2
  ChainCapacity = 6
  LinkCapacity = 4
  QueueCapacity = 2
  NumIds = 3
  Log = TRUE
PROPERTY EndsAfterHeader
