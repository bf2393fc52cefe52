SPECIFICATION RestartSpec
CONSTANTS
  SyncwordSize = 1
  HeaderSize = 2
  AllowedMargin = 2
  CrcSize = 2
  SymbolsPerByte = 1
  Lengths = {1, 4}
  MaxChunk = 3
  TimeThreshold = 3
  ChainDelay = 1
  ChainCapacity = 4
  LinkCapacity = 3
  QueueCapacity = 2
  NumIds = 3
  Log = FALSE
PROPERTY FilterPacketsEnd
