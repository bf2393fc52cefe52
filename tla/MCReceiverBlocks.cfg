SPECIFICATION BenchSpec
CONSTANTS
  SamplesPerSymbol = 2
  SyncwordSize = 2
  HeaderSize = 3
  AllowedMargin = 3
  CrcSize = 1
  SymbolsPerByte = 1
  Lengths = {1, 4, 9}
  MaxChunk = 5
  FftSize = 3
  SyncwordSamples = 3
  TimeThreshold = 1
  PowerThreshold = 2
  HistoryCapacity = 6
  Modulus = 5
  Powers = {0, 1, 3}
  MaxAvail = 4
  ClockSamples = 4
  FreqDelay = 8
  Delays = {6, 7, 8}
  MinGap = 13
  LinkCapacity = 3
  ClockIds = 2
  ChainSyncword = 2
  ChainHeader = 2
  ChainLengths = {0, 1, 2}
  Mask = {0, 1}
  Seed = {0}
  Length = 3
  Count = 0
  Capacity = 2
  SoftCapacity = 3
  NumIds = 2
INVARIANTS
  BoundedLookahead
  DetectionsRight
  SymbolsOnTime
  FrequencyOfPacket
  SymbolsOfOwnPacket
  DescramblesInStep
PROPERTY
  ClosesLate
