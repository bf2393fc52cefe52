SPECIFICATION BenchSpec
CONSTANTS
  Leading = 3
  Trailing = 4
  Lengths = {1, 2, 3, 4, 5, 6, 7, 8, 9, 11}
  MaxChunk = 11
  Interval = 2
  MaxItems = 1
  MaxBehind = 2
  Modulus = 3
INVARIANTS
  FormsAgree
  CrcRight
  ResamplesOnTime
  ReportsRight
  ModulatesInStep
PROPERTIES
  StopReturns
  StreamInOrder
