SPECIFICATION HalSpec
CONSTANTS
  B = 3
  Times <- MCTimes
  Intervals = {1, 2}
  Transactions <- MCTransactions
  Nacks = {TRUE, FALSE}
  Bytes = {"a", "b", "d"}
  Buffers <- MCBuffers
  ReadLengths = {0, 1, 2, 3}
  Modes = {"m0", "m1"}
  dummy_byte = "d"
  R = 2
  TOP_1HZ = 3
  TOP_PWM = 3
  COMPARE_PWM = 1
  TOP_BREATHING = 3
  LIMIT = 2
  Sources = {0, 8}
  DEPTH = 2
  MaxFrames = 4
  MaxWritten = 3
  MaxBuffer = 3
  TOTAL_PAGE = 4
  PAGE_BYTES = 1
  RAM_PAGES = 3
  Files <- MCFiles
  Lengths = {4}
INVARIANTS AckRespected TransferExact MaskAsAsked BytesOnce ImageWhole
PROPERTIES ReadsTrue NeverEarly KeepsWaking BusReleased CounterRead SilentWhenDisabled DownloadEnds
