SPECIFICATION FairSpec
CONSTANTS
  ByteSize = 16
  TIMEOUT_TICKS = 3
  TIMEOUT_SIZE = 4
  RESET_TICKS = 2
  Words = 1
  MaxGap = 1
  HostPackets <- MCErrorPackets
  BadBytes <- MCErrorBytes
INVARIANTS InStep
PROPERTIES NoByteDropped Answers
