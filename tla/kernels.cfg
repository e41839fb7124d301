SPECIFICATION KernelsSpec
CONSTANTS
  Result = {0, 1, 255, 256, 32769, 42435}
  MaxChain = 3
  ListSize = 240
  ListSeed = {0, 7, 8, 13333}
  FindNum = {0, 1, 2, 3}
  Iterations = 1
  ListResult = {7, 33023}
  TextSize = 110
  TextSeed = {0, 8, 13333, 10, 12, 13, 14, 18, 22, 25, 28, 31, 43, 44, 46, 50, 53, 83, 100, 116, 128, 255, 300, 1000, 23130, 65535}
  OtherSeed = {0, 3}
  Steps = {34, 51, 102}
  MaxCalls = 2
  MatrixSize = 80
  MatrixSeed = {0, 1, 8, 13333, 40000}
  Vals = {0, 17, 34, 136, 204, 255}
CHECK_DEADLOCK FALSE
INVARIANTS Restored TextScanned NeverMasked
PROPERTIES KeepsPromise AllReturn
