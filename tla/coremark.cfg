SPECIFICATION Spec
CONSTANTS
  BlkSize = 666
  Seed = {0, 13333}
  FindNum = {102}
  Iterations = 1
CHECK_DEADLOCK FALSE
INVARIANTS KnownValues
