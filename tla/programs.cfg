SPECIFICATION ProgramsSpec
CONSTANTS
  NUMBER_OF_RUNS = 1
  Cost = {2000, 20000, 150000, 2500000}
  Sizes = {0, 1, 3}
  Text = 2
  Rest = 2
  Ends = {0, 2, 9}
  Incr = {1, 3}
  Lengths = {0, 1, 4}
  MaxWrites = 2
  Capacity = 2
  PRESCALE = 3
  WRAP = 16
  Start = {0, 5, 14}
  Long = 8
  Short = 4
  MaxGap = 2
CHECK_DEADLOCK FALSE
INVARIANTS MemoryAsLaidOut OutputRight
PROPERTIES DelayRight ProgramsEnd
