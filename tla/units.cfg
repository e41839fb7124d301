SPECIFICATION UnitsSpec
CONSTANTS
  XLEN = 3
  DIV_CYCLES = 4
  ALU_XLEN = 4
  SHIFT_WIDTH = 2
  Words = 1
  ByteSize = 2
  StoreData <- MCStoreData
INVARIANTS ResultRight DatapathRight ComputesRight
PROPERTIES ImplementsBytes
