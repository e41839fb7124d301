SPECIFICATION Spec
CONSTANTS
  XLEN = 4
  DIV_CYCLES = 5
INVARIANT DivisionByZeroIsMinusOne
