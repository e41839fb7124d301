SPECIFICATION FairSpec
CONSTANTS
  Size = 16
  NumRegs = 3
  Funcs <- MCFuncs
  Alu <- MCAlu
  Taken <- MCTaken
  Mdu <- MCMdu
  Programs <- MCPrograms
  MulFuncs = {"MUL"}
  DIV_CYCLES = 3
  HostCommands = {}
  Devices = {8}
  DebugAddrs = {4}
  DebugWrites = {}
  Buttons = {}
INVARIANTS TypeOK ScoreboardExact OneUnitBusy
PROPERTIES ImplementsIsa KeepsRetiring
