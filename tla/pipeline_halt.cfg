SPECIFICATION HaltSpec
CONSTANTS
  Size = 16
  NumRegs = 3
  Funcs <- MCFuncs
  Alu <- MCAlu
  Taken <- MCTaken
  Mdu <- MCMdu
  Programs <- MCHaltPrograms
  MulFuncs = {"MUL"}
  DIV_CYCLES = 2
  HostCommands = {"halt", "resume", "mem"}
  Devices = {}
  DebugAddrs = {4, 8}
  DebugWrites = {}
  Buttons = {"halt", "resume"}
INVARIANTS ResponseOwned RedirectPending DebugAckOwned
PROPERTIES ImplementsIsa HaltedIsFrozen CommandCompletes
