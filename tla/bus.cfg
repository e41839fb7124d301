SPECIFICATION FairSpec
CONSTANTS
  Roms <- MCRoms
  Rams <- MCRams
  Bridges <- MCBridges
  BadRegions <- MCBad
  Cells <- MCCells
  Value <- MCValue
  Ones <- MCOnes
  Withdrawing = {1}
PROPERTIES ImplementsMemory TransferUndisturbed NoStarvation
