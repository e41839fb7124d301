SPECIFICATION Spec
CONSTANTS
  ByteSize = 16
  TIMEOUT_TICKS = 3
  TIMEOUT_SIZE = 4
  RESET_TICKS = 2
  Words = 4
  MaxGap = 0
  HostPackets <- MCPackets
  BadBytes = {0}
INVARIANTS AnswerRight EffectRight ControlRight
