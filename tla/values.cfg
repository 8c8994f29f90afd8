SPECIFICATION Spec
CONSTANTS
  ByteBits = 1
  GroupBits = 3
  Memories <- MCMemories
  Instructions <- MCInstructions
  MaxStack = 2
  MaxSteps = 4
CHECK_DEADLOCK FALSE
PROPERTY
  ComputesAsWasm
