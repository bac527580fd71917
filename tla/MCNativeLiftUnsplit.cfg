\* Branches into the middle of a block.
SPECIFICATION LiftSpec
CONSTANTS
  FunctionStart = 1
  FunctionSizes = {3}
  Instructions <- MCInstructionsUnsplit
  MaxBlocks = 6
  MaxInstructions = 6
  Registers = {"rax", "rcx"}
  ResultRegister = "rax"
  ArgRegisters = {"rcx"}
  Volatile = {"rax", "rcx"}
  LowFamilies = {"rax"}
  MaxExpression = 5
  MaxSteps = 100
  Modulus = 4
  Narrow = 2
  Spoiled = {"rax", "rcx"}
INVARIANT ValuesHold
CHECK_DEADLOCK FALSE
