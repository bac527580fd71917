\* Every function of up to four bytes.
SPECIFICATION LiftSpec
CONSTANTS
  FunctionStart = 1
  FunctionSizes = {1, 4}
  Instructions <- MCInstructions
  MaxBlocks = 6
  MaxInstructions = 6
  Registers = {"rax", "rcx"}
  ResultRegister = "rax"
  ArgRegisters = {"rcx"}
  Volatile = {"rax", "rcx"}
  LowFamilies = {"rax"}
  MaxExpression = 5
  MaxSteps = 100
  Modulus = 4
  Narrow = 2
  Spoiled = {"rax", "rcx"}
INVARIANT SplitValuesHold
CHECK_DEADLOCK FALSE
