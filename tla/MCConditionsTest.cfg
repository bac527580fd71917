\* Every branch after a test.
SPECIFICATION Spec
CONSTANTS
  Registers = {"rax", "rcx"}
  ResultRegister = "rax"
  ArgRegisters = {"rcx"}
  Volatile = {"rax", "rcx"}
  LowFamilies = {"rax", "rcx"}
  MaxExpression = 5
  Half = 4
  Sources <- MCSources
  MaxLength = 1
INVARIANT TestsHold
CHECK_DEADLOCK FALSE
