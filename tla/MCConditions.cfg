\* Every block of three instructions, in every state of the registers.
SPECIFICATION Spec
CONSTANTS
  Registers = {"rax", "rcx"}
  ResultRegister = "rax"
  ArgRegisters = {"rcx"}
  Volatile = {"rax", "rcx"}
  LowFamilies = {"rax", "rcx"}
  MaxExpression = 5
  Half = 4
  Sources <- MCSources
  MaxLength = 3
INVARIANT ConditionsHold
CHECK_DEADLOCK FALSE
