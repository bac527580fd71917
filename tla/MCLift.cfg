\* Every graph of three blocks.
SPECIFICATION Spec
CONSTANTS
  Addresses = {1, 2, 3, 4}
  Registers = {"rax", "rcx"}
  ResultRegister = "rax"
  ArgRegisters = {"rcx"}
  Volatile = {"rax", "rcx"}
  LowFamilies = {"rax", "rcx"}
  Effects <- MCEffects
  Functions <- MCFunctions
  MaxExpression = 3
  MaxSteps = 9
INVARIANTS
  TypeOK
  Stable
  StepBound
PROPERTY Weakening
CHECK_DEADLOCK FALSE
