\* Every four-byte function, limits out of reach.
SPECIFICATION Spec
CONSTANTS
  FunctionStart = 1
  FunctionSizes <- MCSizesFour
  Instructions <- MCInstructionsFour
  MaxBlocks = 6
  MaxInstructions = 6
INVARIANTS
  TypeOK
  BlocksPartitionDecoded
  StraightLine
  EdgesExact
  ExactlyReachable
  TextFollowsCode
  LoopsMarked
CHECK_DEADLOCK FALSE
