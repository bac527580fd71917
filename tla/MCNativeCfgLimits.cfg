\* Both limits bite.
SPECIFICATION FairSpec
CONSTANTS
  FunctionStart = 1
  FunctionSizes <- MCSizesLimits
  Instructions <- MCInstructionsLimits
  MaxBlocks = 2
  MaxInstructions = 3
INVARIANT LimitsHold
PROPERTIES
  SearchesFlow
  Termination
CHECK_DEADLOCK FALSE
