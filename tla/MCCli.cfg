\* Two command lines at once; any operation on a file may fail.
SPECIFICATION Spec
CONSTANTS
  r1 = r1
  r2 = r2
  Runs = {r1, r2}
  Paths <- MCPaths
  Inputs <- MCInputs
  Images <- MCImages
  Formats = {"c"}
  IoFaults = TRUE
  Disks <- MCDisks
  Outputs <- MCOutputs
SYMMETRY TwoRuns
INVARIANTS
  TypeOK
  OutputExact
  FailureLeavesPrefix
PROPERTIES
  Confined
  KeepsWithoutForce
CHECK_DEADLOCK FALSE
