\* Two jobs, release profile.
SPECIFICATION Spec
CONSTANTS
  Runs = {1, 2}
  Paths <- MCPaths
  Inputs <- MCInputs
  Images <- MCImages
  Formats = {"c", "rs"}
  IoFaults = FALSE
  Disks <- MCDisks
  Outputs = {}
  ChosenOutputs <- MCChosen
  PanicStrategy = "abort"
INVARIANTS
  OneJob
  AutoOutputFresh
  PreviewIsOfResult
PROPERTIES
  OwnInputSafe
CHECK_DEADLOCK FALSE
