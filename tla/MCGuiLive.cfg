\* One job, a thread that may unwind.
SPECIFICATION FairSpec
CONSTANTS
  Runs = {1}
  Paths <- MCPaths
  Inputs <- MCOne
  Images <- MCImages
  Formats = {"c", "rs"}
  IoFaults = FALSE
  Disks <- MCDisks
  Outputs = {}
  ChosenOutputs <- MCChosen
  PanicStrategy = "unwind"
PROPERTIES
  BusyEnds
CHECK_DEADLOCK FALSE
