\* The same inputs: code objects whose flagged objects nest are read wrong.
SPECIFICATION AnySpec
CONSTANTS
  Files <- MCDetected
  Classes <- MCClasses
  Programs <- MCPrograms
  MaxEntries = 6
  Objects <- MCObjects
  MaxNesting = 3
  Assemblies <- MCAssemblies
  Wide = 4
  Chunks <- MCChunks
  MaxDepth = 2
  Archives <- MCArchives
  MaxMembers = 2
  MaxMember = 3
  MaxTotal = 5
  Bodies <- MCBodies
  Bits = 3
  WordBits = 8
  MaxBytes = 3
  Numbers <- MCNumbers
  LinkedImages <- MCLinkedImages
  MaxDescriptors = 2
  MaxThunks = 4
  Layouts <- MCLayouts
  MaxStrings = 3
  SectionStart <- MCStart
  SectionEnd <- MCEnd
  TextSections = {"text", "init"}
  Images <- MCImages
  SymbolNames = {"f", "g", "sub", "sub_"}
  UnknownLimit = 3
  MaxSeeds = 3
  MaxDiscovered = 4
  MaxRecord = 2
INVARIANT ReferencesResolve
CHECK_DEADLOCK FALSE
