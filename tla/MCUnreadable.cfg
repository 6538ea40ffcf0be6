SPECIFICATION Spec
CONSTANTS
  root = root
  pkg = pkg
  one = one
  two = two
  Absent = Absent
  SCAN_LEVEL_FILE = SCAN_LEVEL_FILE
  Paths <- MCPaths
  Files <- MCFiles
  PythonFiles <- MCFiles
  Dirs <- MCDirs
  Root = root
  Parent <- MCParent
  Hashes <- MCHashes
  Contents <- MCOrdinary
  Setups <- MCSetups
  Invocations <- MCDirectory
  UnspannableFiles <- MCNoPaths
  UnencodablePaths <- MCNoPaths
  RuleNames <- MCRuleNames
  UnknownKeys <- MCUnknownKeys
  MaxEdits = 0
  MaxTime = 0
  MaxFileSize = 1
  MaxAstNodes = 1
  PerFileBudget = 0
  WallBudget = 1
INVARIANT CleanMeansComplete
