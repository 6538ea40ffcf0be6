SPECIFICATION Spec
CONSTANTS
  root = root
  pkg = pkg
  one = one
  two = two
  Absent = Absent
  SCAN_LEVEL_FILE = SCAN_LEVEL_FILE
  Paths <- MCPaths
  Files <- MCFiles
  PythonFiles <- MCFiles
  Dirs <- MCDirs
  Root = root
  Parent <- MCParent
  Hashes <- MCHashes
  Contents <- MCTypos
  Setups <- MCOneSetup
  Invocations <- MCDirectory
  UnspannableFiles <- MCNoPaths
  UnencodablePaths <- MCUnencodable
  RuleNames <- MCRuleNames
  UnknownKeys <- MCUnknownKeys
  MaxEdits = 1
  MaxTime = 2
  MaxFileSize = 1
  MaxAstNodes = 1
  PerFileBudget = 0
  WallBudget = 1
INVARIANT NeverTraceback
