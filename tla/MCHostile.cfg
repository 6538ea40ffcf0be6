SPECIFICATION Spec
CONSTANTS
  root = root
  pkg = pkg
  one = one
  two = two
  Absent = Absent
  SCAN_LEVEL_FILE = SCAN_LEVEL_FILE
  Paths <- MCPaths
  Files <- MCFiles
  PythonFiles <- MCFiles
  Dirs <- MCDirs
  Root = root
  Parent <- MCParent
  Hashes <- MCHashes
  Contents <- MCHostile
  Setups <- MCOneSetup
  Invocations <- MCHostileCalls
  UnspannableFiles <- MCNoPaths
  UnencodablePaths <- MCUnencodable
  RuleNames <- MCRuleNames
  UnknownKeys <- MCUnknownKeys
  MaxEdits = 1
  MaxTime = 1
  MaxFileSize = 1
  MaxAstNodes = 1
  PerFileBudget = 0
  WallBudget = 1
INVARIANTS
  FindingsDecideExit
  MisconfigurationIsReported
PROPERTY KeepsContract
