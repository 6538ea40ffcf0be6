SPECIFICATION RepositorySpec
CONSTANTS
  root = root
  pkg = pkg
  one = one
  two = two
  note = note
  Absent = Absent
  SCAN_LEVEL_FILE = SCAN_LEVEL_FILE
  Paths <- MCPaths
  Files <- MCFiles
  PythonFiles <- MCPythonFiles
  Dirs <- MCDirs
  Root = root
  Parent <- MCParent
  Hashes <- MCHashes
  UnknownKeys = {}
  Contents <- MCContents
  Setups <- MCSetups
  UnspannableFiles <- MCNoPaths
  MaxEdits = 1
  MaxTime = 2
  MaxFileSize = 1
  MaxAstNodes = 1
  PerFileBudget = 1
  WallBudget = 1
INVARIANTS
  RepositoryTypeOK
  NothingDroppedSilently
  OneFragmentPerFile
  OvershootAtMostOne
  TruncationIsReal
PROPERTIES
  ScanEnds
  ScanAdvances
