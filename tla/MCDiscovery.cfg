SPECIFICATION WalkSpec
CONSTANTS
  root = root
  pkg = pkg
  sub = sub
  top = top
  mid = mid
  low = low
  Absent = Absent
  SCAN_LEVEL_FILE = SCAN_LEVEL_FILE
  Paths <- MCPaths
  Files <- MCFiles
  Dirs <- MCDirs
  Root = root
  Parent <- MCParent
  Hashes = {}
  UnknownKeys = {}
  Contents <- MCContents
  Setups <- MCSetups
  MaxEdits = 1
  MaxTime = 0
INVARIANTS
  WalkTypeOK
  YieldsOnlyVisible
  WalkIsComplete
  NoFileTwice
PROPERTY WalkEnds
