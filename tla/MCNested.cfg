SPECIFICATION LoweringSpec
CONSTANTS
  a = a
  b = b
  Absent = Absent
  SCAN_LEVEL_FILE = SCAN_LEVEL_FILE
  Paths <- MCFiles
  Files <- MCFiles
  Hashes <- MCHashes
  UnknownKeys = {}
  Contents <- MCDeepContents
  UnspannableFiles <- MCNoPaths
  MaxEdits = 2
  MaxTime = 0
  MaxFileSize = 2
  MaxAstNodes = 2
  PerFileBudget = 1
INVARIANT NeverUnhandled
