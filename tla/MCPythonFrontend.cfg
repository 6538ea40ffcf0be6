SPECIFICATION LoweringSpec
CONSTANTS
  a = a
  b = b
  Absent = Absent
  SCAN_LEVEL_FILE = SCAN_LEVEL_FILE
  Paths <- MCFiles
  Files <- MCFiles
  Hashes <- MCHashes
  UnknownKeys = {}
  Contents <- MCContents
  UnspannableFiles <- MCUnspannable
  MaxEdits = 2
  MaxTime = 3
  MaxFileSize = 2
  MaxAstNodes = 2
  PerFileBudget = 1
INVARIANTS
  LoweringTypeOK
  SilenceMeansWhole
  LimitIsReal
