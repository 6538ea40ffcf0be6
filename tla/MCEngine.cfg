SPECIFICATION Spec
CONSTANTS
  a = a
  b = b
  c = c
  SCAN_LEVEL_FILE = SCAN_LEVEL_FILE
  Paths <- MCPaths
  Hashes <- MCHashes
  UnknownKeys = {}
  UnencodablePaths <- MCUnencodable
  FragmentLists <- MCFragmentLists
INVARIANTS
  TypeOK
  FingerprintsDistinct
  FingerprintsExact
  DiagnosticsComplete
