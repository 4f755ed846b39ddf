SPECIFICATION Spec
CONSTANTS
  Paths <- MCPaths
  Contents <- MCContents
  Bundles <- MCBundles
  MAX_BLOCKS = 5
  MAX_SKIPPED = 1
  MAX_LIST_ITEMS = 3
  MAX_CONTEXT_LINES = 1
  MAX_FILE_BYTES = 6
  MAX_TOTAL_BYTES = 12
  MAX_MATCHES = 4
  MAX_VERIFY_SOURCE_BYTES = 40
  MaxWrites = 2
CONSTRAINT Scope
INVARIANTS
  TypeOK
  StatusesAreWitnessed
  QuietTreeIsJudgedExactly
  VerifiedIsAttested
