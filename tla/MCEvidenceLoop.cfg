SPECIFICATION Spec
CONSTANTS
  Paths <- MCPaths
  SecretPaths <- None
  Contents <- MCContents
  Plans <- MCPlans
  MAX_QUERY_BYTES = 3
  MAX_QUERY_LITERALS = 2
  MAX_CANDIDATE_FILES = 2
  MAX_DISCOVERY_ENTRIES = 2
  MAX_DISCOVERY_DEPTH = 1
  MAX_BLOCKS = 2
  MAX_SKIPPED = 3
  MAX_LIST_ITEMS = 6
  MAX_CONTEXT_LINES = 0
  MAX_FILE_BYTES = 5
  MAX_TOTAL_BYTES = 10
  MAX_MATCHES = 8
  MAX_VERIFY_SOURCE_BYTES = 40
  MaxWrites = 2
INVARIANTS
  HonestBundleIsNeverRefused
  LoopClosesAtRest
