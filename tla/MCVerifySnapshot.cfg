SPECIFICATION FreshSpec
CONSTANTS
  Paths <- MCPaths
  Contents <- Cited
  Bundles <- TwoSources
  MAX_BLOCKS = 2
  MAX_SKIPPED = 1
  MAX_LIST_ITEMS = 3
  MAX_CONTEXT_LINES = 1
  MAX_FILE_BYTES = 6
  MAX_TOTAL_BYTES = 12
  MAX_MATCHES = 4
  MAX_VERIFY_SOURCE_BYTES = 40
  MaxWrites = 3
INVARIANTS
  VerifiedIsSnapshot
PROPERTIES
  ImplementsAtomic
