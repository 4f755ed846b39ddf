SPECIFICATION FairSpec
CONSTANTS
  Paths <- OnePath
  Contents <- TwoVersions
  Bundles <- OneSource
  MAX_BLOCKS = 2
  MAX_SKIPPED = 1
  MAX_LIST_ITEMS = 3
  MAX_CONTEXT_LINES = 1
  MAX_FILE_BYTES = 6
  MAX_TOTAL_BYTES = 12
  MAX_MATCHES = 4
  MAX_VERIFY_SOURCE_BYTES = 20
  MaxWrites <- NoBound
PROPERTIES
  Termination
