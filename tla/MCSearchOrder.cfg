SPECIFICATION Spec
CONSTANTS
  Paths <- TwoPaths
  SecretPaths = {}
  Contents <- MCContents
  Plans <- ThePlan
  MAX_QUERY_BYTES = 2
  MAX_QUERY_LITERALS = 2
  MAX_CANDIDATE_FILES = 2
  MAX_DISCOVERY_ENTRIES = 1
  MAX_DISCOVERY_DEPTH = 1
  MaxWrites = 0
INVARIANTS
  WalkOrderNeverShows
