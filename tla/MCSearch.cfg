SPECIFICATION Spec
CONSTANTS
  Paths <- MCPaths
  SecretPaths <- MCSecret
  Contents <- MCContents
  Plans <- MCPlans
  MAX_QUERY_BYTES = 2
  MAX_QUERY_LITERALS = 2
  MAX_CANDIDATE_FILES = 2
  MAX_DISCOVERY_ENTRIES = 4
  MAX_DISCOVERY_DEPTH = 2
  MaxWrites = 2
CONSTRAINT Scope
INVARIANTS
  TypeOK
  DeterminedByTree
  AcceptedOmitsNothing
  BestOfOneReading
  WorkIsBounded
