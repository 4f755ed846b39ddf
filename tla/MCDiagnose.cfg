SPECIFICATION Spec
CONSTANTS
  Paths <- FourPaths
  Unnamed <- FourthOnly
  Contents <- MCContents
  max_candidate_files = 3
  max_file_bytes = 3
  max_total_bytes = 5
  MaxWrites = 2
CONSTRAINT Scope
INVARIANTS
  TypeOK
  QuietTreeIsDiagnosed
  NothingIsSkipped
  ReadsAreBounded
  FindingsFollowCorpus
