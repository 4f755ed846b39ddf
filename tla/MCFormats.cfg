SPECIFICATION Spec
CONSTANTS
  MaxBytes = 6
  MaxPlain = 8
  ContextLines = 1
  MaxEdits = 3
INVARIANTS
  RangesAreMaximalRuns
  FoundBlocksVerify
  RankingIsTotal
  VerifiedBlocksShow
  DigestBindsPayload
  IdentifierBindsBlock
CHECK_DEADLOCK FALSE
