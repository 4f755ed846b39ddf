SPECIFICATION Spec
CONSTANTS
  Queries <- MCQueries
  MAX_QUERY_BYTES = 6
  MAX_QUERY_LITERALS = 2
  MaxCharacters = 6
INVARIANTS
  CoreAdmitsThePlan
  ParsedExactly
