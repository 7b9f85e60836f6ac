SPECIFICATION Spec
CONSTANTS
  Bytes <- MCBytes
  Seeds <- MCSeeds
  Vectors <- MCVectors
INVARIANTS
  MatchesDatabase
  MatchesReference
  TargetHashesAgree
CHECK_DEADLOCK FALSE
