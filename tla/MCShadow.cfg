CONSTANTS
  NULL = NULL
  PK = {k1}
  SourceSignature = {s1, s2}
  TargetSignature = {t1, t2}
  MaxTargetCount = 2
  MaxChangeRows = 2
  MaxCopies = 2
  Reload = TRUE
SPECIFICATION Spec
SYMMETRY Symmetry
INVARIANTS TypeOK NoZombieError NoLingeringRow MissingRowIsError MetricsPartition
PROPERTIES EachKeyValidated ErrorNeedsHistory ErrorClearsOnChange
