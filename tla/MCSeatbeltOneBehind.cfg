CONSTANTS
  NULL = NULL
  PK = {k1}
  SourceSignature = {v1, v2, v3, v4}
  TargetSignature = {v1, v2, v3, v4}
  MaxTargetCount = 1
  MaxChangeRows = 1
  MaxCopies = 1
  Reload = FALSE
  MaxBacklog = 3
  AtomicFetch = TRUE
  Behind = "one-run"
  Reuse = FALSE
  PipelineFaults = FALSE
  FailedRuns = FALSE
SPECIFICATION SeatbeltSpec
SYMMETRY Symmetry
INVARIANTS SeatbeltTypeOK NoFalseErrors
