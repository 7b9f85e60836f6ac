CONSTANTS
  NULL = NULL
  PK = {k1}
  SourceSignature = {v1, v2}
  TargetSignature = {v1, v2}
  MaxTargetCount = 2
  MaxChangeRows = 1
  MaxCopies = 1
  Reload = FALSE
  MaxBacklog = 1
  AtomicFetch = TRUE
  Behind = "anything"
  Reuse = TRUE
  PipelineFaults = TRUE
  FailedRuns = FALSE
SPECIFICATION SeatbeltSpec
SYMMETRY Symmetry
INVARIANTS SettledMismatchIsError ValidIsReplicated
