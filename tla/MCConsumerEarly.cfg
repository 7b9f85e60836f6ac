CONSTANTS
  NULL = NULL
  PK = {k1}
  ResultBatchSize = 2
  MessageLength = {0, 1}
  MaxWrites = 1
  MaxOthers = 1
  MaxRuns = 1
  IdleTimeouts = TRUE
  Interrupts = FALSE
  Faults = FALSE
  WriteFaults = FALSE
SPECIFICATION Spec
CHECK_DEADLOCK FALSE
INVARIANTS ReachedMeansReached
