CONSTANTS
  NULL = NULL
  PK = {k1}
  ResultBatchSize = 2
  MessageLength = {0, 1}
  MaxWrites = 2
  MaxOthers = 1
  MaxRuns = 2
  IdleTimeouts = FALSE
  Interrupts = FALSE
  Faults = TRUE
  WriteFaults = FALSE
SPECIFICATION FairSpec
CHECK_DEADLOCK FALSE
INVARIANTS FileCoversScans
PROPERTIES CallerReturns
