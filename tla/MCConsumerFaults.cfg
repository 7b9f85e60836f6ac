CONSTANTS
  NULL = NULL
  PK = {k1, k2}
  ResultBatchSize = 2
  MessageLength = {0, 1}
  MaxWrites = 3
  MaxOthers = 0
  MaxRuns = 1
  IdleTimeouts = TRUE
  Interrupts = TRUE
  Faults = TRUE
  WriteFaults = TRUE
SPECIFICATION Spec
CHECK_DEADLOCK FALSE
SYMMETRY Symmetry
INVARIANTS TypeOK ChannelsSafe BatchHasOneWriter SuccessCoversAck ReturnedFileIsOpen
PROPERTIES ImplementsFeed
