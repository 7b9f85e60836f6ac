CONSTANTS
  Rows = 1
  PoolSize = 1
  Commands = {"run", "fetch", "inspect", "source-scan", "source-extract-scan", "target-scan"}
  InitialLoads = {"run"}
  TestingSourceScan = TRUE
SPECIFICATION FairSpec
CHECK_DEADLOCK FALSE
INVARIANTS TypeOK CreationAllOrNothing NoSilentTruncation FetchJoinsItsScans InterruptStopsRun MismatchIsLoud
PROPERTIES CommandEnds
