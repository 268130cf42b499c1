CONSTANTS
  PoolSize = 4
  Connected = FALSE
  NumChunks = 3
  MaxPoints = 1
  MaxReads = 1
SPECIFICATION FairSpec
CHECK_DEADLOCK FALSE
PROPERTY FailedConnectIsReported
