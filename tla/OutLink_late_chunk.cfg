CONSTANTS
  PoolSize = 1
  Connected = TRUE
  NumChunks = 3
  MaxPoints = 0
  MaxReads = 1
SPECIFICATION Spec
CHECK_DEADLOCK FALSE
INVARIANT NoChunkAfterStop
