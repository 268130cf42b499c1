CONSTANTS
  PoolSize = 4
  Connected = FALSE
  NumChunks = 3
  MaxPoints = 2
  MaxReads = 2
SPECIFICATION Spec
CHECK_DEADLOCK FALSE
INVARIANTS TypeOK StreamOrder PendingChunksInWindow IdleWriterHasNothingToDo GracefulStopDeliversAll
PROPERTY ImplementsOrderedLink
