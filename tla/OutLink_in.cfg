CONSTANTS
  PoolSize = 1
  Connected = TRUE
  NumChunks = 3
  MaxPoints = 0
  MaxReads = 2
SPECIFICATION ClosingPeerSpec
CHECK_DEADLOCK FALSE
INVARIANTS StreamOrder PendingChunksInWindow IdleWriterHasNothingToDo GracefulStopDeliversAll StoppedBeforeClose
PROPERTIES ImplementsOrderedLink LinkEventuallyCloses
