CONSTANTS
  c1 = c1
  Conns = {c1}
  Talkers = {"client"}
  DeadlineTicks = 1
  DeadTicks = 1
  NumChunks = 2
  MaxCreated = 2
  MaxRestarts = 1
  MaxIndex = 2
  Duplication = FALSE
SPECIFICATION FairSpec
PROPERTIES HalfOpenIsStopped ImplementsPipe LinkNeverRewinds
CHECK_DEADLOCK FALSE
