CONSTANTS
  c1 = c1
  Conns = {c1}
  Talkers = {"client", "server"}
  DeadlineTicks = 1
  DeadTicks = 1
  NumChunks = 2
  MaxCreated = 1
  MaxRestarts = 0
  MaxIndex = 4
  Duplication = TRUE
SPECIFICATION Spec
INVARIANTS TypeOK NoChunkCutOff
PROPERTIES ImplementsPipe
CHECK_DEADLOCK FALSE
