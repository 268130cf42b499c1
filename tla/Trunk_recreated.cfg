CONSTANTS
  c1 = c1
  Conns = {c1}
  Talkers = {"client", "server"}
  DeadlineTicks = 1
  DeadTicks = 1
  NumChunks = 0
  MaxCreated = 2
  MaxRestarts = 0
  MaxIndex = 2
  Duplication = FALSE
SPECIFICATION Spec
INVARIANTS OneTargetPerConnection
CHECK_DEADLOCK FALSE
