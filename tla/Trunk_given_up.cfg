CONSTANTS
  c1 = c1
  Conns = {c1}
  Talkers = {"client", "server"}
  DeadlineTicks = 1
  DeadTicks = 2
  NumChunks = 1
  MaxCreated = 1
  MaxRestarts = 0
  MaxIndex = 3
  Duplication = FALSE
SPECIFICATION Spec
INVARIANTS ResentUntilReceived
CHECK_DEADLOCK FALSE
