CONSTANTS
  Ids = {1, 2, 5}
  Ports = {1, 8, 9}
  IdBound = 4
  PortBound = 8
  MaxArgs = 3
  MaxPorts = 2
SPECIFICATION Spec
INVARIANTS ExitTellsWhy OptionsAsWritten ServerHasItsSockets
CHECK_DEADLOCK FALSE
