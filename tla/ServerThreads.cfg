CONSTANTS
  s1 = s1
  s2 = s2
  a1 = a1
  a2 = a2
  c1 = c1
  Timer = Timer
  Nobody = Nobody
  Sockets = {s1, s2}
  Addresses = {a1, a2}
  Conns = {c1}
  PoolSize = 4
  Arrivals <- OneAddressEach
  MaxDatagrams = 2
  MaxMade = 2
  NumChunks = 1
SPECIFICATION Spec
INVARIANTS TypeOK OneLinkPerConnection RouteWasHeard GoneLinkLeftItsStream StatisticsAddUp NobodyWaitsInCircle
PROPERTIES SignalEndsServer
CHECK_DEADLOCK FALSE
