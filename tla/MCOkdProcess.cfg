SPECIFICATION ProcFairSpec
CONSTANTS
  Con = {x1, x2, x3}
  Ssl = {s1}
  HighWat = 2
  LowWat = 1
  MaxReqno = 1
  Cluster = {k1}
  NChild = 2
CHECK_DEADLOCK FALSE
INVARIANT PortsGuarded
 
PROPERTY HighWatStops
PROPERTY Reopens
PROPERTY ShutdownEnds
