SPECIFICATION FairSpec
CONSTANTS
  Con = {x1, x2, x3}
  NChild = 2
  MaxInc = 2
  QueueMax = 2
  FdQuota = 1
  Lazy = TRUE
  Slow = {x1}
  Refused = {x2}
  Steady = {1}
CHECK_DEADLOCK FALSE
INVARIANT TypeOK
INVARIANT NfdExact
INVARIANT SentToReady
INVARIANT QueueSafe
PROPERTY OneOutcome
PROPERTY CallsEnd
PROPERTY Delivers
