SPECIFICATION FairSpec
CONSTANTS
  Con = {x1, x2, x3, x4}
  HighWat = 2
  LowWat = 1
  FdQuota = 1
  LifeReqs = 3
  MayKill = TRUE
CHECK_DEADLOCK FALSE
INVARIANT ServiceSafe
PROPERTY GracefulExit
PROPERTY ShutdownExits
