SPECIFICATION Spec
CONSTANTS
  Con = {x1, x2, x3}
  HighWat = 3
  LowWat = 2
  FdQuota = 0
  LifeReqs = 0
  MayKill = TRUE
SYMMETRY ConSymmetry
CHECK_DEADLOCK FALSE
INVARIANT NoCrash
