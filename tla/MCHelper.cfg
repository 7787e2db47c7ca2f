SPECIFICATION FairSpec
CONSTANTS
  Req = {r1, r2}
  User = user
  Slot = {s1}
  Conn = {c1, c2}
  NoConn = null
  Modes <- MCModes
  MaxCalls = 1
  MaxQlen = 2
  MaxRetries = 1
  MaxTimers = 2
CHECK_DEADLOCK FALSE
INVARIANT CallsSafe
INVARIANT OneAttempt
PROPERTY QueuedIsSent
