SPECIFICATION FairSpec
CONSTANTS
  Pid = {p1, p2, p3}
  NoPid = none
  Poke = {k1, k2}
  Startup = startup
  CrashesMax = 6
  Modes <- MCModes
CHECK_DEADLOCK FALSE
INVARIANT LaunchSafe
PROPERTY NoLaunchInShutdown
PROPERTY PokeAnswered
PROPERTY CrashLoopEnds
