SPECIFICATION SdSpec
CONSTANTS
  Cluster = {k1, k2}
  NChild = 2
CHECK_DEADLOCK FALSE
INVARIANT CompleteMeansGone
