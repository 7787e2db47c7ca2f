SPECIFICATION Spec
CONSTANTS
    Files = {f}
    Services = {s}
    Opts = {0}
    Versions = {1, 2}
    Big = {2}
    MaxTime = 2
    MaxWrites = 4
    MaxRestarts = 1
    NONE = NONE
CHECK_DEADLOCK FALSE
INVARIANT StaleIsVisible
INVARIANT Coherent
PROPERTY Converges
