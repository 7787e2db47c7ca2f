SPECIFICATION FairSpec
CONSTANTS
    Scenarios <- MCScenarios
    HexVal <- MCHexVal
    NumVal <- MCNumVal
    Scratch = 5
    CgiScratch = 4
    ReqLimit = 60
    RingSize = 6
    MaxRing = 24
    MaxLine = 6
    ReplyLen = 2
CHECK_DEADLOCK FALSE
INVARIANT AsSent
INVARIANT RingFifo
INVARIANT CallbackOnce
PROPERTY Finishes
