SPECIFICATION FairSpec
CONSTANTS
    Users = {u1}
    LoopOps = {"send", "shutdown", "forceClose", "forceCloseWithDelay"}
    CrossOps = {"send"}
    KeepsRef = TRUE
    SameLoops = {TRUE, FALSE}
    ServerDtor = FALSE
    MsgLen = 2
    MaxSends = 1
    HighWater = 3
    MaxQueue = 2
    MaxDowns = 2
INVARIANTS OutputSound CloseOnce LifetimeSound
PROPERTIES OutputFlows ClosedIsReleased
CHECK_DEADLOCK FALSE
