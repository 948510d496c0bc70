SPECIFICATION Spec
CONSTANTS
    Users = {u1}
    LoopOps = {"startRead", "stopRead"}
    CrossOps = {"send", "shutdown", "forceClose", "startRead"}
    KeepsRef = FALSE
    SameLoops = {FALSE}
    ServerDtor = TRUE
    MsgLen = 2
    MaxSends = 2
    HighWater = 3
    MaxQueue = 1
    MaxDowns = 1
INVARIANTS StreamInOrder
CHECK_DEADLOCK FALSE
