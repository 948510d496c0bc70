SPECIFICATION ThreadSpec
CONSTANTS
    LoopThread = L
    Owner = O
    Threads = {L, O}
    Functors = {f1, f2}
    EventfdMax = 2
INVARIANTS OwnerSeesLiveLoop
PROPERTIES StartLoopEnds DtorEndsRunningLoop
CHECK_DEADLOCK FALSE
