SPECIFICATION FairSpec
CONSTANTS
    LoopThread = L
    Threads = {L, t1, t2}
    Functors = {f1, f2, f3}
    EventfdMax = 2
INVARIANTS NoLostWakeup NoLostQuit NothingLostOrReordered
PROPERTIES ImplementsFunctorQueue QueuedFunctorsRun QuitEndsLoop
