SPECIFICATION FairSpec
CONSTANTS
    Workers = {w1, w2}
    Users = {u1}
    MaxTasks = 6
    MaxQueueSize = 2
INVARIANTS NobodyStranded
PROPERTIES ImplementsFunctorQueue PoolProgresses StopEnds
