SPECIFICATION FairSpec
CONSTANTS
    NumThreads = 2
    MaxConns = 5
    NumCtxs = 3
    ReadMax = 2
    PipeMax = 2
INVARIANTS DispatchSound
PROPERTIES OldestIsServed
