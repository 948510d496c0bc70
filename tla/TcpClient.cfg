SPECIFICATION FairSpec
CONSTANTS
    Fds = {1, 2, 3}
    kInitRetryDelayMs = 500
    kMaxRetryDelayMs = 1500
    MaxCalls = 4
    Careless = FALSE
INVARIANTS AssertsHold OneOwner
PROPERTIES StopHolds AttemptsConnect
CHECK_DEADLOCK FALSE
