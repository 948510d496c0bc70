SPECIFICATION Spec
CONSTANTS
    MaxConns = 3
    NumCtxs = 2
    Fds = {1, 2}
    Lengths = {0, 1, 4}
    MaxFrames = 2
INVARIANTS CtxSound FramesIntact EchoIntact EventsArmed
CHECK_DEADLOCK FALSE
