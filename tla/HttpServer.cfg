SPECIFICATION HttpSpec
CONSTANTS
    kCheapPrepend = 2
    kInitialSize = 3
    ExtraBuf = 4
    MaxLines = 5
    MaxPiece = 2
INVARIANTS InputSound CutsDoNotMatter NothingWaits AnswersSound
CHECK_DEADLOCK FALSE
