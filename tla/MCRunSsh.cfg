\* One call, every setup and every set of inherited pipes; the cap takes two
\* reads (2 + 1 bytes), the last of which takes a byte ahead, and a stream may
\* overrun the cap, the reader's buffer, the pipe and more.
SPECIFICATION ReleasingSpec
CONSTANTS
    Cap = 2
    Chunk = 2
    BufSize = 2
    PipeCap = 2
    MarkerLen = 1
    MaxOut = 7
    ExitCodes = {0, 124}
INVARIANTS
    TypeOK
    FaithfulAnswer
    NothingInvented
    MarkedOrFlagged
    NothingLeftBehind
    DrainDiesOnlyIfHeld
    BoundedIntake
    UnreadOnlyPastCap
PROPERTIES
    ImplementsSshCall
    CallEnds
CHECK_DEADLOCK FALSE
