SPECIFICATION Spec
CONSTANTS
    Cap = 1
    Chunk = 2
    BufSize = 2
    PipeCap = 1
    MarkerLen = 2
    MaxOut = 4
    ExitCodes = {0}
PROPERTIES
    TimeoutEndsCall
CHECK_DEADLOCK FALSE
