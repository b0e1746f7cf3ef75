\* Every combination of phrases; a call ends when it is answered or refused.
SPECIFICATION Spec
CONSTANTS
    ExitCodes = {0, 1, 124, 127, 255}
    MaxLines = 5
INVARIANTS
    TypeOK
    ShapeAsLocked
    FirstCause
    SamplesFaithful
PROPERTIES
    TextOrStructure
CHECK_DEADLOCK FALSE
