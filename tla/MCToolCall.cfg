\* Every tool, with up to three optional arguments; a call ends when it is
\* answered or refused.
SPECIFICATION Spec
CONSTANTS
    MaxGiven = 3
    Reach = 6
    MaxBytes = {3, 6, 11, 16}
INVARIANTS
    TypeOK
    GivenIsUsed
    FailureNoticed
    BinaryWhole
CHECK_DEADLOCK FALSE
