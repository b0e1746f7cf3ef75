\* Three good names and a bad one, lists of up to four, numbers around the limits.
SPECIFICATION Spec
CONSTANTS
    Names = {a, b, c, bad}
    Wellformed = {a, b, c}
    NoHost = NoHost
    HardMax = 3
    DefaultMax = 2
    DefaultPar = 2
    MaxLen = 4
    MaxEnv = 4
INVARIANTS
    TypeOK
    DedupedInOrder
    AllOrNothing
    WithinHardMax
CHECK_DEADLOCK FALSE
