\* Three calls of one host each on two threads: one waits for a thread.
SPECIFICATION Spec
CONSTANTS
    Calls = {c1, c2, c3}
    NoCall = NoCall
    Slots = 2
    Parallelism = 1
    MaxHosts = 1
INVARIANTS
    TypeOK
    OwnRequestId
    BoundedHandlers
CHECK_DEADLOCK FALSE
