\* Two fan-outs over two hosts each.
SPECIFICATION Spec
CONSTANTS
    Calls = {c1, c2}
    NoCall = NoCall
    Slots = 2
    Parallelism = 2
    MaxHosts = 2
INVARIANTS
    NoHostFailsTheCall
    LoggedTruth
PROPERTIES
    CallsEnd
    HostCallsKept
CHECK_DEADLOCK FALSE
