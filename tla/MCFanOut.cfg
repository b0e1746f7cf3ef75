\* Four hosts on two workers: hosts wait, and end in every order.
SPECIFICATION Spec
CONSTANTS
    N = 4
    Parallelism = 2
INVARIANTS
    TypeOK
    OwnSlot
    FailuresCounted
PROPERTIES
    FanOutEnds
    ImplementsHostCalls
CHECK_DEADLOCK FALSE
