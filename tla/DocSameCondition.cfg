\* privilege_error against error_kind (SPEC.md).
SPECIFICATION Spec
CONSTANTS
    ExitCodes = {0, 1, 124, 127, 255}
    MaxLines = 1
INVARIANTS
    SameCondition
CHECK_DEADLOCK FALSE
