\* README.md: a failed command short of privilege is marked.
SPECIFICATION Spec
CONSTANTS
    MaxGiven = 1
    Reach = 2
    MaxBytes = {6}
INVARIANTS
    PrivilegeNoticed
CHECK_DEADLOCK FALSE
