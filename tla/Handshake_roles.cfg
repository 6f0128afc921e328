SPECIFICATION Spec
CONSTANTS
    Counts = {1, 2}
    Timings <- NoStagger
INVARIANTS DifferentRoles
CHECK_DEADLOCK FALSE
