CONSTANTS
    Callers = {c1, c2}
    Restarts = FALSE
SPECIFICATION StateSpec
INVARIANT DroppedIsKnown
CHECK_DEADLOCK FALSE
