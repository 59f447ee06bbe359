SPECIFICATION Spec
CONSTANTS
    Callers = {tool}
    MaxCalls = 1
INVARIANTS
    FoundIsWhole
CHECK_DEADLOCK FALSE
