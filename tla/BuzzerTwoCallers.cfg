SPECIFICATION FairSpec
CONSTANTS
    Callers = {daemon, tool}
    Work = work
    PwmMayFail = FALSE
    MaxCalls = 3
INVARIANTS
    ToneWillEnd
CHECK_DEADLOCK FALSE
