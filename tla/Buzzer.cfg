SPECIFICATION FairSpec
CONSTANTS
    Callers = {daemon}
    Work = work
    PwmMayFail = TRUE
    MaxCalls = 5
INVARIANTS
    TypeOK
    StateIsTruth
    LastEventIsTruth
    DisabledIsSilent
PROPERTIES
    EveryToneEnds
CHECK_DEADLOCK FALSE
