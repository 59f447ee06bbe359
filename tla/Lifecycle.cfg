SPECIFICATION FairSpec
CONSTANTS
    Callers = {daemon, tool}
    MaxCalls = 3
INVARIANTS
    TypeOK
    NothingOutlivesItsMemory
    GivenBackOnce
PROPERTIES
    TearDownEnds
CHECK_DEADLOCK FALSE
