SPECIFICATION Spec
CONSTANTS
    pir = pir
    sht20 = sht20
    Endpoints <- MCEndpoints
    Pir = pir
    Callers = {daemon, tool}
    Irq = irq
    Free = free
    Cfgs <- MCCfgs
    MaxCalls = 2
    MaxEdges = 2
INVARIANTS
    TypeOK
    SnapshotIsAState
    EventFollowsUpdate
    FlagSaysConfig
    DisableStopsTriggers
SYMMETRY CallerSymmetry
CHECK_DEADLOCK FALSE
