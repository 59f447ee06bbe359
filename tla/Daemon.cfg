SPECIFICATION FairSpec
CONSTANTS
    Clients = {browser}
    MaxPosts = 2
    MaxFrames = 2
    MaxFaults = 3
INVARIANTS
    TypeOK
    CameraHeldOpen
    LoopInOnePiece
    NobodySleepsOnNews
PROPERTIES
    FramesInOrder
    RequestSettles
    ShutdownCompletes
CHECK_DEADLOCK FALSE
