SPECIFICATION Spec
CONSTANTS
    Clients = {}
    MaxPosts = 1
    MaxFrames = 0
    MaxFaults = 1
INVARIANTS
    NoDescriptorLost
CHECK_DEADLOCK FALSE
