SPECIFICATION FairSpec
CONSTANTS
    Clients = {browser}
    MaxPosts = 2
    MaxFrames = 1
    MaxFaults = 0
PROPERTIES
    StreamEndsWithMode
CHECK_DEADLOCK FALSE
