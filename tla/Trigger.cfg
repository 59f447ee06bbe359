SPECIFICATION FairSpec
CONSTANTS
    QSize = 2
    Batch = 2
    Bufs = 2
    Skip = 2
    MaxMotion = 2
    MaxPosts = 1
    MaxFaults = 1
    MaxSteals = 1
    MaxSeconds = 1
INVARIANTS
    TypeOK
    EveryTriggerHasOneFate
    PicturesAreFresh
    
    LogNotOlder
PROPERTIES
    TriggersAnswered
    StatusCatchesUp
