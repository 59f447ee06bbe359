SPECIFICATION FairSpec
CONSTANTS
    QSize = 2
    Producers = {pir, sht20}
    Readers = {daemon, logger}
    NonBlock = {daemon}
    MaxBatch = 2
    MaxSeq = 4
INVARIANTS
    TypeOK
    NewestEventsQueued
    EveryEventAccounted
    OrderedDelivery
    NoLostWakeup
PROPERTIES
    NonemptyQueueServes
    ImplementsStream
