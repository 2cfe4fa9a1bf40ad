SPECIFICATION FairSpec
CONSTANTS
    t1 = t1
    t2 = t2
    t3 = t3
    Threads = {t1, t2, t3}
    capacity = 2
    MaxPush <- PushBounds
    MaxThrows = 1
INVARIANTS
    TypeOK
    FifoExactlyOnce
    NoLostWakeup
PROPERTIES
    ImplementsQueue
    WaitersReleased
