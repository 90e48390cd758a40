CONSTANTS
    Threads = {t1, t2, t3, t4}
    NoOne = NoOne
SPECIFICATION FairSpec
INVARIANTS
    NoLostWakeup
PROPERTIES
    ImplementsLock
    LockTaken
