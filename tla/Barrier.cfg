CONSTANTS
    Tids = {c1, c2, c3}
    parallelThreads = 2
    CleanupPeriod = 2
SPECIFICATION FairSpec
INVARIANTS
    RejoinFindsItself
    OneTurnPerPhase
    WakeupsMatch
PROPERTIES
    PhaseComplete
    WaitersRun
