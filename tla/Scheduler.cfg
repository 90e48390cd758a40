CONSTANTS
    g1 = g1
    g2 = g2
    g3 = g3
    g4 = g4
    Threads = {g1, g2, g3, g4}
    NumCores = 2
    Workloads <- AllWorkloads
    parallelThreads = 2
    CleanupPeriod = 2
    schedQuantum = 1
    MaxSleep = 2
    WatchdogRaces = FALSE
SPECIFICATION Spec
INVARIANTS
    QueuesMatch
    WorkConserving
    BarrierMatches
    HandoffsPrompt
    SleepersOnTime
