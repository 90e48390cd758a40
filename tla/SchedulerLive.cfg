CONSTANTS
    g1 = g1
    g2 = g2
    g3 = g3
    g4 = g4
    Threads = {g1, g2, g3}
    NumCores = 1
    Workloads <- OneNapper
    parallelThreads = 1
    CleanupPeriod = 2
    schedQuantum = 1
    MaxSleep = 1
    WatchdogRaces = FALSE
SPECIFICATION FairSpec
PROPERTIES
    WaitersRun
    SleepersWake
