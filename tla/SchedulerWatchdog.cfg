CONSTANTS
    g1 = g1
    g2 = g2
    g3 = g3
    g4 = g4
    Threads = {g1, g2, g3, g4}
    NumCores = 2
    Workloads <- FakeOnly
    parallelThreads = 2
    CleanupPeriod = 2
    schedQuantum = 1
    MaxSleep = 0
    WatchdogRaces = TRUE
SPECIFICATION Spec
INVARIANT JoinsFromOutside
