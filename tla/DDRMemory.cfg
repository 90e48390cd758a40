SPECIFICATION FairSpec
CONSTANTS
    sysFreqKHz = 5
    memFreqKHz = 2
    ranksPerChannel = 2
    banksPerRank = 2
    linesPerRow = 2
    rowHitLimit = 1
    windowSize = 3
    tBL = 2
    tCL = 2
    tRCD = 2
    tRTP = 1
    tRP = 2
    tRRD = 1
    tRAS = 4
    tFAW = 9
    tWTR = 1
    tWR = 3
    tRFC = 4
    Workloads <- MCWorkloads
INVARIANTS SchedulerAwake NeverLate CommandsLegal
PROPERTIES FRFCFS Drains
CHECK_DEADLOCK FALSE
