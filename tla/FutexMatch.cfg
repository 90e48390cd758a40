CONSTANTS
    Threads = {t1, t2, t3}
    WakeSizes = {1, 2}
    MaxLost = 1

SPECIFICATION FairSpec
INVARIANT MatchExact
PROPERTY WakersReturn
