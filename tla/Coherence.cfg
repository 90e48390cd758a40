SPECIFICATION Spec
CONSTANTS
    t1 = t1
    t2 = t2
    d1 = d1
    d2 = d2
    i1 = i1
    p1 = p1
    b0 = b0
    b1 = b1
    last = last
    a = a
    b = b
    Hierarchies <- Trees
    Lines = {a, b}
    Threads = {t1, t2}
INVARIANTS
    SingleWriter
    DirectoryExact
    DirtyKept
    AssertsHold
    NoCircularWait
