SPECIFICATION DestroyRuns
CONSTANTS
    Producers = {t1, t2}
    Consumers = {t2}
    Askers = {t1}
    Destroyers = {t1}
    Nodes = {n1, n2, n3}
    Data = {d1}
    NULL = NULL
    Garbage = Garbage
    Recycle = FALSE
    Versions = 2
    MaxEnqueues = 3
CHECK_DEADLOCK FALSE
INVARIANTS
    NoLeak
    DestroyTakesAll
PROPERTY DestroyEnds
