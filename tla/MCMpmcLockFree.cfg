SPECIFICATION OneRunner
CONSTANTS
    t1 = t1
    Producers = {t1, t2}
    Consumers = {t1, t2}
    Askers = {}
    Destroyers = {}
    Nodes = {n1, n2, n3}
    Data = {d1}
    NULL = NULL
    Garbage = Garbage
    Recycle = FALSE
    Versions = 1
    MaxEnqueues = 2
INVARIANT LockFree
PROPERTY RunnerReturns
