SPECIFICATION FairSpec
CONSTANTS
    Threads = {t1, t2, t3}
    TryThreads = {}
    Zeroed = FALSE
    NULL = NULL
    Garbage = Garbage
PROPERTIES
    LockAcquired
    UnlockReturns
