SPECIFICATION Spec
CONSTANTS
    Threads = {t1, t2, t3, t4}
    TryThreads = {t1, t2, t3, t4}
    Zeroed = TRUE
    NULL = NULL
    Garbage = Garbage
SYMMETRY ThreadSymmetry
INVARIANTS
    TypeOK
    MutualExclusion
    PassesToWaiter
    StackNodesLive
    LockedIsTrue
PROPERTY IsFifoLock
