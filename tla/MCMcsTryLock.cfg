SPECIFICATION Spec
CONSTANTS
    Threads = {t1, t2}
    TryThreads = {t1, t2}
    Zeroed = FALSE
    NULL = NULL
    Garbage = Garbage
SYMMETRY ThreadSymmetry
INVARIANT PassesToWaiter
