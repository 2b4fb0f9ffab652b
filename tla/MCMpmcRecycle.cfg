SPECIFICATION Spec
CONSTANTS
    Producers = {t1, t2}
    Consumers = {t1, t2}
    Askers = {}
    Destroyers = {}
    Nodes = {n1, n2, n3}
    Data = {d1}
    NULL = NULL
    Garbage = Garbage
    Recycle = TRUE
    Versions = 16
    MaxEnqueues = 3
SYMMETRY NodeSymmetry
INVARIANT LinkAppends
