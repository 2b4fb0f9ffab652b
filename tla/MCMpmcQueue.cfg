SPECIFICATION Spec
CONSTANTS
    Producers = {t1, t2}
    Consumers = {t2, t3}
    Askers = {t3}
    Destroyers = {}
    Nodes = {n1, n2, n3}
    Data = {d1, d2}
    NULL = NULL
    Garbage = Garbage
    Recycle = FALSE
    Versions = 1
    MaxEnqueues = 2
SYMMETRY NodeSymmetry
INVARIANTS
    TypeOK
    LinkAppends
    TailIsLinked
    StaleReadsAreHarmless
    NoLeak
    LenAccounts
    EmptyIsTrueUntilFreed
PROPERTY IsFifo
