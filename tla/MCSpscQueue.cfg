SPECIFICATION Spec
CONSTANTS
    Nodes = {n1, n2, n3, n4}
    Data = {d1, d2}
    NULL = NULL
    Garbage = Garbage
    ConsumerStarts = TRUE
SYMMETRY NodeSymmetry
INVARIANTS
    TypeOK
    MemorySafe
    HeldIntact
    NoLeak
    LenAccounts
    NonEmptyIsStable
PROPERTY IsFifo
