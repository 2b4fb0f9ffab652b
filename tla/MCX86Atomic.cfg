SPECIFICATION Spec
CONSTANTS
    Threads = {t1, t2}
    Half = 2
    Args <- MCArgs
    NoOwner = NoOwner
INVARIANTS
    TypeOK
    NoLostUpdate
PROPERTY IsAtomicObject
