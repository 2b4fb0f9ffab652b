SPECIFICATION Spec
CONSTANTS
    Nodes = {n1, n2, n3}
    Data = {d1}
    NULL = NULL
    Garbage = Garbage
    ConsumerStarts = FALSE
SYMMETRY NodeSymmetry
INVARIANT MemorySafe
