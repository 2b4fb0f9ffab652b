SPECIFICATION Spec
CONSTANTS
    Nodes = {n1, n2, n3}
    Data = {d1}
    NULL = NULL
    Garbage = Garbage
    ConsumerStarts = TRUE
PROPERTIES
    EnqueueReturns
    DequeueReturns
    Delivery
    DestroyEnds
