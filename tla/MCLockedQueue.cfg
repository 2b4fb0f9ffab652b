SPECIFICATION FairSpec
CONSTANTS
    Producer = p
    Consumer = c
    Data = {d1, d2}
    NULL = NULL
    MaxLen = 3
INVARIANTS
    TypeOK
    PopIsSafe
PROPERTIES
    IsFifo
    PushReturns
    Delivery
