SPECIFICATION Spec
CONSTANTS
    k1 = k1
    k2 = k2
    t1 = t1
    t2 = t2
    Keys = {k1, k2}
    NoKey = NoKey
    Threads = {t1, t2}
    NoThread = NoThread
    NoRecord = NoRecord
    Writable = {k1}
    Offers <- SomeOffers
    MaxStarts = 2
SYMMETRY Symmetry
CHECK_DEADLOCK FALSE
INVARIANTS
    TypeOK
    OneWorkload
    TransferFencesSource
    
    UsedStaysUsed
    TransitionsAccepted
    Settled
PROPERTIES
    ExecutedOnce
