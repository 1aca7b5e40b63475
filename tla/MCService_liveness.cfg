SPECIFICATION FairSpec
CONSTANTS
    k1 = k1
    k2 = k2
    t1 = t1
    t2 = t2
    Keys = {k1}
    NoKey = NoKey
    Threads = {t1, t2}
    NoThread = NoThread
    NoRecord = NoRecord
    Writable = {k1}
    Offers <- OneOffer
    MaxStarts = 1
CHECK_DEADLOCK FALSE
PROPERTIES
    CallsReturn
    ShutdownEnds
