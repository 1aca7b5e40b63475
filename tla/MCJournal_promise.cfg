SPECIFICATION FairSpec
CONSTANTS
    NoTicket = NoTicket
    t1 = t1
    t2 = t2
    a = a
    b = b
    Opener = Opener
    Garbage = Garbage
    Tickets = {Opener, t1, t2}
    Records = {a, b}
    Replacements <- Shortened
    MaxBatch = 2
    MaxCommands = 5
CHECK_DEADLOCK FALSE
INVARIANTS
    TypeOK
    NeverGarbled
PROPERTIES
    KeepsPromise
    Answered
