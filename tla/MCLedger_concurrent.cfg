SPECIFICATION Spec
CONSTANTS
    NoTicket = NoTicket
    k1 = k1
    k2 = k2
    s1 = s1
    s2 = s2
    NoSnapshot = NoSnapshot
    NoRecord = NoRecord
    Opener = Opener
    Tickets <- LedgerTickets
    Keys = {k1, k2}
    Snapshots = {s1}
    MaximumAssignments = 2
    CompactionInterval = 1
    MaxEpoch = 1
    MaxRestarts = 1
CHECK_DEADLOCK FALSE
INVARIANTS
    IdleIsDurable
