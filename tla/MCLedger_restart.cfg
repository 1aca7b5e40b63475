SPECIFICATION Spec
CONSTANTS
    NoTicket = NoTicket
    k1 = k1
    k2 = k2
    s1 = s1
    s2 = s2
    NoSnapshot = NoSnapshot
    NoRecord = NoRecord
    Opener = Opener
    Tickets <- LedgerTickets
    Keys = {k1, k2}
    Snapshots = {s1, s2}
    MaximumAssignments = 1
    CompactionInterval = 3
    MaxEpoch = 2
    MaxRestarts = 2
SYMMETRY Symmetry
CHECK_DEADLOCK FALSE
INVARIANTS
    TypeOK
    AcknowledgedSurvives
    AlwaysLoadable
PROPERTIES
    EpochsAdvance
    RestartFences
    TransferBound
