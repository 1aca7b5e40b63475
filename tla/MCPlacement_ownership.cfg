SPECIFICATION Spec
CONSTANTS
    r1 = r1
    r2 = r2
    r3 = r3
    w1 = w1
    w2 = w2
    w3 = w3
    n1 = n1
    n2 = n2
    s1 = s1
    s2 = s2
    s3 = s3
    Requests = {r1, r2, r3}
    Workers = {w1, w2}
    NoWorker = NoWorker
    Tenants = {n1, n2}
    Sandboxes = {s1, s2}
    Submission <- SchedulingSubmission
    ClassOf <- OneClass
    GlobalQueueLimit = 2
    GlobalConcurrencyLimit = 2
    DefaultPolicy <- LoosePolicy
    PolicyChoices <- NoChoice
    Quantum = 2
    HeartbeatTimeout = 2
    LeaseLifetime = 2
    SnapshotInterval = 2
    MaximumStaleness = 2
    MaximumAttempts = 1
    Skew = 1
    Contention <- AnyRowLocked
    MaxClock = 2
SYMMETRY WorkerSymmetry
INVARIANTS
    TypeOK
    SingleOwner
    TokenSpentOnce
    EpochFencing
    SupersededNeverRouted
PROPERTIES
    PublicationStable
