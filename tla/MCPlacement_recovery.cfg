SPECIFICATION Spec
CONSTANTS
    r1 = r1
    r2 = r2
    r3 = r3
    w1 = w1
    w2 = w2
    w3 = w3
    n1 = n1
    n2 = n2
    s1 = s1
    s2 = s2
    s3 = s3
    Requests = {r1}
    Workers = {w1, w2, w3}
    NoWorker = NoWorker
    Tenants = {n1}
    Sandboxes = {s1}
    Submission <- RecoverySubmission
    ClassOf <- OneClass
    GlobalQueueLimit = 2
    GlobalConcurrencyLimit = 2
    DefaultPolicy <- LoosePolicy
    PolicyChoices <- NoChoice
    Quantum = 1
    HeartbeatTimeout = 3
    LeaseLifetime = 2
    SnapshotInterval = 1
    MaximumStaleness = 2
    MaximumAttempts = 2
    Skew = 0
    Contention <- NoContention
    MaxClock = 4
SYMMETRY WorkerSymmetry
INVARIANTS
    RecoveryAfterFence
    AttemptsBounded
    RecoveryInvariant
