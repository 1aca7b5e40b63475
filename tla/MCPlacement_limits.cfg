SPECIFICATION Spec
CONSTANTS
    r1 = r1
    r2 = r2
    r3 = r3
    w1 = w1
    w2 = w2
    w3 = w3
    n1 = n1
    n2 = n2
    s1 = s1
    s2 = s2
    s3 = s3
    Requests = {r1, r2, r3}
    Workers = {w1, w2, w3}
    NoWorker = NoWorker
    Tenants = {n1}
    Sandboxes = {s1, s2, s3}
    Submission <- ThreeSandboxes
    ClassOf <- OneClass
    GlobalQueueLimit = 3
    GlobalConcurrencyLimit = 2
    DefaultPolicy <- WidePolicy
    PolicyChoices <- WideOrTight
    Quantum = 0
    HeartbeatTimeout = 2
    LeaseLifetime = 1
    SnapshotInterval = 2
    MaximumStaleness = 2
    MaximumAttempts = 1
    Skew = 0
    Contention <- NoContention
    MaxClock = 1
SYMMETRY WorkerSymmetry
INVARIANTS
    ConcurrencyBounded
PROPERTIES
    TenantShareRespected
