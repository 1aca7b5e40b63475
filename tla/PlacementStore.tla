--------------------------- MODULE PlacementStore ---------------------------
(***************************************************************************)
(* The durable placement repository, crates/sandbox-placement/src/         *)
(* postgres.rs: queue, worker tokens, leases, assignment epochs, recovery  *)
(* checkpoints and fences, shared by every gateway replica and by the      *)
(* autoscaler.                                                             *)
(*                                                                         *)
(* One action is one committed transaction.  The advisory QUEUE_LOCK or    *)
(* the row locks each transaction takes make it atomic; a transaction that *)
(* returns an error rolls back, and one that finds its answer already      *)
(* stored writes nothing, so both are stuttering steps and have no action. *)
(* quarantine_worker is two transactions and two actions.                  *)
(*                                                                         *)
(* Time is a global clock.  A caller reads now_unix_ms before it queues    *)
(* for the connection mutex and the locks, so a transaction runs with any  *)
(* t of the last Skew ticks.  NULL columns are NoWorker, NoSnapshot, or 0. *)
(***************************************************************************)
EXTENDS Integers, FiniteSets

CONSTANTS
    Requests,               \* the (tenant, idempotency key) pairs clients use
    Workers,                \* worker identities, one per Pod UID
    NoWorker,
    Tenants,
    Sandboxes,              \* (tenant, workspace, sandbox) identities
    Submission,             \* what the client submits under each request key
    ClassOf,                \* pool, topology, shape and cohort of a worker
    GlobalQueueLimit, GlobalConcurrencyLimit,
    DefaultPolicy,          \* limits and weight a new tenant row starts with
    PolicyChoices,          \* what an operator may set them to later
    Quantum,                \* 10_000 in the code
    HeartbeatTimeout, LeaseLifetime,
    SnapshotInterval, MaximumStaleness, MaximumAttempts,
    Skew,                   \* how late a transaction may use the time it read
    Contention,             \* the row sets SKIP LOCKED may have to skip
    MaxClock                \* bound on the modelled time

Kinds == {"run", "create", "restore"}

\* What set_tenant_policy accepts.
TenantPolicies ==
    [weight : 1..100, concurrencyLimit : Nat \ {0}, queueLimit : 1..GlobalQueueLimit]

Submissions ==
    [tenant : Tenants, sandbox : Sandboxes, class : {ClassOf[w] : w \in Workers},
     kind : Kinds, recoverable : BOOLEAN, deadline : Nat]

ASSUME IdentityAssumption ==
    /\ NoWorker \notin Workers
    /\ Submission \in [Requests -> Submissions]
    /\ \A r, q \in Requests :
          Submission[r].sandbox = Submission[q].sandbox
             => Submission[r].tenant = Submission[q].tenant
    /\ \A r \in Requests :
          Submission[r].recoverable => Submission[r].kind \in {"create", "restore"}

ASSUME LimitAssumption ==
    /\ GlobalQueueLimit \in Nat \ {0}
    /\ GlobalConcurrencyLimit \in Nat \ {0}
    /\ Quantum \in Nat
    /\ DefaultPolicy \in TenantPolicies
    /\ PolicyChoices \subseteq TenantPolicies
    /\ Contention \subseteq SUBSET Requests

ASSUME TimeAssumption ==
    /\ HeartbeatTimeout \in Nat \ {0}
    /\ LeaseLifetime \in Nat \ {0}
    /\ SnapshotInterval \in Nat \ {0}
    /\ MaximumStaleness \in Nat
    /\ MaximumStaleness >= SnapshotInterval
    /\ MaximumAttempts \in Nat \ {0}
    /\ Skew \in Nat
    /\ Skew < SnapshotInterval
    /\ MaxClock \in Nat

VARIABLES
    requests,       \* the requests table: one row per request key
    workers,        \* the workers table
    tenants,        \* the tenant_policy table
    epochs,         \* the assignment_epochs table
    virtualTime,    \* the queue_clock singleton
    clock,
    issued,         \* every Assignment a replica has been handed, kept for ever:
                    \* its answer may come late, twice or not at all
    claims,         \* every CheckpointAssignment a replica has been handed
    confirmed       \* history: <<request, worker>> fences the controller confirmed

vars == <<requests, workers, tenants, epochs, virtualTime, clock,
          issued, claims, confirmed>>

-----------------------------------------------------------------------------
(* Row types.                                                              *)

RequestStates == {"absent", "queued", "assigned", "serving", "recovering",
                  "completed", "recovery_failed", "cancelled", "expired"}
ActiveStates == {"assigned", "serving"}
TerminalStates == {"completed", "recovery_failed", "cancelled", "expired"}

\* Mutant: the conflict query forgets services that already run.
ServingNotLive == {"queued", "assigned", "recovering", "completed"}

\* Mutant: the conflict query frees the sandbox once its run has completed.
CompletedNotLive == {"queued", "assigned", "serving", "recovering"}

\* The predicate of the live-sandbox unique index and of the conflict query.
LiveStates == {"queued", "assigned", "serving", "recovering", "completed"}

WorkerStates == {"absent", "clean", "leased", "draining", "quarantined", "consumed"}

\* The snapshot identity "recovery-{epoch}-{now}".
Snapshots == [epoch : Nat, at : Nat]
NoSnapshot == [epoch |-> 0, at |-> 0]

\* The stored operation; fencedSource is also the recovery_source_epoch column.
Operations == [kind : Kinds, snapshot : Snapshots, fencedSource : Nat]

Digests == {"none", "ok", "failed"}

Rows == [state : RequestStates, worker : Workers \cup {NoWorker}, epoch : Nat,
         lease : Nat, fairFinish : Nat, op : Operations, digest : Digests,
         latest : Snapshots, latestAt : Nat, pending : Snapshots, due : Nat,
         attempts : Nat, fenceWorker : Workers \cup {NoWorker},
         fenceConfirmed : BOOLEAN]

Assignments == [request : Requests, worker : Workers, epoch : Nat, op : Operations]
Checkpoints == [request : Requests, worker : Workers, epoch : Nat, snapshot : Snapshots]

TypeOK ==
    /\ requests \in [Requests -> Rows]
    /\ workers \in [Workers -> [state : WorkerStates, heartbeat : Nat]]
    /\ tenants \in [Tenants -> [policy : TenantPolicies, virtualFinish : Nat]]
    /\ epochs \in [Sandboxes -> Nat]
    /\ virtualTime \in Nat
    /\ clock \in Nat
    /\ issued \subseteq Assignments
    /\ claims \subseteq Checkpoints
    /\ confirmed \subseteq Requests \X Workers

EmptyRow(r) ==
    [state |-> "absent", worker |-> NoWorker, epoch |-> 0, lease |-> 0,
     fairFinish |-> 0,
     op |-> [kind |-> Submission[r].kind, snapshot |-> NoSnapshot, fencedSource |-> 0],
     digest |-> "none", latest |-> NoSnapshot, latestAt |-> 0,
     pending |-> NoSnapshot, due |-> 0, attempts |-> 0,
     fenceWorker |-> NoWorker, fenceConfirmed |-> FALSE]

\* ensure_tenant inserts a default row on a tenant's first use; starting with
\* that row is the same, since nothing reads it before.
Init ==
    /\ requests = [r \in Requests |-> EmptyRow(r)]
    /\ workers = [w \in Workers |-> [state |-> "absent", heartbeat |-> 0]]
    /\ tenants = [n \in Tenants |-> [policy |-> DefaultPolicy, virtualFinish |-> 0]]
    /\ epochs = [s \in Sandboxes |-> 0]
    /\ virtualTime = 0
    /\ clock = 0
    /\ issued = {}
    /\ claims = {}
    /\ confirmed = {}

-----------------------------------------------------------------------------
(* Helpers shared by the transactions.                                     *)

\* The times a transaction that runs now may have been called with.
Lagging == {t \in (clock - Skew)..clock : t >= 0}

MaxOf(a, b) == IF a >= b THEN a ELSE b
MinOf(a, b) == IF a <= b THEN a ELSE b

\* Mutant: only queued rows expire.
ExpireOnlyQueued(rows, t) ==
    [r \in Requests |->
        IF rows[r].state = "queued" /\ Submission[r].deadline <= t
        THEN [rows[r] EXCEPT !.state = "expired"]
        ELSE rows[r]]

\* expire_queued, run at the head of most transactions.
ExpireQueued(rows, t) ==
    [r \in Requests |->
        IF rows[r].state \in {"queued", "recovering"} /\ Submission[r].deadline <= t
        THEN [rows[r] EXCEPT !.state = "expired"]
        ELSE rows[r]]

InStates(rows, states) == {r \in Requests : rows[r].state \in states}

OfTenant(n) == {r \in Requests : Submission[r].tenant = n}

FreshHeartbeat(w, t) == workers[w].heartbeat > t - HeartbeatTimeout

\* Mutant: a recovering row need not wait for its fence.
AssignableUnfenced(row) == row.state \in {"queued", "recovering"}

\* The WHERE clause that lets a row leave the queue.
Assignable(row) ==
    \/ row.state = "queued"
    \/ row.state = "recovering" /\ row.fenceConfirmed

\* Mutant: off by one.
WithinGlobalLimit(rows) ==
    Cardinality(InStates(rows, ActiveStates)) <= GlobalConcurrencyLimit

BelowGlobalLimit(rows) ==
    Cardinality(InStates(rows, ActiveStates)) < GlobalConcurrencyLimit

\* Mutant: services that run are not counted.
BelowTenantLimitUnserved(rows, n) ==
    Cardinality(InStates(rows, {"assigned"}) \cap OfTenant(n))
        < tenants[n].policy.concurrencyLimit

BelowTenantLimit(rows, n) ==
    Cardinality(InStates(rows, ActiveStates) \cap OfTenant(n))
        < tenants[n].policy.concurrencyLimit

\* The rows assign_next may pick for w: exact class, deadline ahead, tenant
\* below its concurrency limit.
Candidates(rows, w, t) ==
    {r \in Requests :
        /\ Assignable(rows[r])
        /\ Submission[r].deadline > t
        /\ Submission[r].class = ClassOf[w]
        /\ BelowTenantLimit(rows, Submission[r].tenant)}

\* Lowest fair_finish first.  The tie-break (creation time, then request id)
\* is left open.
First(rows, S) == {r \in S : \A q \in S : rows[r].fairFinish <= rows[q].fairFinish}

\* Does the assignment handle still name the owner of its request?
Holds(a, row, t) ==
    /\ row.worker = a.worker
    /\ row.epoch = a.epoch
    /\ row.lease > t

-----------------------------------------------------------------------------
(* Queue and worker tokens.                                                *)

\* Mutant: only a sandbox that runs is taken.
SandboxIdle(rows, s) == \A q \in InStates(rows, ActiveStates) : Submission[q].sandbox # s

\* The conflict query of enqueue.
SandboxFree(rows, s) == \A q \in InStates(rows, LiveStates) : Submission[q].sandbox # s

Enqueue(r, t) ==
    LET sub == Submission[r]
        rows == ExpireQueued(requests, t)
        tenant == tenants[sub.tenant]
        finish == MaxOf(tenant.virtualFinish, virtualTime)
                     + (Quantum \div tenant.policy.weight)
    IN  /\ sub.deadline > t
        /\ requests[r].state = "absent"
        /\ Cardinality(InStates(rows, {"queued"})) < GlobalQueueLimit
        /\ Cardinality(InStates(rows, {"queued"}) \cap OfTenant(sub.tenant))
              < tenant.policy.queueLimit
        /\ SandboxFree(rows, sub.sandbox)
        /\ requests' = [rows EXCEPT ![r] =
              [@ EXCEPT !.state = "queued", !.fairFinish = finish]]
        /\ tenants' = [tenants EXCEPT ![sub.tenant].virtualFinish = finish]
        /\ UNCHANGED <<workers, epochs, virtualTime, clock, issued, claims, confirmed>>

SetTenantPolicy(n, p) ==
    /\ tenants' = [tenants EXCEPT ![n].policy = p]
    /\ UNCHANGED <<requests, workers, epochs, virtualTime, clock, issued, claims, confirmed>>

\* Mutant: the upsert has no WHERE clause.
RegisterAnyWorker(w, t) ==
    /\ workers' = [workers EXCEPT ![w] = [state |-> "clean", heartbeat |-> t]]
    /\ UNCHANGED <<requests, tenants, epochs, virtualTime, clock, issued, claims, confirmed>>

\* The state a registration finds: no row, or a clean one (the upsert's WHERE).
RegisterWorker(w, t) ==
    /\ workers[w].state \in {"absent", "clean"}
    /\ workers' = [workers EXCEPT ![w] = [state |-> "clean", heartbeat |-> t]]
    /\ UNCHANGED <<requests, tenants, epochs, virtualTime, clock, issued, claims, confirmed>>

\* Mutant: a heartbeat revives a lapsed lease.
HeartbeatRevives(w, t) ==
    /\ workers[w].state \in {"clean", "leased", "draining"}
    /\ workers' = [workers EXCEPT ![w].heartbeat = t]
    /\ requests' = [r \in Requests |->
          IF requests[r].worker = w /\ requests[r].state = "serving"
          THEN [requests[r] EXCEPT !.lease = t + LeaseLifetime]
          ELSE requests[r]]
    /\ UNCHANGED <<tenants, epochs, virtualTime, clock, issued, claims, confirmed>>

\* A heartbeat also extends the unexpired lease of what the worker serves.
HeartbeatWorker(w, t) ==
    /\ workers[w].state \in {"clean", "leased", "draining"}
    /\ workers' = [workers EXCEPT ![w].heartbeat = t]
    /\ requests' = [r \in Requests |->
          IF /\ requests[r].worker = w
             /\ requests[r].state = "serving"
             /\ requests[r].lease > t
          THEN [requests[r] EXCEPT !.lease = t + LeaseLifetime]
          ELSE requests[r]]
    /\ UNCHANGED <<tenants, epochs, virtualTime, clock, issued, claims, confirmed>>

DrainWorker(w) ==
    /\ workers[w].state \in {"clean", "leased", "draining"}
    /\ workers' = [workers EXCEPT ![w].state = "draining"]
    /\ UNCHANGED <<requests, tenants, epochs, virtualTime, clock, issued, claims, confirmed>>

\* All or nothing: one worker that is no longer clean leaves the set alone.
DrainWorkersIfClean(S) ==
    /\ S # {}
    /\ \A w \in S : workers[w].state = "clean"
    /\ workers' = [w \in Workers |->
          IF w \in S THEN [workers[w] EXCEPT !.state = "draining"] ELSE workers[w]]
    /\ UNCHANGED <<requests, tenants, epochs, virtualTime, clock, issued, claims, confirmed>>

-----------------------------------------------------------------------------
(* Assignment.                                                             *)

\* assign_next hands the clean worker w to the first candidate no concurrent
\* transaction has locked.
AssignNext(w, t) ==
    LET rows == ExpireQueued(requests, t) IN
    /\ workers[w].state = "clean"
    /\ FreshHeartbeat(w, t)
    /\ BelowGlobalLimit(rows)
    /\ \E locked \in Contention : \E r \in First(rows, Candidates(rows, w, t) \ locked) :
          LET s == Submission[r].sandbox
              epoch == epochs[s] + 1
          IN  /\ epochs' = [epochs EXCEPT ![s] = epoch]
              /\ requests' = [rows EXCEPT ![r] =
                    [@ EXCEPT !.state = "assigned", !.worker = w, !.epoch = epoch,
                              !.lease = t + LeaseLifetime]]
              /\ virtualTime' = MaxOf(virtualTime, rows[r].fairFinish)
              /\ workers' = [workers EXCEPT ![w].state = "leased"]
              /\ issued' = issued \cup
                    {[request |-> r, worker |-> w, epoch |-> epoch, op |-> rows[r].op]}
    /\ UNCHANGED <<tenants, clock, claims, confirmed>>

\* assign_next answering None still commits its expirations.
AssignNone(w, t) ==
    LET rows == ExpireQueued(requests, t) IN
    /\ workers[w].state = "clean"
    /\ FreshHeartbeat(w, t)
    /\ \/ ~BelowGlobalLimit(rows)
       \/ \E locked \in Contention : Candidates(rows, w, t) \ locked = {}
    /\ requests' = rows
    /\ UNCHANGED <<workers, tenants, epochs, virtualTime, clock, issued, claims, confirmed>>

Renew(a, t) ==
    /\ requests[a.request].state = "assigned"
    /\ Holds(a, requests[a.request], t)
    /\ requests' = [requests EXCEPT ![a.request] =
          [@ EXCEPT !.lease = t + LeaseLifetime]]
    /\ UNCHANGED <<workers, tenants, epochs, virtualTime, clock, issued, claims, confirmed>>

\* A successful create or restore goes on serving.
Serves(a, ok) == ok /\ a.op.kind \in {"create", "restore"}

\* The row complete_inner writes; any answer but a service start is terminal.
\* attempts > 0 stands for recovery_started_unix_ms IS NOT NULL: both are first
\* set together.
Published(a, row, ok, t) ==
    IF Serves(a, ok)
    THEN [row EXCEPT !.state = "serving", !.digest = "ok", !.lease = t + LeaseLifetime,
                     !.due = IF Submission[a.request].recoverable
                             THEN t + SnapshotInterval ELSE 0]
    ELSE [row EXCEPT !.state = IF row.attempts > 0 THEN "recovery_failed" ELSE "completed",
                     !.digest = IF ok THEN "ok" ELSE "failed", !.due = 0]

CompleteResponse(a, ok, t) ==
    LET row == requests[a.request] IN
    /\ row.state = "assigned"
    /\ Holds(a, row, t)
    /\ requests' = [requests EXCEPT ![a.request] = Published(a, row, ok, t)]
    /\ workers' = IF Serves(a, ok) THEN workers
                  ELSE [workers EXCEPT ![a.worker].state = "consumed"]
    /\ UNCHANGED <<tenants, epochs, virtualTime, clock, issued, claims, confirmed>>

\* Mutants: cancel forgets the worker, or writes the state of the request to it.
CancelKeepsWorker(worker) == worker
CancelConfusesRows(worker) ==
    IF worker.state = "leased" THEN [worker EXCEPT !.state = "cancelled"] ELSE worker

\* What cancel writes to the worker of the cancelled row.
CancelledWorker(worker) ==
    IF worker.state = "leased" THEN [worker EXCEPT !.state = "quarantined"] ELSE worker

\* Mutant: completed requests are cancelled too.
CancellableIfPresent(row) == row.state \notin {"absent", "cancelled", "expired"}

Cancellable(row) == row.state \notin TerminalStates \cup {"absent"}

Cancel(r) ==
    /\ Cancellable(requests[r])
    /\ requests' = [requests EXCEPT ![r] = [@ EXCEPT !.state = "cancelled"]]
    /\ workers' = [w \in Workers |->
          IF w = requests[r].worker THEN CancelledWorker(workers[w]) ELSE workers[w]]
    /\ UNCHANGED <<tenants, epochs, virtualTime, clock, issued, claims, confirmed>>

-----------------------------------------------------------------------------
(* Checkpoints.                                                            *)

\* Services whose next checkpoint is due, on a leased worker.
DueCheckpoints(t) ==
    {r \in InStates(requests, {"serving"}) :
        /\ Submission[r].recoverable
        /\ requests[r].due <= t
        /\ requests[r].lease > t
        /\ requests[r].worker \in {w \in Workers : workers[w].state = "leased"}}

NewSnapshot(row, t) == [epoch |-> row.epoch, at |-> t]

Claimed(row, t) ==
    [row EXCEPT !.pending = NewSnapshot(row, t),
                !.due = t + MaxOf(SnapshotInterval, LeaseLifetime)]

ClaimDueCheckpoints(t) ==
    \E locked \in Contention :
      LET S == DueCheckpoints(t) \ locked IN
      /\ S # {}
      /\ requests' = [r \in Requests |->
            IF r \in S THEN Claimed(requests[r], t) ELSE requests[r]]
      /\ claims' = claims \cup
            {[request |-> r, worker |-> requests[r].worker, epoch |-> requests[r].epoch,
              snapshot |-> NewSnapshot(requests[r], t)] : r \in S}
      /\ UNCHANGED <<workers, tenants, epochs, virtualTime, clock, issued, confirmed>>

\* Mutant: the published checkpoint is due again at once.
PublishWithoutInterval(c, t) ==
    LET row == requests[c.request] IN
    /\ row.state = "serving"
    /\ Holds(c, row, t)
    /\ row.pending = c.snapshot
    /\ requests' = [requests EXCEPT ![c.request] =
          [row EXCEPT !.latest = c.snapshot, !.latestAt = t,
                      !.pending = NoSnapshot, !.due = t]]
    /\ UNCHANGED <<workers, tenants, epochs, virtualTime, clock, issued, claims, confirmed>>

PublishCheckpoint(c, t) ==
    LET row == requests[c.request] IN
    /\ row.state = "serving"
    /\ Holds(c, row, t)
    /\ row.pending = c.snapshot
    /\ requests' = [requests EXCEPT ![c.request] =
          [row EXCEPT !.latest = c.snapshot, !.latestAt = t,
                      !.pending = NoSnapshot, !.due = t + SnapshotInterval]]
    /\ UNCHANGED <<workers, tenants, epochs, virtualTime, clock, issued, claims, confirmed>>

-----------------------------------------------------------------------------
(* Fencing.                                                                *)

\* The epoch a recovery restore is bound to: the recorded one, else the
\* epoch that just lost its lease.
SourceEpoch(row) == IF row.op.fencedSource # 0 THEN row.op.fencedSource ELSE row.epoch

\* Mutant: one attempt too many.
RecoveryAllowedOnceMore(row, t) ==
    /\ row.latest # NoSnapshot
    /\ row.latestAt + MaximumStaleness >= t
    /\ row.attempts <= MaximumAttempts

RecoveryAllowed(row, t) ==
    /\ row.latest # NoSnapshot
    /\ row.latestAt + MaximumStaleness >= t
    /\ row.attempts < MaximumAttempts

\* Mutant: the confirmation of an earlier fence is kept.
RecoveringKeepsFence(row) ==
    [row EXCEPT !.state = "recovering", !.worker = NoWorker, !.epoch = 0, !.lease = 0,
                !.digest = "none", !.pending = NoSnapshot,
                !.op = [kind |-> "restore", snapshot |-> row.latest,
                        fencedSource |-> SourceEpoch(row)],
                !.attempts = row.attempts + 1, !.fenceWorker = row.worker]

Recovering(row) ==
    [row EXCEPT !.state = "recovering", !.worker = NoWorker, !.epoch = 0, !.lease = 0,
                !.digest = "none", !.pending = NoSnapshot,
                !.op = [kind |-> "restore", snapshot |-> row.latest,
                        fencedSource |-> SourceEpoch(row)],
                !.attempts = row.attempts + 1,
                !.fenceWorker = row.worker, !.fenceConfirmed = FALSE]

Requeued(row) ==
    [row EXCEPT !.state = "queued", !.worker = NoWorker, !.epoch = 0, !.lease = 0,
                !.digest = "none"]

\* What fence_expired makes of an active row whose lease has lapsed.
Fenced(r, row, t) ==
    IF Submission[r].deadline <= t THEN [row EXCEPT !.state = "expired"]
    ELSE IF ~Submission[r].recoverable THEN Requeued(row)
    ELSE IF RecoveryAllowed(row, t) THEN Recovering(row)
    ELSE [row EXCEPT !.state = "recovery_failed", !.pending = NoSnapshot]

\* Mutant: assignments whose answer was lost are not reclaimed.
LapsedServices(rows, t) == {r \in InStates(rows, {"serving"}) : rows[r].lease <= t}

Lapsed(rows, t) == {r \in InStates(rows, ActiveStates) : rows[r].lease <= t}

\* fence_expired, the periodic call of every gateway dispatcher and the second
\* transaction of quarantine_worker.
FenceExpired(t) ==
    LET rows == ExpireQueued(requests, t)
        lapsed == Lapsed(rows, t)
    IN  /\ requests' = [r \in Requests |->
              IF r \in lapsed THEN Fenced(r, rows[r], t) ELSE rows[r]]
        /\ workers' = [w \in Workers |->
              IF \E r \in lapsed : rows[r].worker = w
              THEN [workers[w] EXCEPT !.state = "quarantined"]
              ELSE workers[w]]
        /\ UNCHANGED <<tenants, epochs, virtualTime, clock, issued, claims, confirmed>>

\* The first transaction of quarantine_worker cuts the leases of the worker
\* short.  The second, fence_expired with the same time, is a FenceExpired
\* step: other transactions may come between, and if the replica dies before
\* it, a dispatcher's call does the same work.
QuarantineWorker(w, t) ==
    /\ workers[w].state \in {"clean", "leased", "draining", "quarantined"}
    /\ workers' = [workers EXCEPT ![w].state = "quarantined"]
    /\ requests' = [r \in Requests |->
          IF requests[r].worker = w /\ requests[r].state \in ActiveStates
          THEN [requests[r] EXCEPT !.lease = MinOf(@, t)]
          ELSE requests[r]]
    /\ UNCHANGED <<tenants, epochs, virtualTime, clock, issued, claims, confirmed>>

\* The controller has seen the old Pod gone.
ConfirmRecoveryFence(w) ==
    LET S == {r \in InStates(requests, {"recovering"}) :
                 ~requests[r].fenceConfirmed /\ requests[r].fenceWorker = w}
    IN  /\ S # {}
        /\ requests' = [r \in Requests |->
              IF r \in S THEN [requests[r] EXCEPT !.fenceConfirmed = TRUE] ELSE requests[r]]
        /\ confirmed' = confirmed \cup (S \X {w})
        /\ UNCHANGED <<workers, tenants, epochs, virtualTime, clock, issued, claims>>

Tick ==
    /\ clock < MaxClock
    /\ clock' = clock + 1
    /\ UNCHANGED <<requests, workers, tenants, epochs, virtualTime, issued, claims, confirmed>>

-----------------------------------------------------------------------------
Next ==
    \/ \E r \in Requests : Cancel(r)
    \/ \E n \in Tenants, p \in PolicyChoices : SetTenantPolicy(n, p)
    \/ \E w \in Workers : DrainWorker(w) \/ ConfirmRecoveryFence(w)
    \/ \E S \in SUBSET Workers : DrainWorkersIfClean(S)
    \/ \E t \in Lagging :
          \/ \E r \in Requests : Enqueue(r, t)
          \/ \E w \in Workers : \/ RegisterWorker(w, t)
                                \/ HeartbeatWorker(w, t)
                                \/ AssignNext(w, t)
                                \/ AssignNone(w, t)
                                \/ QuarantineWorker(w, t)
          \/ \E a \in issued : \/ Renew(a, t)
                               \/ \E ok \in BOOLEAN : CompleteResponse(a, ok, t)
          \/ ClaimDueCheckpoints(t)
          \/ \E c \in claims : PublishCheckpoint(c, t)
          \/ FenceExpired(t)
    \/ Tick

Spec == Init /\ [][Next]_vars

\* Every dispatcher replica calls fence_expired for ever (Dispatcher::run), and
\* time passes: the fairness of the liveness properties.
Fairness ==
    /\ WF_vars(Tick)
    /\ WF_vars(FenceExpired(clock))

FairSpec == Spec /\ Fairness

-----------------------------------------------------------------------------
(* Properties.                                                             *)

Active == InStates(requests, ActiveStates)

\* No two active requests share a worker or a sandbox: whatever cancel,
\* quarantine, lease expiry and resubmission do, a sandbox has one owner and a
\* worker one sandbox.
SingleOwner ==
    \A r, q \in Active : r # q =>
        /\ requests[r].worker # requests[q].worker
        /\ Submission[r].sandbox # Submission[q].sandbox

\* "One clean worker token per assignment": a worker is handed out at most once
\* in its life and is never clean again afterwards, however its assignment ends
\* (complete_inner, cancel, fence_expired, quarantine_worker, register_worker).
TokenSpentOnce ==
    /\ \A a, b \in issued : a.worker = b.worker => a = b
    /\ \A a \in issued : workers[a.worker].state \notin {"absent", "clean"}

\* Epochs fence: no two assignments of a sandbox carry the same epoch, and a
\* request that runs or has completed holds the newest epoch of its sandbox,
\* by an assignment that was issued to its worker.
EpochFencing ==
    /\ \A a, b \in issued :
          /\ Submission[a.request].sandbox = Submission[b.request].sandbox
          /\ a.epoch = b.epoch
          => a = b
    /\ \A r \in InStates(requests, {"assigned", "serving", "completed"}) :
          /\ requests[r].epoch = epochs[Submission[r].sandbox]
          /\ \E a \in issued : /\ a.request = r
                                /\ a.worker = requests[r].worker
                                /\ a.epoch = requests[r].epoch

\* A worker whose assignment was cancelled, fenced, completed or superseded is
\* never left leased, so active_assignment_by_idempotency and
\* claim_due_checkpoints cannot reach it.
SupersededNeverRouted ==
    \A a \in issued : workers[a.worker].state = "leased" =>
        /\ a.request \in Active
        /\ requests[a.request].worker = a.worker
        /\ requests[a.request].epoch = a.epoch

\* The inductive form of the four properties above: handles never run ahead of
\* assignment_epochs, and the live-sandbox index lets a sandbox have one live
\* request, so enqueue and assign_next cannot create a second owner.
OwnershipInvariant ==
    /\ \A a \in issued : a.epoch <= epochs[Submission[a.request].sandbox]
    /\ \A r, q \in InStates(requests, LiveStates) :
          r # q => Submission[r].sandbox # Submission[q].sandbox
    /\ EpochFencing
    /\ TokenSpentOnce
    /\ SupersededNeverRouted

\* A recoverable request is handed to a new worker only after the controller
\* confirmed that the Pod of every earlier owner is gone (the fence columns
\* fence_expired resets and assign_next reads).
RecoveryAfterFence ==
    \A a, b \in issued :
        /\ a.request = b.request
        /\ b.epoch < a.epoch
        /\ Submission[a.request].recoverable
        => <<b.request, b.worker>> \in confirmed

\* The attempt limit bounds how often a recoverable request is assigned, over
\* all the ways its owners can be lost.
AttemptsBounded ==
    \A r \in Requests : Submission[r].recoverable =>
        /\ requests[r].attempts <= MaximumAttempts
        /\ Cardinality({a \in issued : a.request = r}) <= requests[r].attempts + 1

\* The inductive form of the two properties above: a recoverable request never
\* goes back to the plain queue, and until the fence is confirmed the one owner
\* whose Pod may still run is the one the fence names.
RecoveryInvariant ==
    /\ RecoveryAfterFence
    /\ AttemptsBounded
    /\ \A b \in issued : Submission[b.request].recoverable =>
          LET row == requests[b.request]
              gone == <<b.request, b.worker>> \in confirmed
          IN  /\ row.state \notin {"absent", "queued"}
              /\ row.state \in ActiveStates => gone \/ b.worker = row.worker
              /\ row.state = "recovering" =>
                    gone \/ (~row.fenceConfirmed /\ b.worker = row.fenceWorker)
    /\ \A r \in InStates(requests, {"recovering"}) : Submission[r].recoverable =>
          Cardinality({a \in issued : a.request = r}) <= requests[r].attempts

\* assign_next keeps the number of active requests within the global limit.
ConcurrencyBounded == Cardinality(Active) <= GlobalConcurrencyLimit

\* A step that gives a tenant one more active request leaves it within the
\* concurrency limit in force at that step.
TenantShareRespected ==
    [][\A n \in Tenants :
          Cardinality(Active' \cap OfTenant(n)) > Cardinality(Active \cap OfTenant(n))
          => Cardinality(Active' \cap OfTenant(n)) <= tenants[n].policy.concurrencyLimit]_vars

\* Terminal rows never change, and a published result is withdrawn only by
\* fencing its request back to queued or recovering: late and duplicated
\* answers (complete_inner) replace nothing.
PublicationStable ==
    [][\A r \in Requests :
          /\ requests[r].state \in TerminalStates => requests'[r] = requests[r]
          /\ requests[r].digest # "none" /\ requests'[r].digest # requests[r].digest
                => requests'[r].state \in {"queued", "recovering"}]_vars

\* A lease that lapsed more than Skew ago is never extended again in its epoch:
\* heartbeat_worker, renew and complete_inner only extend unexpired leases.
LapsedStaysLapsed ==
    [][\A r \in Active :
          /\ requests[r].lease <= clock - Skew
          /\ requests'[r].state \in ActiveStates
          /\ requests'[r].epoch = requests[r].epoch
          => requests'[r].lease <= requests[r].lease]_vars

\* "Multiple replicas cannot claim the same checkpoint": a claim always gets a
\* snapshot identity no earlier claim of the request was given, although
\* replicas claim and publish with times that lag by up to Skew.
SnapshotIdFresh ==
    [][\A r \in Requests :
          /\ requests'[r].pending # NoSnapshot
          /\ requests'[r].pending # requests[r].pending
          => ~\E c \in claims : c.request = r /\ c.snapshot = requests'[r].pending]_vars

\* A lapsed lease is not held for ever: under the periodic fence_expired the
\* request is published, cancelled or fenced, or a call that read its time
\* before the lease ended has extended it.
LapsedReclaimed ==
    \A r \in Requests :
        (r \in Active /\ requests[r].lease <= clock)
        ~> (r \notin Active \/ requests[r].lease > clock)

\* "They cannot retain queue quota indefinitely": every request that waits in
\* the queue or for recovery finally stops waiting, with or without workers.
QueueQuotaReleased ==
    \A r \in Requests :
        <>[](requests[r].state \notin {"queued", "recovering"})

-----------------------------------------------------------------------------
(* Statements of the documentation that the code does not keep.            *)

\* A recovery restore is bound to the epoch its snapshot was taken in
\* (fence_expired keeps the source epoch of the first recovery).
RestoreBoundToSnapshotEpoch ==
    \A a \in issued : a.op.fencedSource # 0 => a.op.fencedSource = a.op.snapshot.epoch

\* A quarantined worker has no active assignment (quarantine_worker commits
\* before it fences).
QuarantineIsAtomic == \A r \in Active : workers[requests[r].worker].state # "quarantined"
=============================================================================
