-------------------------- MODULE PlacementProofs --------------------------
(* Theorems about PlacementStore, for every value of its constants.        *)
EXTENDS PlacementStore, TLAPS

\* A request key starts as a well-formed row.
LEMMA EmptyRowType == \A r \in Requests : EmptyRow(r) \in Rows
BY IdentityAssumption DEF EmptyRow, Rows, RequestStates, Operations, Kinds,
   Snapshots, NoSnapshot, Digests, Submissions

\* The times transactions run with are natural numbers.
LEMMA LaggingType == TypeOK => Lagging \subseteq Nat
BY TimeAssumption DEF TypeOK, Lagging

\* What enqueue adds to the virtual finish time is a natural number.
LEMMA ShareType ==
    ASSUME NEW q \in Nat, NEW weight \in 1..100
    PROVE  q \div weight \in Nat
OBVIOUS

\* expire_queued keeps the requests table well formed.
LEMMA ExpireType ==
    ASSUME NEW rows \in [Requests -> Rows], NEW t \in Nat
    PROVE  ExpireQueued(rows, t) \in [Requests -> Rows]
BY DEF ExpireQueued, Rows, RequestStates

\* The updates the transactions make keep a row well formed.
LEMMA RowUpdates ==
    ASSUME NEW row \in Rows
    PROVE  /\ \A x \in RequestStates : [row EXCEPT !.state = x] \in Rows
           /\ \A x \in Nat : [row EXCEPT !.lease = x] \in Rows
           /\ [row EXCEPT !.fenceConfirmed = TRUE] \in Rows
           /\ \A x \in Nat : [row EXCEPT !.state = "queued", !.fairFinish = x] \in Rows
           /\ \A w \in Workers, e, l \in Nat :
                 [row EXCEPT !.state = "assigned", !.worker = w, !.epoch = e,
                             !.lease = l] \in Rows
           /\ \A s \in Snapshots, d \in Nat :
                 [row EXCEPT !.pending = s, !.due = d] \in Rows
           /\ \A s \in Snapshots, a, d \in Nat :
                 [row EXCEPT !.latest = s, !.latestAt = a, !.pending = NoSnapshot,
                             !.due = d] \in Rows
<1>1. \A x \in RequestStates : [row EXCEPT !.state = x] \in Rows
  BY DEF Rows
<1>2. \A x \in Nat : [row EXCEPT !.lease = x] \in Rows
  BY DEF Rows
<1>3. [row EXCEPT !.fenceConfirmed = TRUE] \in Rows
  BY DEF Rows
<1>4. \A x \in Nat : [row EXCEPT !.state = "queued", !.fairFinish = x] \in Rows
  BY DEF Rows, RequestStates
<1>5. \A w \in Workers, e, l \in Nat :
        [row EXCEPT !.state = "assigned", !.worker = w, !.epoch = e, !.lease = l] \in Rows
  BY DEF Rows, RequestStates
<1>6. \A s \in Snapshots, d \in Nat : [row EXCEPT !.pending = s, !.due = d] \in Rows
  BY DEF Rows
<1>7. NoSnapshot \in Snapshots
  BY DEF NoSnapshot, Snapshots
<1>8. \A s \in Snapshots, a, d \in Nat :
        [row EXCEPT !.latest = s, !.latestAt = a, !.pending = NoSnapshot, !.due = d] \in Rows
  BY <1>7 DEF Rows
<1>9. QED
  BY <1>1, <1>2, <1>3, <1>4, <1>5, <1>6, <1>8

\* So does the row claim_due_checkpoints writes.
LEMMA ClaimedType ==
    ASSUME NEW row \in Rows, NEW t \in Nat
    PROVE  NewSnapshot(row, t) \in Snapshots /\ Claimed(row, t) \in Rows
<1>1. NewSnapshot(row, t) \in Snapshots
  BY DEF NewSnapshot, Snapshots, Rows
<1>2. t + MaxOf(SnapshotInterval, LeaseLifetime) \in Nat
  BY TimeAssumption DEF MaxOf
<1>3. QED
  BY <1>1, <1>2, RowUpdates DEF Claimed

KeepsOwner(row, new) ==
    /\ new \in Rows
    /\ new.worker = row.worker
    /\ new.epoch = row.epoch
    /\ new.attempts = row.attempts

\* So does the row complete_inner writes, which keeps its owner.
LEMMA PublishedRow ==
    ASSUME NEW a \in Assignments, NEW row \in Rows, NEW ok \in BOOLEAN, NEW t \in Nat
    PROVE  /\ KeepsOwner(row, Published(a, row, ok, t))
           /\ Published(a, row, ok, t).state \in {"serving", "completed", "recovery_failed"}
           /\ Serves(a, ok) => Published(a, row, ok, t).state = "serving"
<1>1. t + LeaseLifetime \in Nat /\ t + SnapshotInterval \in Nat
  BY TimeAssumption
<1>2. CASE Serves(a, ok)
  <2> DEFINE new(u) == [row EXCEPT !.state = "serving", !.digest = "ok",
                                   !.lease = t + LeaseLifetime, !.due = u]
  <2>1. \A u \in Nat : KeepsOwner(row, new(u)) /\ new(u).state = "serving"
    BY <1>1 DEF KeepsOwner, Rows, RequestStates, Digests
  <2>2. \E u \in Nat : Published(a, row, ok, t) = new(u)
    BY <1>1, <1>2 DEF Published
  <2> HIDE DEF new
  <2>3. QED
    BY <2>1, <2>2
<1>3. CASE ~Serves(a, ok)
  <2> DEFINE new(s, d) == [row EXCEPT !.state = s, !.digest = d, !.due = 0]
  <2>1. \A s \in {"completed", "recovery_failed"}, d \in Digests :
          KeepsOwner(row, new(s, d)) /\ new(s, d).state = s
    BY DEF KeepsOwner, Rows, RequestStates
  <2>2. \E s \in {"completed", "recovery_failed"}, d \in Digests :
          Published(a, row, ok, t) = new(s, d)
    BY <1>3 DEF Published, Digests
  <2> HIDE DEF new
  <2>3. QED
    BY <1>3, <2>1, <2>2
<1>4. QED
  BY <1>2, <1>3

\* So does the row fence_expired writes, whichever of its branches is taken.
LEMMA FencedType ==
    ASSUME NEW r \in Requests, NEW row \in Rows, NEW t \in Nat
    PROVE  Fenced(r, row, t) \in Rows
<1>1. [row EXCEPT !.state = "expired"] \in Rows
  BY DEF Rows, RequestStates
<1>2. [row EXCEPT !.state = "recovery_failed", !.pending = NoSnapshot] \in Rows
  BY DEF Rows, RequestStates, NoSnapshot, Snapshots
<1>3. Requeued(row) \in Rows
  BY DEF Requeued, Rows, RequestStates, Digests
<1>4. Recovering(row) \in Rows
  <2> DEFINE op == [kind |-> "restore", snapshot |-> row.latest,
                    fencedSource |-> SourceEpoch(row)]
  <2>1. op \in Operations
    BY DEF Rows, Operations, Kinds, Snapshots, SourceEpoch
  <2>2. row.attempts + 1 \in Nat
    BY DEF Rows
  <2>3. NoSnapshot \in Snapshots
    BY DEF NoSnapshot, Snapshots
  <2> HIDE DEF op
  <2>4. [row EXCEPT !.state = "recovering", !.worker = NoWorker, !.epoch = 0,
                    !.lease = 0, !.digest = "none", !.pending = NoSnapshot,
                    !.op = op, !.attempts = row.attempts + 1,
                    !.fenceWorker = row.worker, !.fenceConfirmed = FALSE] \in Rows
    BY <2>1, <2>2, <2>3 DEF Rows, RequestStates, Digests
  <2>5. QED
    BY <2>4 DEF Recovering, op
<1>5. QED
  BY <1>1, <1>2, <1>3, <1>4 DEF Fenced

\* The empty tables are well formed.
LEMMA InitTypeOK == Init => TypeOK
BY EmptyRowType, LimitAssumption DEF Init, TypeOK, WorkerStates

\* Every transaction keeps the tables well formed.
LEMMA NextTypeOK == TypeOK /\ [Next]_vars => TypeOK'
<1> SUFFICES ASSUME TypeOK, [Next]_vars PROVE TypeOK'
  OBVIOUS
<1> USE DEF TypeOK
<1>1. ASSUME NEW r \in Requests, Cancel(r) PROVE TypeOK'
  <2>1. requests' \in [Requests -> Rows]
    <3>1. [requests[r] EXCEPT !.state = "cancelled"] \in Rows
      BY RowUpdates DEF RequestStates
    <3>2. QED
      BY <1>1, <3>1 DEF Cancel
  <2>2. workers' \in [Workers -> [state : WorkerStates, heartbeat : Nat]]
    BY <1>1 DEF Cancel, CancelledWorker, WorkerStates
  <2>3. QED
    BY <1>1, <2>1, <2>2 DEF Cancel
<1>2. ASSUME NEW n \in Tenants, NEW p \in PolicyChoices, SetTenantPolicy(n, p)
      PROVE  TypeOK'
  BY <1>2, LimitAssumption DEF SetTenantPolicy
<1>3. ASSUME NEW w \in Workers, DrainWorker(w) PROVE TypeOK'
  BY <1>3 DEF DrainWorker, WorkerStates
<1>4. ASSUME NEW w \in Workers, ConfirmRecoveryFence(w) PROVE TypeOK'
  <2>1. \A r \in Requests : [requests[r] EXCEPT !.fenceConfirmed = TRUE] \in Rows
    BY RowUpdates
  <2>2. QED
    BY <1>4, <2>1 DEF ConfirmRecoveryFence, InStates
<1>5. ASSUME NEW S \in SUBSET Workers, DrainWorkersIfClean(S) PROVE TypeOK'
  BY <1>5 DEF DrainWorkersIfClean, WorkerStates
<1>6. ASSUME NEW t \in Lagging, NEW r \in Requests, Enqueue(r, t) PROVE TypeOK'
  <2> DEFINE rows == ExpireQueued(requests, t)
             n == Submission[r].tenant
             finish == MaxOf(tenants[n].virtualFinish, virtualTime)
                          + (Quantum \div tenants[n].policy.weight)
  <2>1. t \in Nat /\ rows \in [Requests -> Rows] /\ n \in Tenants
    BY LaggingType, ExpireType, IdentityAssumption DEF Submissions
  <2>2. finish \in Nat
    <3>1. /\ tenants[n].virtualFinish \in Nat
          /\ tenants[n].policy.weight \in 1..100
          /\ Quantum \in Nat /\ virtualTime \in Nat
      BY <2>1, LimitAssumption DEF TenantPolicies
    <3>2. Quantum \div tenants[n].policy.weight \in Nat
      BY <3>1, ShareType
    <3>3. MaxOf(tenants[n].virtualFinish, virtualTime) \in Nat
      BY <3>1 DEF MaxOf
    <3>4. \A i, j \in Nat : i + j \in Nat
      OBVIOUS
    <3>5. QED
      BY <3>2, <3>3, <3>4
  <2> HIDE DEF rows, finish
  <2>3. [rows[r] EXCEPT !.state = "queued", !.fairFinish = finish] \in Rows
    BY <2>1, <2>2, RowUpdates
  <2>4. requests' \in [Requests -> Rows]
    BY <1>6, <2>1, <2>3 DEF Enqueue, rows, finish
  <2>5. tenants' \in [Tenants -> [policy : TenantPolicies, virtualFinish : Nat]]
    BY <1>6, <2>1, <2>2 DEF Enqueue, finish
  <2>6. QED
    BY <1>6, <2>4, <2>5 DEF Enqueue
<1>7. ASSUME NEW t \in Lagging, NEW w \in Workers, RegisterWorker(w, t) PROVE TypeOK'
  BY <1>7, LaggingType DEF RegisterWorker, WorkerStates
<1>8. ASSUME NEW t \in Lagging, NEW w \in Workers, HeartbeatWorker(w, t) PROVE TypeOK'
  <2>1. t + LeaseLifetime \in Nat /\ t \in Nat
    BY LaggingType, TimeAssumption
  <2>2. \A r \in Requests : [requests[r] EXCEPT !.lease = t + LeaseLifetime] \in Rows
    BY <2>1, RowUpdates
  <2>3. QED
    BY <1>8, <2>1, <2>2 DEF HeartbeatWorker
<1>9. ASSUME NEW t \in Lagging, NEW w \in Workers, AssignNext(w, t) PROVE TypeOK'
  <2> DEFINE rows == ExpireQueued(requests, t)
  <2>1. /\ t \in Nat
        /\ t + LeaseLifetime \in Nat
        /\ rows \in [Requests -> Rows]
    BY LaggingType, ExpireType, TimeAssumption
  <2> HIDE DEF rows
  <2>2. PICK r \in Requests :
          LET s == Submission[r].sandbox
              epoch == epochs[s] + 1
          IN  /\ epochs' = [epochs EXCEPT ![s] = epoch]
              /\ requests' = [rows EXCEPT ![r] =
                    [@ EXCEPT !.state = "assigned", !.worker = w, !.epoch = epoch,
                              !.lease = t + LeaseLifetime]]
              /\ virtualTime' = MaxOf(virtualTime, rows[r].fairFinish)
              /\ issued' = issued \cup
                    {[request |-> r, worker |-> w, epoch |-> epoch, op |-> rows[r].op]}
    BY <1>9 DEF AssignNext, First, Candidates, rows
  <2> DEFINE s == Submission[r].sandbox
             epoch == epochs[s] + 1
  <2>3. s \in Sandboxes /\ epoch \in Nat
    BY IdentityAssumption DEF Submissions
  <2>4. [rows[r] EXCEPT !.state = "assigned", !.worker = w, !.epoch = epoch,
                        !.lease = t + LeaseLifetime] \in Rows
    BY <2>1, <2>3, RowUpdates
  <2>5. requests' \in [Requests -> Rows]
    BY <2>1, <2>2, <2>4
  <2>6. [request |-> r, worker |-> w, epoch |-> epoch, op |-> rows[r].op] \in Assignments
    BY <2>1, <2>3 DEF Assignments, Rows
  <2>7. virtualTime' \in Nat
    BY <2>1, <2>2 DEF MaxOf, Rows
  <2>8. workers' \in [Workers -> [state : WorkerStates, heartbeat : Nat]]
    BY <1>9 DEF AssignNext, WorkerStates
  <2>9. issued' \subseteq Assignments
    BY <2>2, <2>6
  <2>10. epochs' \in [Sandboxes -> Nat]
    BY <2>2, <2>3
  <2>11. QED
    BY <1>9, <2>5, <2>7, <2>8, <2>9, <2>10 DEF AssignNext
<1>10. ASSUME NEW t \in Lagging, NEW w \in Workers, AssignNone(w, t) PROVE TypeOK'
  BY <1>10, LaggingType, ExpireType DEF AssignNone
<1>11. ASSUME NEW t \in Lagging, NEW w \in Workers, QuarantineWorker(w, t) PROVE TypeOK'
  <2>1. \A r \in Requests :
          [requests[r] EXCEPT !.lease = MinOf(requests[r].lease, t)] \in Rows
    <3>1. \A r \in Requests : requests[r] \in Rows /\ MinOf(requests[r].lease, t) \in Nat
      BY LaggingType DEF Rows, MinOf
    <3>2. QED
      BY <3>1, RowUpdates
  <2>2. requests' \in [Requests -> Rows]
    BY <1>11, <2>1 DEF QuarantineWorker
  <2>3. QED
    BY <1>11, <2>2 DEF QuarantineWorker, WorkerStates
<1>12. ASSUME NEW t \in Lagging, NEW a \in issued, Renew(a, t) PROVE TypeOK'
  <2>1. t + LeaseLifetime \in Nat /\ a.request \in Requests
    BY LaggingType, TimeAssumption DEF Assignments
  <2>2. [requests[a.request] EXCEPT !.lease = t + LeaseLifetime] \in Rows
    BY <2>1, RowUpdates
  <2>3. QED
    BY <1>12, <2>1, <2>2 DEF Renew
<1>13. ASSUME NEW t \in Lagging, NEW a \in issued, NEW ok \in BOOLEAN,
              CompleteResponse(a, ok, t)
       PROVE  TypeOK'
  <2>1. /\ t \in Nat /\ a \in Assignments
        /\ a.request \in Requests /\ a.worker \in Workers
    BY LaggingType DEF Assignments
  <2>2. Published(a, requests[a.request], ok, t) \in Rows
    BY <2>1, PublishedRow DEF KeepsOwner
  <2>3. requests' \in [Requests -> Rows]
    BY <1>13, <2>1, <2>2 DEF CompleteResponse
  <2>4. workers' \in [Workers -> [state : WorkerStates, heartbeat : Nat]]
    <3>1. [workers EXCEPT ![a.worker].state = "consumed"]
             \in [Workers -> [state : WorkerStates, heartbeat : Nat]]
      BY <2>1 DEF WorkerStates
    <3>2. QED
      BY <1>13, <3>1 DEF CompleteResponse
  <2>5. QED
    BY <1>13, <2>3, <2>4 DEF CompleteResponse
<1>14. ASSUME NEW t \in Lagging, ClaimDueCheckpoints(t) PROVE TypeOK'
  <2>1. PICK S \in SUBSET Requests :
          /\ S \subseteq DueCheckpoints(t)
          /\ requests' = [r \in Requests |->
                IF r \in S THEN Claimed(requests[r], t) ELSE requests[r]]
          /\ claims' = claims \cup
                {[request |-> r, worker |-> requests[r].worker, epoch |-> requests[r].epoch,
                  snapshot |-> NewSnapshot(requests[r], t)] : r \in S}
          /\ UNCHANGED <<workers, tenants, epochs, virtualTime, clock, issued, confirmed>>
    BY <1>14 DEF ClaimDueCheckpoints, DueCheckpoints, InStates
  <2>2. \A r \in Requests : /\ NewSnapshot(requests[r], t) \in Snapshots
                            /\ Claimed(requests[r], t) \in Rows
    BY LaggingType, ClaimedType
  <2>3. requests' \in [Requests -> Rows]
    BY <2>1, <2>2
  <2>4. \A r \in S : requests[r].worker \in Workers /\ requests[r].epoch \in Nat
    BY <2>1 DEF DueCheckpoints, Rows
  <2>5. claims' \subseteq Checkpoints
    BY <2>1, <2>2, <2>4 DEF Checkpoints
  <2>6. QED
    BY <2>1, <2>3, <2>5
<1>15. ASSUME NEW t \in Lagging, NEW c \in claims, PublishCheckpoint(c, t) PROVE TypeOK'
  <2>1. c.request \in Requests /\ c.snapshot \in Snapshots /\ NoSnapshot \in Snapshots
    BY DEF Checkpoints, NoSnapshot, Snapshots
  <2>2. t \in Nat /\ t + SnapshotInterval \in Nat
    BY LaggingType, TimeAssumption
  <2>3. [requests[c.request] EXCEPT !.latest = c.snapshot, !.latestAt = t,
           !.pending = NoSnapshot, !.due = t + SnapshotInterval] \in Rows
    BY <2>1, <2>2, RowUpdates
  <2>4. QED
    BY <1>15, <2>1, <2>3 DEF PublishCheckpoint
<1>16. ASSUME NEW t \in Lagging, FenceExpired(t) PROVE TypeOK'
  <2> DEFINE rows == ExpireQueued(requests, t)
  <2>1. t \in Nat /\ rows \in [Requests -> Rows]
    BY LaggingType, ExpireType
  <2> HIDE DEF rows
  <2>2. requests' \in [Requests -> Rows]
    BY <1>16, <2>1, FencedType DEF FenceExpired, rows
  <2>3. workers' \in [Workers -> [state : WorkerStates, heartbeat : Nat]]
    BY <1>16 DEF FenceExpired, WorkerStates
  <2>4. QED
    BY <1>16, <2>2, <2>3 DEF FenceExpired
<1>17. CASE Tick
  BY <1>17 DEF Tick
<1>18. CASE UNCHANGED vars
  BY <1>18 DEF vars
<1>19. QED
  BY <1>1, <1>2, <1>3, <1>4, <1>5, <1>6, <1>7, <1>8, <1>9, <1>10, <1>11, <1>12,
     <1>13, <1>14, <1>15, <1>16, <1>17, <1>18, ZenonT(60) DEF Next

\* The tables only ever hold well-formed rows, whatever transactions run.
THEOREM TypeCorrect == Spec => []TypeOK
BY InitTypeOK, NextTypeOK, PTL DEF Spec

-----------------------------------------------------------------------------
(* Ownership.  Apart from enqueue and assign_next, which bring a row to life *)
(* and create a handle, a transaction only does to a row what RowStep says   *)
(* and to a worker what WorkerStep says.                                     *)

SameOwner(r) ==
    /\ requests'[r].worker = requests[r].worker
    /\ requests'[r].epoch = requests[r].epoch

RowStep(r) ==
    \/ requests'[r].state = requests[r].state /\ SameOwner(r)
    \/ requests'[r].state \in {"expired", "cancelled", "recovery_failed"}
    \/ /\ requests[r].state \in ActiveStates
       /\ \/ requests'[r].state \in {"serving", "completed"} /\ SameOwner(r)
          \/ requests'[r].state \in {"queued", "recovering"}

WorkerStep(w) ==
    /\ workers'[w].state = "leased" =>
          /\ workers[w].state = "leased"
          /\ \A r \in Requests :
                requests[r].state \in ActiveStates /\ requests[r].worker = w
                => requests'[r].state \in ActiveStates /\ SameOwner(r)
    /\ workers'[w].state \in {"absent", "clean"} => workers[w].state \in {"absent", "clean"}

QuietStep ==
    /\ UNCHANGED <<issued, epochs>>
    /\ \A r \in Requests : RowStep(r)
    /\ \A w \in Workers : WorkerStep(w)

\* Such a step preserves the ownership invariant.
LEMMA QuietOwnership ==
    ASSUME TypeOK, TypeOK', OwnershipInvariant, QuietStep
    PROVE  OwnershipInvariant'
<1> USE DEF QuietStep
<1>1. (\A a \in issued : a.epoch <= epochs[Submission[a.request].sandbox])'
  BY DEF OwnershipInvariant
<1>2. (\A r, q \in InStates(requests, LiveStates) :
          r # q => Submission[r].sandbox # Submission[q].sandbox)'
  <2>1. InStates(requests', LiveStates) \subseteq InStates(requests, LiveStates)
    BY DEF InStates, RowStep, LiveStates, ActiveStates
  <2>2. QED
    BY <2>1 DEF OwnershipInvariant
<1>3. EpochFencing'
  <2>1. ASSUME NEW r \in Requests,
               requests'[r].state \in {"assigned", "serving", "completed"}
        PROVE  requests[r].state \in {"assigned", "serving", "completed"} /\ SameOwner(r)
    BY <2>1 DEF RowStep, ActiveStates
  <2>2. QED
    BY <2>1 DEF OwnershipInvariant, EpochFencing, InStates, SameOwner
<1>4. TokenSpentOnce'
  BY DEF OwnershipInvariant, TokenSpentOnce, WorkerStep, TypeOK, Assignments
<1>5. SupersededNeverRouted'
  BY DEF OwnershipInvariant, SupersededNeverRouted, WorkerStep, SameOwner, Active,
         InStates, TypeOK, Assignments
<1>6. QED
  BY <1>1, <1>2, <1>3, <1>4, <1>5 DEF OwnershipInvariant

\* What expire_queued does to a row: nothing, or it expires a waiting one.
LEMMA ExpireStep ==
    ASSUME TypeOK, NEW t \in Nat, NEW r \in Requests
    PROVE  \/ ExpireQueued(requests, t)[r] = requests[r]
           \/ /\ requests[r].state \in {"queued", "recovering"}
              /\ ExpireQueued(requests, t)[r].state = "expired"
              /\ ExpireQueued(requests, t)[r].attempts = requests[r].attempts
BY DEF ExpireQueued, TypeOK, Rows

\* Nothing is owned in the empty tables.
LEMMA InitOwnership == Init => OwnershipInvariant
<1> SUFFICES ASSUME Init PROVE OwnershipInvariant
  OBVIOUS
<1>1. issued = {} /\ \A r \in Requests : requests[r].state = "absent"
  BY DEF Init, EmptyRow
<1>2. /\ InStates(requests, LiveStates) = {}
      /\ InStates(requests, {"assigned", "serving", "completed"}) = {}
  BY <1>1 DEF InStates, LiveStates
<1>3. QED
  BY <1>1, <1>2 DEF OwnershipInvariant, EpochFencing, TokenSpentOnce,
     SupersededNeverRouted

\* enqueue preserves ownership: its conflict query keeps a second live request
\* for the same sandbox out.
LEMMA EnqueueOwnership ==
    ASSUME TypeOK, TypeOK', OwnershipInvariant,
           NEW t \in Lagging, NEW r \in Requests, Enqueue(r, t)
    PROVE  OwnershipInvariant'
<1> DEFINE rows == ExpireQueued(requests, t)
<1>0. rows \in [Requests -> Rows]
  BY LaggingType, ExpireType DEF TypeOK
<1>a. \A q \in Requests :
        \/ rows[q] = requests[q]
        \/ requests[q].state \in {"queued", "recovering"} /\ rows[q].state = "expired"
  BY LaggingType, ExpireStep
<1>b. /\ requests[r].state = "absent"
      /\ \A q \in InStates(rows, LiveStates) : Submission[q].sandbox # Submission[r].sandbox
      /\ UNCHANGED <<workers, issued, epochs>>
      /\ \E f : requests' = [rows EXCEPT ![r] =
                              [@ EXCEPT !.state = "queued", !.fairFinish = f]]
  BY DEF Enqueue, SandboxFree
<1> HIDE DEF rows
<1>1. ASSUME NEW q \in Requests, q # r
      PROVE  /\ requests'[q] = rows[q]
             /\ \/ requests'[q] = requests[q]
                \/ /\ requests[q].state \in {"queued", "recovering"}
                   /\ requests'[q].state = "expired"
  BY <1>0, <1>a, <1>b, <1>1
<1>2. requests[r].state = "absent" /\ requests'[r].state = "queued"
  BY <1>0, <1>b DEF Rows
<1>3. (\A q, p \in InStates(requests, LiveStates) :
          q # p => Submission[q].sandbox # Submission[p].sandbox)'
  <2>1. ASSUME NEW q \in Requests, q # r, requests'[q].state \in LiveStates
        PROVE  /\ requests[q].state \in LiveStates
               /\ Submission[q].sandbox # Submission[r].sandbox
    BY <1>1, <1>b, <2>1 DEF InStates, LiveStates
  <2>2. QED
    BY <2>1 DEF OwnershipInvariant, InStates
<1>4. EpochFencing'
  BY <1>1, <1>2, <1>b DEF OwnershipInvariant, EpochFencing, InStates
<1>5. TokenSpentOnce'
  BY <1>b DEF OwnershipInvariant, TokenSpentOnce
<1>6. SupersededNeverRouted'
  BY <1>1, <1>2, <1>b, SMTT(30) DEF OwnershipInvariant, SupersededNeverRouted, Active,
     InStates, ActiveStates, TypeOK, Assignments
<1>7. QED
  BY <1>3, <1>4, <1>5, <1>6, <1>b DEF OwnershipInvariant

\* assign_next preserves ownership: the worker was clean, hence never handed
\* out, and the new epoch is above every epoch issued for the sandbox.
LEMMA AssignOwnership ==
    ASSUME TypeOK, TypeOK', OwnershipInvariant,
           NEW t \in Lagging, NEW w \in Workers, AssignNext(w, t)
    PROVE  OwnershipInvariant'
<1> DEFINE rows == ExpireQueued(requests, t)
<1>1. rows \in [Requests -> Rows]
  BY LaggingType, ExpireType DEF TypeOK
<1>2. \A q \in Requests :
        \/ rows[q] = requests[q]
        \/ requests[q].state \in {"queued", "recovering"} /\ rows[q].state = "expired"
  BY LaggingType, ExpireStep
<1>3. PICK r \in Requests :
        /\ rows[r].state \in {"queued", "recovering"}
        /\ LET s == Submission[r].sandbox
               epoch == epochs[s] + 1
           IN  /\ epochs' = [epochs EXCEPT ![s] = epoch]
               /\ requests' = [rows EXCEPT ![r] =
                     [@ EXCEPT !.state = "assigned", !.worker = w, !.epoch = epoch,
                               !.lease = t + LeaseLifetime]]
               /\ issued' = issued \cup
                     {[request |-> r, worker |-> w, epoch |-> epoch, op |-> rows[r].op]}
  BY DEF AssignNext, First, Candidates, Assignable
<1>4. workers[w].state = "clean" /\ workers' = [workers EXCEPT ![w].state = "leased"]
  BY DEF AssignNext
<1> HIDE DEF rows
<1> DEFINE s == Submission[r].sandbox
           epoch == epochs[s] + 1
           new == [request |-> r, worker |-> w, epoch |-> epoch, op |-> rows[r].op]
<1>5. /\ s \in Sandboxes
      /\ epochs[s] \in Nat
      /\ \A a \in issued : /\ a.request \in Requests
                           /\ a.worker \in Workers
                           /\ a.epoch \in Nat
                           /\ Submission[a.request].sandbox \in Sandboxes
                           /\ epochs[Submission[a.request].sandbox] \in Nat
  BY IdentityAssumption DEF TypeOK, Assignments, Submissions
<1>6. ASSUME NEW q \in Requests, q # r
      PROVE  \/ requests'[q] = requests[q]
             \/ /\ requests[q].state \in {"queued", "recovering"}
                /\ requests'[q].state = "expired"
  BY <1>1, <1>2, <1>3, <1>6
<1>7. /\ requests[r].state \in {"queued", "recovering"}
      /\ requests'[r].state = "assigned"
      /\ requests'[r].worker = w
      /\ requests'[r].epoch = epoch
  BY <1>1, <1>2, <1>3 DEF Rows
<1>8. (\A a \in issued : a.epoch <= epochs[Submission[a.request].sandbox])'
  BY <1>3, <1>5 DEF OwnershipInvariant, TypeOK
<1>9. (\A q, p \in InStates(requests, LiveStates) :
          q # p => Submission[q].sandbox # Submission[p].sandbox)'
  <2>1. InStates(requests', LiveStates) \subseteq InStates(requests, LiveStates)
    BY <1>6, <1>7 DEF InStates, LiveStates
  <2>2. QED
    BY <2>1 DEF OwnershipInvariant
<1>10. EpochFencing'
  <2>1. ASSUME NEW a \in issued', NEW b \in issued',
               Submission[a.request].sandbox = Submission[b.request].sandbox,
               a.epoch = b.epoch
        PROVE  a = b
    BY <1>3, <1>5, <2>1 DEF OwnershipInvariant, EpochFencing
  <2>2. ASSUME NEW q \in Requests,
               requests'[q].state \in {"assigned", "serving", "completed"}
        PROVE  /\ requests'[q].epoch = epochs'[Submission[q].sandbox]
               /\ \E a \in issued' : /\ a.request = q
                                      /\ a.worker = requests'[q].worker
                                      /\ a.epoch = requests'[q].epoch
    <3>1. CASE q = r
      <4>1. epochs'[s] = epoch
        BY <1>3, <1>5 DEF TypeOK
      <4>2. new \in issued'
        BY <1>3
      <4>3. new.request = r /\ new.worker = w /\ new.epoch = epoch
        OBVIOUS
      <4> HIDE DEF new, epoch
      <4>4. QED
        BY <3>1, <4>1, <4>2, <4>3, <1>7
    <3>2. CASE q # r
      <4>1. requests'[q] = requests[q]
        BY <3>2, <1>6, <2>2
      <4>2. Submission[q].sandbox # s
        BY <3>2, <4>1, <1>7, <2>2 DEF OwnershipInvariant, InStates, LiveStates
      <4>3. epochs'[Submission[q].sandbox] = epochs[Submission[q].sandbox]
        BY <4>2, <1>3, IdentityAssumption DEF TypeOK, Submissions
      <4>4. QED
        BY <4>1, <4>3, <2>2, <1>3 DEF OwnershipInvariant, EpochFencing, InStates
    <3>3. QED
      BY <3>1, <3>2
  <2>3. QED
    BY <2>1, <2>2 DEF EpochFencing, InStates
<1>11. TokenSpentOnce'
  BY <1>3, <1>4, <1>5 DEF OwnershipInvariant, TokenSpentOnce, TypeOK
<1>12. SupersededNeverRouted'
  <2>1. ASSUME NEW a \in issued', workers'[a.worker].state = "leased"
        PROVE  /\ a.request \in Active'
               /\ requests'[a.request].worker = a.worker
               /\ requests'[a.request].epoch = a.epoch
    <3>1. CASE a = new
      BY <3>1, <1>7 DEF Active, InStates, ActiveStates
    <3>2. CASE a \in issued
      <4>1. a.worker # w /\ workers[a.worker].state = "leased"
        BY <3>2, <1>4, <1>5, <2>1 DEF OwnershipInvariant, TokenSpentOnce, TypeOK
      <4>2. /\ a.request \in Active
            /\ requests[a.request].worker = a.worker
            /\ requests[a.request].epoch = a.epoch
        BY <3>2, <4>1 DEF OwnershipInvariant, SupersededNeverRouted
      <4>3. requests'[a.request] = requests[a.request]
        BY <4>2, <1>6, <1>7 DEF Active, InStates, ActiveStates
      <4>4. QED
        BY <4>2, <4>3 DEF Active, InStates
    <3>3. QED
      BY <3>1, <3>2, <1>3
  <2>2. QED
    BY <2>1 DEF SupersededNeverRouted
<1>13. QED
  BY <1>8, <1>9, <1>10, <1>11, <1>12 DEF OwnershipInvariant

\* Every step is an enqueue, an assign_next or a quiet step.
LEMMA NextSteps ==
    ASSUME TypeOK, TypeOK', [Next]_vars
    PROVE  \/ \E t \in Lagging, r \in Requests : Enqueue(r, t)
           \/ \E t \in Lagging, w \in Workers : AssignNext(w, t)
           \/ QuietStep
<1>1. ASSUME NEW r \in Requests, Cancel(r) PROVE QuietStep
  <2>1. \A q \in Requests : RowStep(q)
    BY <1>1 DEF Cancel, RowStep, SameOwner, TypeOK, Rows
  <2>2. \A w \in Workers : WorkerStep(w)
    <3>1. \A q \in Requests : q # r => requests'[q] = requests[q]
      BY <1>1 DEF Cancel, TypeOK
    <3>2. ASSUME NEW w \in Workers, w # requests[r].worker
          PROVE  WorkerStep(w)
      BY <1>1, <3>1, <3>2 DEF Cancel, WorkerStep, SameOwner, TypeOK
    <3>3. ASSUME NEW w \in Workers, w = requests[r].worker
          PROVE  WorkerStep(w)
      BY <1>1, <3>3 DEF Cancel, CancelledWorker, WorkerStep, TypeOK
    <3>4. QED
      BY <3>2, <3>3
  <2>3. QED
    BY <1>1, <2>1, <2>2 DEF QuietStep, Cancel
<1>2. ASSUME UNCHANGED <<requests, issued, epochs>>, \A w \in Workers : WorkerStep(w)
      PROVE  QuietStep
  BY <1>2 DEF QuietStep, RowStep, SameOwner
<1>3. ASSUME UNCHANGED <<requests, issued, epochs, workers>> PROVE QuietStep
  BY <1>2, <1>3 DEF WorkerStep, SameOwner
<1>4. ASSUME NEW w \in Workers, DrainWorker(w) PROVE QuietStep
  BY <1>2, <1>4 DEF DrainWorker, WorkerStep, SameOwner, TypeOK
<1>5. ASSUME NEW w \in Workers, ConfirmRecoveryFence(w) PROVE QuietStep
  <2>1. ASSUME NEW r \in Requests
        PROVE  requests'[r].state = requests[r].state /\ SameOwner(r)
    BY <1>5 DEF ConfirmRecoveryFence, InStates, SameOwner, TypeOK, Rows
  <2>2. QED
    BY <1>5, <2>1 DEF QuietStep, ConfirmRecoveryFence, RowStep, WorkerStep
<1>6. ASSUME NEW S \in SUBSET Workers, DrainWorkersIfClean(S) PROVE QuietStep
  BY <1>2, <1>6 DEF DrainWorkersIfClean, WorkerStep, SameOwner, TypeOK
<1>7. ASSUME NEW t \in Lagging, NEW w \in Workers, RegisterWorker(w, t)
      PROVE  QuietStep
  BY <1>2, <1>7 DEF RegisterWorker, WorkerStep, SameOwner, TypeOK
<1>8. ASSUME NEW t \in Lagging, NEW w \in Workers, HeartbeatWorker(w, t)
      PROVE  QuietStep
  <2>1. ASSUME NEW r \in Requests
        PROVE  requests'[r].state = requests[r].state /\ SameOwner(r)
    BY <1>8 DEF HeartbeatWorker, SameOwner, TypeOK, Rows
  <2>2. \A v \in Workers : workers'[v].state = workers[v].state
    BY <1>8 DEF HeartbeatWorker, TypeOK
  <2>3. QED
    BY <1>8, <2>1, <2>2 DEF QuietStep, HeartbeatWorker, RowStep, WorkerStep
<1>9. ASSUME NEW t \in Lagging, NEW w \in Workers, AssignNone(w, t)
      PROVE  QuietStep
  <2>1. \A r \in Requests : \/ requests'[r] = requests[r]
                            \/ /\ requests[r].state \in {"queued", "recovering"}
                               /\ requests'[r].state = "expired"
    BY <1>9, LaggingType, ExpireStep DEF AssignNone
  <2>2. QED
    BY <1>9, <2>1
       DEF QuietStep, AssignNone, RowStep, WorkerStep, SameOwner, ActiveStates
<1>10. ASSUME NEW t \in Lagging, NEW w \in Workers, QuarantineWorker(w, t)
       PROVE  QuietStep
  <2>1. ASSUME NEW r \in Requests
        PROVE  requests'[r].state = requests[r].state /\ SameOwner(r)
    BY <1>10 DEF QuarantineWorker, SameOwner, TypeOK, Rows
  <2>2. \A v \in Workers : WorkerStep(v)
    BY <1>10, <2>1 DEF QuarantineWorker, WorkerStep, TypeOK
  <2>3. QED
    BY <1>10, <2>1, <2>2 DEF QuietStep, QuarantineWorker, RowStep
<1>11. ASSUME NEW t \in Lagging, NEW a \in issued, Renew(a, t) PROVE QuietStep
  <2>1. ASSUME NEW r \in Requests
        PROVE  requests'[r].state = requests[r].state /\ SameOwner(r)
    BY <1>11 DEF Renew, SameOwner, TypeOK, Rows
  <2>2. QED
    BY <1>11, <2>1 DEF QuietStep, Renew, RowStep, WorkerStep
<1>12. ASSUME NEW t \in Lagging, NEW a \in issued, NEW ok \in BOOLEAN,
              CompleteResponse(a, ok, t)
       PROVE  QuietStep
  <2> DEFINE r == a.request
             serving == Serves(a, ok)
  <2>1. r \in Requests /\ a.worker \in Workers /\ a \in Assignments /\ t \in Nat
    BY LaggingType DEF TypeOK, Assignments
  <2>a. /\ requests[r].state = "assigned"
        /\ requests[r].worker = a.worker
        /\ requests'[r] = Published(a, requests[r], ok, t)
        /\ \A q \in Requests : q # r => requests'[q] = requests[q]
    BY <1>12, <2>1 DEF CompleteResponse, Holds, TypeOK
  <2>2. /\ requests'[r].state \in {"serving", "completed", "recovery_failed"}
        /\ serving => requests'[r].state = "serving"
        /\ SameOwner(r)
    BY <2>1, <2>a, PublishedRow DEF KeepsOwner, SameOwner, TypeOK
  <2>3. \A q \in Requests : RowStep(q)
    BY <2>1, <2>a, <2>2 DEF RowStep, SameOwner, ActiveStates
  <2>4. \A w \in Workers : WorkerStep(w)
    <3>1. CASE serving
      BY <1>12, <3>1, <2>1, <2>a, <2>2 DEF CompleteResponse, WorkerStep, SameOwner, ActiveStates
    <3>2. CASE ~serving
      BY <1>12, <3>2, <2>1, <2>a, <2>2 DEF CompleteResponse, WorkerStep, SameOwner, TypeOK
    <3>3. QED
      BY <3>1, <3>2
  <2>5. QED
    BY <1>12, <2>3, <2>4 DEF QuietStep, CompleteResponse
<1>13. ASSUME NEW t \in Lagging, ClaimDueCheckpoints(t) PROVE QuietStep
  <2>1. ASSUME NEW r \in Requests
        PROVE  requests'[r].state = requests[r].state /\ SameOwner(r)
    <3>1. requests'[r] = requests[r] \/ requests'[r] = Claimed(requests[r], t)
      BY <1>13 DEF ClaimDueCheckpoints
    <3>2. QED
      BY <3>1 DEF Claimed, SameOwner, TypeOK, Rows
  <2>2. QED
    BY <1>13, <2>1 DEF QuietStep, ClaimDueCheckpoints, RowStep, WorkerStep
<1>14. ASSUME NEW t \in Lagging, NEW c \in claims, PublishCheckpoint(c, t)
       PROVE  QuietStep
  <2>1. ASSUME NEW r \in Requests
        PROVE  requests'[r].state = requests[r].state /\ SameOwner(r)
    BY <1>14 DEF PublishCheckpoint, SameOwner, TypeOK, Rows
  <2>2. QED
    BY <1>14, <2>1 DEF QuietStep, PublishCheckpoint, RowStep, WorkerStep
<1>15. ASSUME NEW t \in Lagging, FenceExpired(t) PROVE QuietStep
  <2> DEFINE rows == ExpireQueued(requests, t)
  <2>1. \A r \in Requests : \/ rows[r] = requests[r]
                            \/ /\ requests[r].state \in {"queued", "recovering"}
                               /\ rows[r].state = "expired"
    BY LaggingType, ExpireStep
  <2>2. \A r \in Requests : rows[r] \in Rows
    BY LaggingType, ExpireType DEF TypeOK
  <2>3. /\ \A r \in Requests :
              requests'[r] = IF r \in Lapsed(rows, t) THEN Fenced(r, rows[r], t) ELSE rows[r]
        /\ \A w \in Workers :
              workers'[w] = IF \E r \in Lapsed(rows, t) : rows[r].worker = w
                            THEN [workers[w] EXCEPT !.state = "quarantined"]
                            ELSE workers[w]
    BY <1>15 DEF FenceExpired
  <2> HIDE DEF rows
  <2>4. \A r \in Requests :
          Fenced(r, rows[r], t).state \in {"expired", "queued", "recovering", "recovery_failed"}
    BY <2>2 DEF Fenced, Requeued, Recovering, Rows
  <2>5. \A r \in Requests : RowStep(r)
    BY <2>1, <2>3, <2>4 DEF RowStep, SameOwner, Lapsed, InStates, ActiveStates
  <2>6. \A w \in Workers : WorkerStep(w)
    <3>1. ASSUME NEW w \in Workers, \E r \in Lapsed(rows, t) : rows[r].worker = w
          PROVE  WorkerStep(w)
      BY <3>1, <2>3 DEF WorkerStep, TypeOK
    <3>2. ASSUME NEW w \in Workers, ~\E r \in Lapsed(rows, t) : rows[r].worker = w
          PROVE  WorkerStep(w)
      <4>1. ASSUME NEW r \in Requests, requests[r].state \in ActiveStates,
                   requests[r].worker = w
            PROVE  requests'[r] = requests[r]
        BY <3>2, <4>1, <2>1, <2>3 DEF ActiveStates
      <4>2. workers'[w] = workers[w]
        BY <3>2, <2>3
      <4>3. QED
        BY <4>1, <4>2 DEF WorkerStep, SameOwner
    <3>3. QED
      BY <3>1, <3>2
  <2>7. QED
    BY <1>15, <2>5, <2>6 DEF QuietStep, FenceExpired
<1>16. QED
  BY <1>1, <1>3, <1>4, <1>5, <1>6, <1>7, <1>8, <1>9, <1>10, <1>11, <1>12, <1>13,
     <1>14, <1>15
     DEF Next, vars, SetTenantPolicy, Tick

\* Every step preserves the ownership invariant.
LEMMA NextOwnership ==
    ASSUME TypeOK, TypeOK', OwnershipInvariant, [Next]_vars
    PROVE  OwnershipInvariant'
BY NextSteps, EnqueueOwnership, AssignOwnership, QuietOwnership

\* The ownership invariant holds in every reachable state, for any number of
\* replicas, workers and requests and any lag of their clocks.
THEOREM Ownership == Spec => []OwnershipInvariant
<1>1. TypeOK /\ OwnershipInvariant /\ [Next]_vars => (TypeOK /\ OwnershipInvariant)'
  BY NextTypeOK, NextOwnership
<1>2. QED
  BY <1>1, InitTypeOK, InitOwnership, PTL DEF Spec

\* A worker token is spent at most once: assign_next takes only clean workers and
\* register_worker never makes a used one clean again.
THEOREM TokensSpentOnce == Spec => []TokenSpentOnce
<1>1. OwnershipInvariant => TokenSpentOnce
  BY DEF OwnershipInvariant
<1>2. QED
  BY <1>1, Ownership, PTL

\* Epochs identify the owner of a sandbox: the increment of assignment_epochs in
\* assign_next is never repeated, and an active or completed row has the newest.
THEOREM EpochsFence == Spec => []EpochFencing
<1>1. OwnershipInvariant => EpochFencing
  BY DEF OwnershipInvariant
<1>2. QED
  BY <1>1, Ownership, PTL

\* No superseded worker is left leased, whether complete_inner, cancel,
\* fence_expired or quarantine_worker ended its assignment.
THEOREM NoStaleRoute == Spec => []SupersededNeverRouted
<1>1. OwnershipInvariant => SupersededNeverRouted
  BY DEF OwnershipInvariant
<1>2. QED
  BY <1>1, Ownership, PTL

\* A sandbox has one owner and a worker one sandbox, whatever enqueue,
\* assign_next and the ways an assignment ends do to the rows.
THEOREM OneOwner == Spec => []SingleOwner
<1>1. OwnershipInvariant => SingleOwner
  <2> SUFFICES ASSUME OwnershipInvariant, NEW r \in Active, NEW q \in Active, r # q
               PROVE  /\ requests[r].worker # requests[q].worker
                      /\ Submission[r].sandbox # Submission[q].sandbox
    BY DEF SingleOwner
  <2>1. PICK a \in issued : a.request = r /\ a.worker = requests[r].worker
    BY DEF OwnershipInvariant, EpochFencing, Active, InStates, ActiveStates
  <2>2. PICK b \in issued : b.request = q /\ b.worker = requests[q].worker
    BY DEF OwnershipInvariant, EpochFencing, Active, InStates, ActiveStates
  <2>3. requests[r].worker # requests[q].worker
    BY <2>1, <2>2 DEF OwnershipInvariant, TokenSpentOnce
  <2>4. Submission[r].sandbox # Submission[q].sandbox
    BY DEF OwnershipInvariant, Active, InStates, ActiveStates, LiveStates
  <2>5. QED
    BY <2>3, <2>4
<1>2. QED
  BY <1>1, Ownership, PTL
=============================================================================
