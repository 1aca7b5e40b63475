---------------------- MODULE PlacementRecoveryProofs -----------------------
(* Recovery in PlacementStore, for every value of its constants: no second   *)
(* owner before the controller has seen the first one gone, and no more      *)
(* owners than the attempt limit allows.                                     *)
EXTENDS PlacementLimitProofs

(* What every transaction but assign_next does to a recoverable row.         *)
RecoveryStep(r) ==
    \/ /\ requests'[r].state = requests[r].state
       /\ requests'[r].worker = requests[r].worker
       /\ requests'[r].attempts = requests[r].attempts
       /\ requests'[r].fenceWorker = requests[r].fenceWorker
       /\ requests'[r].fenceConfirmed = requests[r].fenceConfirmed
    \/ /\ requests[r].state = "absent" /\ requests'[r].state = "queued"
       /\ requests'[r].attempts = requests[r].attempts
    \/ /\ requests'[r].state \in TerminalStates
       /\ requests'[r].attempts = requests[r].attempts
    \/ /\ requests[r].state \in ActiveStates /\ requests'[r].state = "serving"
       /\ requests'[r].worker = requests[r].worker
       /\ requests'[r].attempts = requests[r].attempts
    \/ /\ requests[r].state \in ActiveStates /\ requests'[r].state = "recovering"
       /\ requests[r].attempts < MaximumAttempts
       /\ requests'[r].attempts = requests[r].attempts + 1
       /\ requests'[r].fenceWorker = requests[r].worker
       /\ requests'[r].fenceConfirmed = FALSE
    \/ /\ requests[r].state = "recovering" /\ requests'[r].state = "recovering"
       /\ requests'[r].attempts = requests[r].attempts
       /\ <<r, requests[r].fenceWorker>> \in confirmed'

\* A step that creates no assignment handle.
UnassignedStep ==
    /\ UNCHANGED issued
    /\ confirmed \subseteq confirmed'
    /\ \A r \in Requests : Submission[r].recoverable => RecoveryStep(r)

HandlesOf(r) == {a \in issued : a.request = r}

\* A request has finitely many handles.
LEMMA HandleCount ==
    ASSUME IsFiniteSet(issued), NEW r
    PROVE  IsFiniteSet(HandlesOf(r)) /\ Cardinality(HandlesOf(r)) \in Nat
<1>1. HandlesOf(r) \in SUBSET issued
  BY DEF HandlesOf
<1>2. IsFiniteSet(HandlesOf(r))
  BY <1>1, FS_Subset
<1>3. QED
  BY <1>2, FS_CardinalityType

\* Such a step preserves the recovery invariant.
LEMMA UnassignedRecovery ==
    ASSUME TypeOK, TypeOK', RecoveryInvariant, IsFiniteSet(issued), UnassignedStep
    PROVE  RecoveryInvariant'
<1> USE DEF UnassignedStep
<1>1. RecoveryAfterFence'
  BY DEF RecoveryInvariant, RecoveryAfterFence
<1>2. ASSUME NEW r \in Requests, Submission[r].recoverable
      PROVE  /\ requests[r].attempts \in Nat
             /\ requests[r].attempts <= MaximumAttempts
             /\ requests'[r].attempts \in Nat
             /\ requests'[r].attempts <= MaximumAttempts
             /\ requests[r].attempts <= requests'[r].attempts
             /\ HandlesOf(r)' = HandlesOf(r)
             /\ Cardinality(HandlesOf(r)) \in Nat
             /\ Cardinality(HandlesOf(r)) <= requests[r].attempts + 1
  <2>1. /\ requests[r].attempts \in Nat
        /\ requests'[r].attempts \in Nat
    BY DEF TypeOK, Rows
  <2>2. /\ requests[r].attempts <= MaximumAttempts
        /\ Cardinality(HandlesOf(r)) <= requests[r].attempts + 1
    BY <1>2 DEF RecoveryInvariant, AttemptsBounded, HandlesOf
  <2>3. requests'[r].attempts <= MaximumAttempts /\ requests[r].attempts <= requests'[r].attempts
    <3>1. \/ requests'[r].attempts = requests[r].attempts
          \/ /\ requests[r].attempts < MaximumAttempts
             /\ requests'[r].attempts = requests[r].attempts + 1
      BY <1>2 DEF RecoveryStep
    <3>2. QED
      BY <3>1, <2>1, <2>2, TimeAssumption
  <2>4. QED
    BY <2>1, <2>2, <2>3, HandleCount DEF HandlesOf
<1>3. AttemptsBounded'
  <2>1. ASSUME NEW r \in Requests, Submission[r].recoverable
        PROVE  /\ requests'[r].attempts <= MaximumAttempts
               /\ Cardinality(HandlesOf(r)') <= requests'[r].attempts + 1
    BY <1>2, <2>1
  <2>2. QED
    BY <2>1 DEF AttemptsBounded, HandlesOf
<1>4. ASSUME NEW b \in issued, Submission[b.request].recoverable
      PROVE  LET row == requests'[b.request]
                 gone == <<b.request, b.worker>> \in confirmed'
             IN  /\ row.state \notin {"absent", "queued"}
                 /\ row.state \in ActiveStates => gone \/ b.worker = row.worker
                 /\ row.state = "recovering" =>
                       gone \/ (~row.fenceConfirmed /\ b.worker = row.fenceWorker)
  <2>1. b.request \in Requests
    BY DEF TypeOK, Assignments
  <2>2. RecoveryStep(b.request)
    BY <1>4, <2>1
  <2>3. /\ requests[b.request].state \notin {"absent", "queued"}
        /\ requests[b.request].state \in ActiveStates =>
              \/ <<b.request, b.worker>> \in confirmed
              \/ b.worker = requests[b.request].worker
        /\ requests[b.request].state = "recovering" =>
              \/ <<b.request, b.worker>> \in confirmed
              \/ /\ ~requests[b.request].fenceConfirmed
                 /\ b.worker = requests[b.request].fenceWorker
    BY <1>4 DEF RecoveryInvariant
  <2>4. QED
    BY <2>2, <2>3 DEF RecoveryStep, ActiveStates, TerminalStates
<1>5. ASSUME NEW r \in Requests, requests'[r].state = "recovering",
             Submission[r].recoverable
      PROVE  Cardinality(HandlesOf(r)') <= requests'[r].attempts
  <2>1. RecoveryStep(r)
    BY <1>5
  <2>2. CASE requests[r].state = "recovering"
    <3>1. Cardinality(HandlesOf(r)) <= requests[r].attempts
      BY <1>5, <2>2 DEF RecoveryInvariant, InStates, HandlesOf
    <3>2. QED
      BY <1>2, <1>5, <3>1
  <2>3. CASE requests[r].state # "recovering"
    <3>1. requests'[r].attempts = requests[r].attempts + 1
      BY <1>5, <2>1, <2>3 DEF RecoveryStep, TerminalStates
    <3>2. QED
      BY <1>2, <1>5, <3>1
  <2>4. QED
    BY <2>2, <2>3
<1>6. QED
  BY <1>1, <1>3, <1>4, <1>5 DEF RecoveryInvariant, InStates, HandlesOf

\* assign_next preserves it: a recoverable request it takes was never assigned
\* or is recovering with its fence confirmed, and the new epoch is the highest.
LEMMA AssignRecovery ==
    ASSUME TypeOK, TypeOK', OwnershipInvariant, RecoveryInvariant, IsFiniteSet(issued),
           NEW t \in Lagging, NEW w \in Workers, AssignNext(w, t)
    PROVE  RecoveryInvariant' /\ IsFiniteSet(issued')
<1> DEFINE rows == ExpireQueued(requests, t)
<1>1. rows \in [Requests -> Rows]
  BY LaggingType, ExpireType DEF TypeOK
<1>2. \A q \in Requests :
        \/ rows[q] = requests[q]
        \/ /\ requests[q].state \in {"queued", "recovering"}
           /\ rows[q].state = "expired"
           /\ rows[q].attempts = requests[q].attempts
  BY LaggingType, ExpireStep
<1>3. PICK r \in Requests :
        /\ Assignable(rows[r])
        /\ LET epoch == epochs[Submission[r].sandbox] + 1
           IN  /\ requests' = [rows EXCEPT ![r] =
                     [@ EXCEPT !.state = "assigned", !.worker = w, !.epoch = epoch,
                               !.lease = t + LeaseLifetime]]
               /\ issued' = issued \cup
                     {[request |-> r, worker |-> w, epoch |-> epoch, op |-> rows[r].op]}
  BY DEF AssignNext, First, Candidates
<1>4. UNCHANGED confirmed
  BY DEF AssignNext
<1> HIDE DEF rows
<1> DEFINE epoch == epochs[Submission[r].sandbox] + 1
           new == [request |-> r, worker |-> w, epoch |-> epoch, op |-> rows[r].op]
<1>5. /\ requests[r] = rows[r]
      /\ Assignable(requests[r])
      /\ requests'[r].state = "assigned"
      /\ requests'[r].worker = w
      /\ requests'[r].attempts = requests[r].attempts
  BY <1>1, <1>2, <1>3 DEF Assignable, Rows
<1>6. \A q \in Requests : q # r => requests'[q] = rows[q]
  BY <1>1, <1>3
<1>7. /\ issued' = issued \cup {new}
      /\ new.request = r /\ new.worker = w /\ new.epoch = epoch
  BY <1>3
<1>8. ASSUME NEW b \in issued
      PROVE  b.request \in Requests /\ b.epoch \in Nat
             /\ epochs[Submission[b.request].sandbox] \in Nat
             /\ b.epoch <= epochs[Submission[b.request].sandbox]
  BY IdentityAssumption DEF TypeOK, Assignments, Submissions, OwnershipInvariant
<1>9. epoch \in Nat
  BY IdentityAssumption DEF TypeOK, Submissions
<1> HIDE DEF new, epoch
\* Every earlier owner of the request is known to be gone.
<1>10. ASSUME NEW b \in issued, b.request = r, Submission[r].recoverable
       PROVE  <<b.request, b.worker>> \in confirmed /\ b.epoch < epoch
  <2>1. <<b.request, b.worker>> \in confirmed
    BY <1>5, <1>10 DEF RecoveryInvariant, Assignable
  <2>2. QED
    BY <2>1, <1>8, <1>10 DEF epoch
<1>11. RecoveryAfterFence'
  <2>1. ASSUME NEW a \in issued', NEW b \in issued', a.request = b.request,
               b.epoch < a.epoch, Submission[a.request].recoverable
        PROVE  <<b.request, b.worker>> \in confirmed'
    <3>1. CASE a \in issued /\ b \in issued
      BY <2>1, <3>1, <1>4 DEF RecoveryInvariant, RecoveryAfterFence
    <3>2. CASE a = new /\ b \in issued
      BY <2>1, <3>2, <1>4, <1>7, <1>10
    <3>3. CASE b = new /\ a \in issued
      <4>1. a.epoch < epoch /\ a.epoch \in Nat
        BY <2>1, <3>3, <1>7, <1>8, <1>10
      <4>2. b.epoch = epoch
        BY <3>3, <1>7
      <4>3. QED
        BY <2>1, <4>1, <4>2, <1>9
    <3>4. CASE a = new /\ b = new
      BY <2>1, <3>4, <1>7, <1>9
    <3>5. QED
      BY <3>1, <3>2, <3>3, <3>4, <1>7
  <2>2. QED
    BY <2>1 DEF RecoveryAfterFence
<1>12. ASSUME NEW q \in Requests, q # r
       PROVE  HandlesOf(q)' = HandlesOf(q)
  BY <1>7, <1>12 DEF HandlesOf
<1>13. ASSUME NEW q \in Requests, q # r
       PROVE  requests'[q].attempts = requests[q].attempts
  BY <1>2, <1>6, <1>13
<1>14. /\ HandlesOf(r)' = HandlesOf(r) \cup {new}
       /\ IsFiniteSet(HandlesOf(r))
       /\ Cardinality(HandlesOf(r)) \in Nat
       /\ Cardinality(HandlesOf(r)') <= Cardinality(HandlesOf(r)) + 1
       /\ Cardinality(HandlesOf(r)') \in Nat
  <2>1. HandlesOf(r)' = HandlesOf(r) \cup {new}
    BY <1>7 DEF HandlesOf
  <2>2. IsFiniteSet(HandlesOf(r)) /\ Cardinality(HandlesOf(r)) \in Nat
    BY HandleCount
  <2>3. /\ IsFiniteSet(HandlesOf(r)')
        /\ Cardinality(HandlesOf(r)') <= Cardinality(HandlesOf(r)) + 1
    BY <2>1, <2>2, AddOne
  <2>4. QED
    BY <2>1, <2>2, <2>3, FS_CardinalityType
<1>15. ASSUME Submission[r].recoverable
       PROVE  Cardinality(HandlesOf(r)) <= requests[r].attempts
  <2>1. CASE requests[r].state = "recovering"
    BY <1>15, <2>1 DEF RecoveryInvariant, InStates, HandlesOf
  <2>2. CASE requests[r].state = "queued"
    <3>1. HandlesOf(r) = {}
      BY <1>15, <2>2 DEF RecoveryInvariant, HandlesOf
    <3>2. requests[r].attempts \in Nat
      BY DEF TypeOK, Rows
    <3>3. QED
      BY <3>1, <3>2, FS_EmptySet
  <2>3. QED
    BY <2>1, <2>2, <1>5 DEF Assignable
<1>16. AttemptsBounded'
  <2>1. ASSUME NEW q \in Requests, Submission[q].recoverable
        PROVE  /\ requests'[q].attempts <= MaximumAttempts
               /\ Cardinality(HandlesOf(q)') <= requests'[q].attempts + 1
    <3>1. /\ requests[q].attempts <= MaximumAttempts
          /\ Cardinality(HandlesOf(q)) <= requests[q].attempts + 1
      BY <2>1 DEF RecoveryInvariant, AttemptsBounded, HandlesOf
    <3>2. requests[r].attempts \in Nat
      BY DEF TypeOK, Rows
    <3>3. CASE q # r
      BY <3>1, <3>3, <1>12, <1>13
    <3>4. CASE q = r
      BY <2>1, <3>1, <3>2, <3>4, <1>5, <1>14, <1>15
    <3>5. QED
      BY <3>3, <3>4
  <2>2. QED
    BY <2>1 DEF AttemptsBounded, HandlesOf
<1>17. ASSUME NEW b \in issued', Submission[b.request].recoverable
       PROVE  LET row == requests'[b.request]
                  gone == <<b.request, b.worker>> \in confirmed'
              IN  /\ row.state \notin {"absent", "queued"}
                  /\ row.state \in ActiveStates => gone \/ b.worker = row.worker
                  /\ row.state = "recovering" =>
                        gone \/ (~row.fenceConfirmed /\ b.worker = row.fenceWorker)
  <2>1. CASE b = new
    BY <2>1, <1>5, <1>7
  <2>2. CASE b \in issued /\ b.request = r
    BY <2>2, <1>4, <1>5, <1>10, <1>17
  <2>3. CASE b \in issued /\ b.request # r
    <3>1. requests'[b.request] = requests[b.request] \/ requests'[b.request].state = "expired"
      BY <2>3, <1>2, <1>6, <1>8
    <3>2. QED
      BY <2>3, <3>1, <1>4, <1>17 DEF RecoveryInvariant, ActiveStates
  <2>4. QED
    BY <2>1, <2>2, <2>3, <1>7
<1>18. ASSUME NEW q \in Requests, requests'[q].state = "recovering",
              Submission[q].recoverable
       PROVE  Cardinality(HandlesOf(q)') <= requests'[q].attempts
  <2>1. q # r
    BY <1>5, <1>18
  <2>2. requests'[q] = requests[q]
    BY <2>1, <1>2, <1>6, <1>18
  <2>3. QED
    BY <2>1, <2>2, <1>12, <1>18 DEF RecoveryInvariant, InStates, HandlesOf
<1>19. IsFiniteSet(issued')
  BY <1>7, AddOne
<1>20. QED
  BY <1>11, <1>16, <1>17, <1>18, <1>19 DEF RecoveryInvariant, InStates, HandlesOf

FailsOrRecovers(row, new) ==
    \/ new.state \in TerminalStates /\ new.attempts = row.attempts
    \/ /\ new.state = "recovering"
       /\ row.attempts < MaximumAttempts
       /\ new.attempts = row.attempts + 1
       /\ new.fenceWorker = row.worker
       /\ new.fenceConfirmed = FALSE

\* fence_expired ends a lapsed recoverable request or makes it wait for its
\* fence; it never sends it back to the plain queue.
LEMMA FencedRecovery ==
    ASSUME NEW r \in Requests, Submission[r].recoverable, NEW row \in Rows, NEW t \in Nat
    PROVE  FailsOrRecovers(row, Fenced(r, row, t))
<1>1. /\ [row EXCEPT !.state = "expired"].state = "expired"
      /\ [row EXCEPT !.state = "expired"].attempts = row.attempts
  BY DEF Rows
<1>2. /\ [row EXCEPT !.state = "recovery_failed", !.pending = NoSnapshot].state
            = "recovery_failed"
      /\ [row EXCEPT !.state = "recovery_failed", !.pending = NoSnapshot].attempts
            = row.attempts
  BY DEF Rows
<1>3. /\ Recovering(row).state = "recovering"
      /\ Recovering(row).attempts = row.attempts + 1
      /\ Recovering(row).fenceWorker = row.worker
      /\ Recovering(row).fenceConfirmed = FALSE
  BY DEF Recovering, Rows
<1>4. RecoveryAllowed(row, t) => row.attempts < MaximumAttempts
  BY DEF RecoveryAllowed
<1>5. QED
  BY <1>1, <1>2, <1>3, <1>4 DEF Fenced, TerminalStates, FailsOrRecovers

\* Every step but assign_next is such a step.
LEMMA NextUnassigned ==
    ASSUME TypeOK, TypeOK', OwnershipInvariant, [Next]_vars
    PROVE  \/ \E t \in Lagging, w \in Workers : AssignNext(w, t)
           \/ UnassignedStep
<1> DEFINE Kept(r) == /\ requests'[r].state = requests[r].state
                      /\ requests'[r].worker = requests[r].worker
                      /\ requests'[r].attempts = requests[r].attempts
                      /\ requests'[r].fenceWorker = requests[r].fenceWorker
                      /\ requests'[r].fenceConfirmed = requests[r].fenceConfirmed
           Expires(r) == /\ requests'[r].state = "expired"
                         /\ requests'[r].attempts = requests[r].attempts
<1>0. ASSUME NEW t \in Lagging, NEW q \in Requests
      PROVE  \/ ExpireQueued(requests, t)[q] = requests[q]
             \/ /\ ExpireQueued(requests, t)[q].state = "expired"
                /\ ExpireQueued(requests, t)[q].attempts = requests[q].attempts
  BY LaggingType, ExpireStep
<1>1. ASSUME NEW r \in Requests, Cancel(r) PROVE UnassignedStep
  <2>1. ASSUME NEW q \in Requests PROVE RecoveryStep(q)
    <3>1. CASE q = r
      BY <1>1, <3>1 DEF Cancel, RecoveryStep, TerminalStates, TypeOK, Rows
    <3>2. CASE q # r
      BY <1>1, <3>2 DEF Cancel, RecoveryStep, TypeOK
    <3>3. QED
      BY <3>1, <3>2
  <2>2. QED
    BY <1>1, <2>1 DEF Cancel, UnassignedStep
<1>2. ASSUME UNCHANGED <<requests, issued, confirmed>> PROVE UnassignedStep
  BY <1>2 DEF UnassignedStep, RecoveryStep
<1>3. ASSUME UNCHANGED <<issued, confirmed>>, \A r \in Requests : Kept(r)
      PROVE  UnassignedStep
  BY <1>3 DEF UnassignedStep, RecoveryStep
<1>4. ASSUME NEW w \in Workers, ConfirmRecoveryFence(w) PROVE UnassignedStep
  <2>1. ASSUME NEW r \in Requests PROVE RecoveryStep(r)
    <3>1. CASE /\ requests[r].state = "recovering"
               /\ ~requests[r].fenceConfirmed
               /\ requests[r].fenceWorker = w
      <4>1. requests'[r] = [requests[r] EXCEPT !.fenceConfirmed = TRUE]
        BY <1>4, <3>1 DEF ConfirmRecoveryFence, InStates
      <4>2. <<r, w>> \in confirmed'
        BY <1>4, <3>1 DEF ConfirmRecoveryFence, InStates
      <4>3. /\ requests'[r].state = "recovering"
            /\ requests'[r].attempts = requests[r].attempts
        BY <3>1, <4>1 DEF TypeOK, Rows
      <4>4. QED
        BY <3>1, <4>2, <4>3 DEF RecoveryStep
    <3>2. CASE ~(/\ requests[r].state = "recovering"
                 /\ ~requests[r].fenceConfirmed
                 /\ requests[r].fenceWorker = w)
      <4>1. requests'[r] = requests[r]
        BY <1>4, <3>2 DEF ConfirmRecoveryFence, InStates
      <4>2. QED
        BY <4>1 DEF RecoveryStep
    <3>3. QED
      BY <3>1, <3>2
  <2>2. QED
    BY <1>4, <2>1 DEF ConfirmRecoveryFence, UnassignedStep
<1>5. ASSUME NEW t \in Lagging, NEW r \in Requests, Enqueue(r, t) PROVE UnassignedStep
  <2> DEFINE rows == ExpireQueued(requests, t)
  <2>1. rows \in [Requests -> Rows]
    BY LaggingType, ExpireType DEF TypeOK
  <2>2. /\ requests[r].state = "absent"
        /\ UNCHANGED <<issued, confirmed>>
        /\ \E f : requests' = [rows EXCEPT ![r] =
                                [@ EXCEPT !.state = "queued", !.fairFinish = f]]
    BY <1>5 DEF Enqueue
  <2>3. \A q \in Requests :
          \/ rows[q] = requests[q]
          \/ rows[q].state = "expired" /\ rows[q].attempts = requests[q].attempts
    BY <1>0
  <2>4. rows[r] = requests[r]
    BY <2>2, LaggingType, ExpireStep
  <2> HIDE DEF rows
  <2>5. requests'[r].state = "queued" /\ requests'[r].attempts = requests[r].attempts
    BY <2>1, <2>2, <2>4 DEF Rows
  <2>6. \A q \in Requests : q # r => requests'[q] = rows[q]
    BY <2>1, <2>2
  <2>7. QED
    BY <2>2, <2>3, <2>5, <2>6 DEF UnassignedStep, RecoveryStep, TerminalStates
<1>6. ASSUME NEW t \in Lagging, NEW w \in Workers, HeartbeatWorker(w, t)
      PROVE  UnassignedStep
  <2>1. ASSUME NEW r \in Requests PROVE Kept(r)
    BY <1>6 DEF HeartbeatWorker, TypeOK, Rows
  <2>2. QED
    BY <1>3, <1>6, <2>1 DEF HeartbeatWorker
<1>7. ASSUME NEW t \in Lagging, NEW w \in Workers, AssignNone(w, t)
      PROVE  UnassignedStep
  BY <1>0, <1>7 DEF AssignNone, UnassignedStep, RecoveryStep, TerminalStates
<1>8. ASSUME NEW t \in Lagging, NEW w \in Workers, QuarantineWorker(w, t)
      PROVE  UnassignedStep
  <2>1. ASSUME NEW r \in Requests PROVE Kept(r)
    BY <1>8 DEF QuarantineWorker, TypeOK, Rows
  <2>2. QED
    BY <1>3, <1>8, <2>1 DEF QuarantineWorker
<1>9. ASSUME NEW t \in Lagging, NEW a \in issued, Renew(a, t) PROVE UnassignedStep
  <2>1. ASSUME NEW r \in Requests PROVE Kept(r)
    BY <1>9 DEF Renew, TypeOK, Rows
  <2>2. QED
    BY <1>3, <1>9, <2>1 DEF Renew
<1>10. ASSUME NEW t \in Lagging, NEW a \in issued, NEW ok \in BOOLEAN,
              CompleteResponse(a, ok, t)
       PROVE  UnassignedStep
  <2>1. a.request \in Requests /\ a \in Assignments /\ t \in Nat
    BY LaggingType DEF TypeOK, Assignments
  <2>2. /\ requests[a.request].state = "assigned"
        /\ requests'[a.request] = Published(a, requests[a.request], ok, t)
        /\ \A q \in Requests : q # a.request => requests'[q] = requests[q]
    BY <1>10, <2>1 DEF CompleteResponse, TypeOK
  <2>3. /\ requests'[a.request].state \in {"serving", "completed", "recovery_failed"}
        /\ requests'[a.request].worker = requests[a.request].worker
        /\ requests'[a.request].attempts = requests[a.request].attempts
    BY <2>1, <2>2, PublishedRow DEF KeepsOwner, TypeOK
  <2>4. \A r \in Requests : RecoveryStep(r)
    BY <2>1, <2>2, <2>3 DEF RecoveryStep, ActiveStates, TerminalStates
  <2>5. QED
    BY <1>10, <2>4 DEF CompleteResponse, UnassignedStep
<1>11. ASSUME NEW t \in Lagging, ClaimDueCheckpoints(t) PROVE UnassignedStep
  <2>1. ASSUME NEW r \in Requests PROVE Kept(r)
    <3>1. requests'[r] = requests[r] \/ requests'[r] = Claimed(requests[r], t)
      BY <1>11 DEF ClaimDueCheckpoints
    <3>2. QED
      BY <3>1 DEF Claimed, TypeOK, Rows
  <2>2. QED
    BY <1>3, <1>11, <2>1 DEF ClaimDueCheckpoints
<1>12. ASSUME NEW t \in Lagging, NEW c \in claims, PublishCheckpoint(c, t)
       PROVE  UnassignedStep
  <2>1. ASSUME NEW r \in Requests PROVE Kept(r)
    BY <1>12, SMTT(30) DEF PublishCheckpoint, TypeOK, Rows
  <2>2. QED
    BY <1>3, <1>12, <2>1 DEF PublishCheckpoint
<1>13. ASSUME NEW t \in Lagging, FenceExpired(t) PROVE UnassignedStep
  <2> DEFINE rows == ExpireQueued(requests, t)
  <2>1. ASSUME NEW r \in Requests, Submission[r].recoverable PROVE RecoveryStep(r)
    <3>1. rows[r] \in Rows /\ t \in Nat
      BY LaggingType, ExpireType, ZenonT(60) DEF TypeOK
    <3>2. requests'[r] = IF r \in Lapsed(rows, t) THEN Fenced(r, rows[r], t) ELSE rows[r]
      BY <1>13 DEF FenceExpired
    <3>3. \/ rows[r] = requests[r]
          \/ rows[r].state = "expired" /\ rows[r].attempts = requests[r].attempts
      BY <1>0
    <3> HIDE DEF rows
    <3>4. CASE r \notin Lapsed(rows, t)
      BY <3>2, <3>3, <3>4 DEF RecoveryStep, TerminalStates
    <3>5. CASE r \in Lapsed(rows, t)
      <4>1. rows[r] = requests[r] /\ requests[r].state \in ActiveStates
        BY <3>3, <3>5 DEF Lapsed, InStates, ActiveStates
      <4>2. requests'[r] = Fenced(r, requests[r], t)
        BY <3>2, <3>5, <4>1
      <4>3. QED
        <5>1. requests[r] \in Rows
          BY DEF TypeOK
        <5>2. FailsOrRecovers(requests[r], requests'[r])
          BY <2>1, <3>1, <4>2, <5>1, FencedRecovery
        <5>3. QED
          BY <4>1, <5>2 DEF FailsOrRecovers, RecoveryStep
    <3>6. QED
      BY <3>4, <3>5
  <2>2. QED
    BY <1>13, <2>1 DEF FenceExpired, UnassignedStep
<1>14. QED
  BY <1>1, <1>2, <1>4, <1>5, <1>6, <1>7, <1>8, <1>9, <1>10, <1>11, <1>12, <1>13
     DEF Next, vars, SetTenantPolicy, Tick, DrainWorker, DrainWorkersIfClean, RegisterWorker

\* The recovery invariant holds of the empty tables.
LEMMA InitRecovery == Init => RecoveryInvariant /\ IsFiniteSet(issued)
<1> SUFFICES ASSUME Init PROVE RecoveryInvariant /\ IsFiniteSet(issued)
  OBVIOUS
<1>1. issued = {} /\ \A r \in Requests : requests[r].attempts = 0 /\ HandlesOf(r) = {}
  BY DEF Init, EmptyRow, HandlesOf
<1>2. AttemptsBounded
  BY <1>1, FS_EmptySet, TimeAssumption DEF AttemptsBounded, HandlesOf
<1>3. InStates(requests, {"recovering"}) = {}
  BY DEF Init, EmptyRow, InStates
<1>4. QED
  BY <1>1, <1>2, <1>3, FS_EmptySet DEF RecoveryInvariant, RecoveryAfterFence

RecoverySafety ==
    TypeOK /\ OwnershipInvariant /\ RecoveryInvariant /\ IsFiniteSet(issued)

\* The recovery invariant holds in every reachable state: fence_expired resets
\* the fence before each recovery and only confirm_recovery_fence sets it.
THEOREM Recovery == Spec => []RecoveryInvariant
<1>1. Init => RecoverySafety
  BY InitTypeOK, InitOwnership, InitRecovery DEF RecoverySafety
<1>2. ASSUME RecoverySafety, [Next]_vars PROVE RecoverySafety'
  <2>1. TypeOK' /\ OwnershipInvariant'
    BY <1>2, NextTypeOK, NextOwnership DEF RecoverySafety
  <2>2. CASE UnassignedStep
    BY <1>2, <2>1, <2>2, UnassignedRecovery DEF RecoverySafety, UnassignedStep
  <2>3. ASSUME NEW t \in Lagging, NEW w \in Workers, AssignNext(w, t)
        PROVE  RecoverySafety'
    BY <1>2, <2>1, <2>3, AssignRecovery DEF RecoverySafety
  <2>4. QED
    BY <1>2, <2>1, <2>2, <2>3, NextUnassigned DEF RecoverySafety
<1>3. RecoverySafety => RecoveryInvariant
  BY DEF RecoverySafety
<1>4. QED
  BY <1>1, <1>2, <1>3, PTL DEF Spec

\* assign_next hands a recoverable request to a new worker only when the fence of
\* every earlier owner has been confirmed.
THEOREM RecoveryFenced == Spec => []RecoveryAfterFence
<1>1. RecoveryInvariant => RecoveryAfterFence
  BY DEF RecoveryInvariant
<1>2. QED
  BY <1>1, Recovery, PTL

\* The attempt limit fence_expired checks bounds how many workers assign_next ever
\* gives a recoverable request.
THEOREM AttemptLimit == Spec => []AttemptsBounded
<1>1. RecoveryInvariant => AttemptsBounded
  BY DEF RecoveryInvariant
<1>2. QED
  BY <1>1, Recovery, PTL
=============================================================================
