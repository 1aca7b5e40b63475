------------------------ MODULE PlacementLimitProofs ------------------------
(* The concurrency limits of PlacementStore, for every value of its          *)
(* constants: only assign_next lets the set of active requests grow, by one  *)
(* request, and only below both limits.                                      *)
EXTENDS PlacementProofs, FiniteSetTheorems

\* Adding one element adds at most one to the cardinality.
LEMMA AddOne ==
    ASSUME NEW S, NEW x, IsFiniteSet(S)
    PROVE  /\ IsFiniteSet(S \cup {x})
           /\ Cardinality(S \cup {x}) <= Cardinality(S) + 1
<1>1. Cardinality(S) \in Nat
  BY FS_CardinalityType
<1>2. /\ IsFiniteSet(S \cup {x})
      /\ Cardinality(S \cup {x}) = IF x \in S THEN Cardinality(S) ELSE Cardinality(S) + 1
  BY FS_AddElement, Zenon
<1>3. QED
  BY <1>1, <1>2

\* expire_queued leaves the active requests alone.
LEMMA ExpireActive ==
    ASSUME TypeOK, NEW t \in Lagging
    PROVE  InStates(ExpireQueued(requests, t), ActiveStates) = Active
<1>1. \A r \in Requests :
        \/ ExpireQueued(requests, t)[r] = requests[r]
        \/ /\ requests[r].state \in {"queued", "recovering"}
           /\ ExpireQueued(requests, t)[r].state = "expired"
  BY LaggingType, ExpireStep
<1>2. QED
  BY <1>1 DEF Active, InStates, ActiveStates

\* A quiet step activates no request.
LEMMA QuietActive ==
    ASSUME QuietStep
    PROVE  Active' \subseteq Active
BY DEF QuietStep, RowStep, Active, InStates, ActiveStates

\* Nor does enqueue.
LEMMA EnqueueActive ==
    ASSUME TypeOK, NEW t \in Lagging, NEW r \in Requests, Enqueue(r, t)
    PROVE  Active' = Active
<1> DEFINE rows == ExpireQueued(requests, t)
<1>1. rows \in [Requests -> Rows]
  BY LaggingType, ExpireType DEF TypeOK
<1>2. InStates(rows, ActiveStates) = Active
  BY ExpireActive
<1>3. PICK f : requests' = [rows EXCEPT ![r] = [@ EXCEPT !.state = "queued",
                                                         !.fairFinish = f]]
  BY DEF Enqueue
<1>4. r \notin Active
  BY DEF Enqueue, Active, InStates, ActiveStates
<1> HIDE DEF rows
<1>5. /\ requests'[r].state = "queued"
      /\ \A q \in Requests : q # r => requests'[q] = rows[q]
  BY <1>1, <1>3 DEF Rows
<1>6. QED
  BY <1>2, <1>4, <1>5 DEF Active, InStates, ActiveStates

\* assign_next activates exactly one request, having counted fewer active ones
\* than both limits.
LEMMA AssignActive ==
    ASSUME TypeOK, NEW t \in Lagging, NEW w \in Workers, AssignNext(w, t)
    PROVE  /\ Cardinality(Active) < GlobalConcurrencyLimit
           /\ \E r \in Requests :
                 /\ r \notin Active
                 /\ Active' = Active \cup {r}
                 /\ LET n == Submission[r].tenant
                    IN  Cardinality(Active \cap OfTenant(n))
                            < tenants[n].policy.concurrencyLimit
<1> DEFINE rows == ExpireQueued(requests, t)
<1>1. rows \in [Requests -> Rows]
  BY LaggingType, ExpireType DEF TypeOK
<1>2. InStates(rows, ActiveStates) = Active
  BY ExpireActive
<1>3. PICK r \in Requests :
        /\ rows[r].state \in {"queued", "recovering"}
        /\ BelowTenantLimit(rows, Submission[r].tenant)
        /\ \E e : requests' = [rows EXCEPT ![r] =
              [@ EXCEPT !.state = "assigned", !.worker = w, !.epoch = e,
                        !.lease = t + LeaseLifetime]]
  BY DEF AssignNext, First, Candidates, Assignable
<1>4. BelowGlobalLimit(rows)
  BY DEF AssignNext
<1> HIDE DEF rows
<1>5. /\ requests'[r].state = "assigned"
      /\ \A q \in Requests : q # r => requests'[q] = rows[q]
  BY <1>1, <1>3 DEF Rows
<1>6. r \notin Active
  BY <1>2, <1>3 DEF InStates, ActiveStates
<1>7. Active' = Active \cup {r}
  BY <1>2, <1>5 DEF Active, InStates, ActiveStates
<1>8. QED
  BY <1>2, <1>3, <1>4, <1>6, <1>7 DEF BelowGlobalLimit, BelowTenantLimit

GlobalLimitInvariant == IsFiniteSet(Active) /\ ConcurrencyBounded

\* No request is active in the empty tables.
LEMMA InitGlobalLimit == Init => GlobalLimitInvariant
<1> SUFFICES ASSUME Init PROVE GlobalLimitInvariant
  OBVIOUS
<1>1. Active = {}
  BY DEF Init, EmptyRow, Active, InStates, ActiveStates
<1>2. QED
  BY <1>1, FS_EmptySet, LimitAssumption DEF GlobalLimitInvariant, ConcurrencyBounded

\* Every step keeps the number of active requests within the global limit.
LEMMA NextGlobalLimit ==
    ASSUME TypeOK, TypeOK', GlobalLimitInvariant, [Next]_vars
    PROVE  GlobalLimitInvariant'
<1> USE DEF GlobalLimitInvariant, ConcurrencyBounded
<1>1. CASE Active' \subseteq Active
  <2>1. IsFiniteSet(Active') /\ Cardinality(Active') <= Cardinality(Active)
    BY <1>1, FS_Subset
  <2>2. QED
    BY <2>1, FS_CardinalityType, LimitAssumption
<1>2. ASSUME NEW t \in Lagging, NEW w \in Workers, AssignNext(w, t)
      PROVE  GlobalLimitInvariant'
  <2>1. PICK r : Active' = Active \cup {r}
    BY <1>2, AssignActive
  <2>2. /\ IsFiniteSet(Active')
        /\ Cardinality(Active') <= Cardinality(Active) + 1
        /\ Cardinality(Active) \in Nat
    <3>1. Cardinality(Active) \in Nat
      BY FS_CardinalityType
    <3>2. QED
      BY <2>1, <3>1, AddOne
  <2>3. Cardinality(Active) < GlobalConcurrencyLimit
    BY <1>2, AssignActive
  <2>4. Cardinality(Active') \in Nat
    BY <2>2, FS_CardinalityType
  <2>5. QED
    BY <2>2, <2>3, <2>4, LimitAssumption
<1>3. QED
  BY <1>1, <1>2, NextSteps, QuietActive, EnqueueActive

\* assign_next never lets more than global_concurrency_limit requests run,
\* however many replicas call it and however requests come and go.
THEOREM GlobalLimit == Spec => []ConcurrencyBounded
<1>1. TypeOK /\ GlobalLimitInvariant /\ [Next]_vars => (TypeOK /\ GlobalLimitInvariant)'
  BY NextTypeOK, NextGlobalLimit
<1>2. GlobalLimitInvariant => ConcurrencyBounded
  BY DEF GlobalLimitInvariant
<1>3. QED
  BY <1>1, <1>2, InitTypeOK, InitGlobalLimit, PTL DEF Spec

\* A step that gives a tenant one more active request respects the tenant's
\* concurrency limit, also when the operator lowers it meanwhile.
THEOREM TenantLimit == Spec => TenantShareRespected
<1> DEFINE Share ==
      \A n \in Tenants :
          Cardinality(Active' \cap OfTenant(n)) > Cardinality(Active \cap OfTenant(n))
          => Cardinality(Active' \cap OfTenant(n)) <= tenants[n].policy.concurrencyLimit
<1>1. ASSUME TypeOK, TypeOK', GlobalLimitInvariant, [Next]_vars PROVE Share
  <2> SUFFICES ASSUME NEW n \in Tenants PROVE Share!(n)
    OBVIOUS
  <2> DEFINE S == Active \cap OfTenant(n)
             T == Active' \cap OfTenant(n)
  <2>1. IsFiniteSet(S) /\ Cardinality(S) \in Nat
    BY <1>1, FS_Subset, FS_CardinalityType DEF GlobalLimitInvariant
  <2>2. CASE Active' \subseteq Active
    <3>1. T \subseteq S
      BY <2>2
    <3>2. IsFiniteSet(T) /\ Cardinality(T) <= Cardinality(S)
      BY <2>1, <3>1, FS_Subset
    <3>3. Cardinality(T) \in Nat
      BY <3>2, FS_CardinalityType
    <3>4. QED
      BY <2>1, <3>2, <3>3
  <2>3. ASSUME NEW t \in Lagging, NEW w \in Workers, AssignNext(w, t)
        PROVE  Share!(n)
    <3>1. PICK r \in Requests :
            /\ Active' = Active \cup {r}
            /\ Cardinality(Active \cap OfTenant(Submission[r].tenant))
                  < tenants[Submission[r].tenant].policy.concurrencyLimit
      BY <1>1, <2>3, AssignActive
    <3>2. CASE Submission[r].tenant = n
      <4>1. T = S \cup {r}
        BY <3>1, <3>2 DEF OfTenant
      <4>2. Cardinality(T) <= Cardinality(S) + 1 /\ IsFiniteSet(T)
        BY <4>1, <2>1, AddOne
      <4>3. Cardinality(T) \in Nat
        BY <4>2, FS_CardinalityType
      <4>4. tenants[n].policy.concurrencyLimit \in Nat
        BY <1>1 DEF TypeOK, TenantPolicies
      <4>5. QED
        BY <2>1, <3>1, <3>2, <4>2, <4>3, <4>4
    <3>3. CASE Submission[r].tenant # n
      <4>1. r \notin OfTenant(n)
        BY <3>3 DEF OfTenant
      <4>2. T = S
        BY <3>1, <4>1
      <4>3. QED
        BY <4>2, <2>1
    <3>4. QED
      BY <3>2, <3>3
  <2>4. QED
    BY <1>1, <2>2, <2>3, NextSteps, QuietActive, EnqueueActive
<1>2. TypeOK /\ GlobalLimitInvariant /\ [Next]_vars
        => (TypeOK /\ GlobalLimitInvariant)' /\ [Share]_vars
  BY <1>1, NextTypeOK, NextGlobalLimit
<1>3. QED
  BY <1>2, InitTypeOK, InitGlobalLimit, PTL DEF Spec, TenantShareRespected
=============================================================================
