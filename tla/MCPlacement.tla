---------------------------- MODULE MCPlacement ----------------------------
(* Instances of PlacementStore for TLC.                                    *)
EXTENDS PlacementStore, TLC

CONSTANTS r1, r2, r3, w1, w2, w3, n1, n2, s1, s2, s3

Request(n, s, k, rec, d) ==
    [tenant |-> n, sandbox |-> s, class |-> "pool", kind |-> k,
     recoverable |-> rec, deadline |-> d]

OneClass == [w \in Workers |-> "pool"]

Policy(weight, concurrency, queue) ==
    [weight |-> weight, concurrencyLimit |-> concurrency, queueLimit |-> queue]

LoosePolicy == Policy(1, 2, 2)
TightPolicy == Policy(2, 1, 1)
NoChoice == {DefaultPolicy}
WidePolicy == Policy(1, 3, 3)
WideOrTight == {WidePolicy, TightPolicy}

\* Two tenants; r1 and r2 are rival submissions for one sandbox.
SchedulingSubmission ==
    [r \in Requests |->
        CASE r = r1 -> Request(n1, s1, "create", FALSE, 3)
          [] r = r2 -> Request(n1, s1, "run", FALSE, 3)
          [] OTHER  -> Request(n2, s2, "run", FALSE, 2)]

\* One recoverable service, and with r2 a rival for its sandbox.
RecoverySubmission ==
    [r \in Requests |->
        IF r = r1 THEN Request(n1, s1, "create", TRUE, 9)
                  ELSE Request(n1, s1, "run", FALSE, 3)]

\* Three sandboxes of one tenant, more than the limits let run at once.
ThreeSandboxes ==
    [r \in Requests |->
        CASE r = r1 -> Request(n1, s1, "run", FALSE, 9)
          [] r = r2 -> Request(n1, s2, "create", FALSE, 9)
          [] OTHER  -> Request(n1, s3, "run", FALSE, 9)]

\* A recoverable service and a batch run, both due within the modelled time.
LivenessSubmission ==
    [r \in Requests |->
        IF r = r1 THEN Request(n1, s1, "create", TRUE, 2)
                  ELSE Request(n1, s1, "run", FALSE, 2)]

NoContention == {{}}
AnyRowLocked == {{}} \cup {{r} : r \in Requests}

WorkerSymmetry == Permutations(Workers)
=============================================================================
