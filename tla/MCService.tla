----------------------------- MODULE MCService -----------------------------
(* Instances of SandboxService for TLC.                                    *)
EXTENDS SandboxService, TLC

CONSTANTS k1, k2, t1, t2

\* Orders for two sandboxes, or two epochs of one.
SomeOffers == {{<<k1, 1>>, <<k2, 1>>}, {<<k1, 1>>, <<k1, 2>>}}
OneOffer == {{<<k1, 1>>}}

Symmetry == Permutations(Threads)
=============================================================================
