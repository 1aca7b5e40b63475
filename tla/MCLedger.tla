------------------------------ MODULE MCLedger ------------------------------
(* Instances of AssignmentLedger for TLC.                                   *)
EXTENDS AssignmentLedger

CONSTANTS k1, k2, s1, s2

Symmetry == Permutations(Keys) \cup Permutations(Snapshots)
=============================================================================
