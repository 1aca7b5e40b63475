----------------------------- MODULE MCJournal -----------------------------
(* Instances of DurableJournal for TLC.                                     *)
EXTENDS DurableJournal

CONSTANTS t1, t2, a, b

Shortened == {<<b>>}
=============================================================================
