------------------------- MODULE MCMemoryLifecycle -------------------------
(* Instances of MemoryLifecycle for TLC.                                   *)
EXTENDS MemoryLifecycle, TLC

CONSTANTS m1, m2, m3, e1, e2, r1, r2, home

\* Every revision is one of the same page.
SamePage == [r \in Revisions |-> home]

Settled == {"proposed", "active"}
Ended == {"active", "expired"}

Symmetry == Permutations(Ids)
=============================================================================
