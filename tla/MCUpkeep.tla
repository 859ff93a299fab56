------------------------------- MODULE MCUpkeep -------------------------------
(***************************************************************************)
(* Instances for TLC of what has to end: the purge of terminal memories    *)
(* and the erasures of the hosted service, in one run.  The initial state  *)
(* chooses which of the two moves.                                         *)
(***************************************************************************)
EXTENDS MemoryLifecycle, HostedErasure, TLC

CONSTANTS m1, e1, e2, home

VARIABLE part

upkeepVars == <<vars, erasureVars, part>>

UpkeepInit == Init /\ ErasureInit /\ part \in {"memory", "erasure"}

MoveMemory == part = "memory" /\ Next /\ UNCHANGED <<erasureVars, part>>
MoveErasure == part = "erasure" /\ ErasureNext /\ UNCHANGED <<vars, part>>

\* The fairness of FairSpec and of FairErasureSpec; a step of a part that does
\* not move is disabled.
UpkeepSpec ==
  /\ UpkeepInit /\ [][MoveMemory \/ MoveErasure]_upkeepVars
  /\ \A p \in Maintainers :
       /\ SF_upkeepVars(MoveMemory /\ PurgeRead(p))
       /\ SF_upkeepVars(MoveMemory /\ PurgeWrite(p))
  /\ \A op \in 1..MaxOps : SF_upkeepVars(MoveErasure /\ TakenUp(op))
  /\ \A w \in Workers : WF_upkeepVars(MoveErasure /\ Proceed(w))
  /\ \A b \in BackupIds :
       /\ WF_upkeepVars(MoveErasure /\ ProviderDeletes(b))
       /\ WF_upkeepVars(MoveErasure /\ MarkBackupDeleted(b))

SamePage == [r \in Revisions |-> home]
Settled == {"proposed", "active"}
Ended == {"active", "expired"}
=============================================================================
