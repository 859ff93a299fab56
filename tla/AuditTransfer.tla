----------------------------- MODULE AuditTransfer -----------------------------
(***************************************************************************)
(* The audit log and its chain when a project moves to another store: the  *)
(* export of persistence/transfer.py read back by import_project.          *)
(***************************************************************************)
EXTENDS AuditChain

CONSTANT Bases \* numbers the other store may have drawn for its own projects

\* import_project into another store, in one transaction: each audit row is
\* inserted without its number, so AUTOINCREMENT draws a new one, in the order
\* of the old; the checkpoints are inserted as they were exported.  From here
\* on the project lives in that store.
Restore(base) ==
  LET last == base + Cardinality(rows)
  IN /\ last <= MaxSeq
     /\ seq' = last
     /\ rows' = (base + 1)..last
     /\ recorded' = rows'
     /\ reading' = [p \in Exporters |-> NoBundle]
     /\ bundle' = NoBundle
     /\ UNCHANGED chain

AuditTransferNext == AuditNext \/ \E base \in Bases : Restore(base)

AuditTransferSpec == AuditInit /\ [][AuditTransferNext]_auditVars

\* Which of two checkpoints with the same last row is taken for the newest is
\* up to the index.
LastRowsDiffer == \A c, d \in chain : c.through = d.through => c = d

\* src/docs/ARCHITECTURE.md:36: maintenance replaces rows "with an append-only
\* SHA-256 checkpoint chained to the previous checkpoint".  So no two
\* checkpoints follow the same one.  After a restore the newest checkpoint is
\* still looked for by numbers that are the other store's, and although it is
\* a single one, two later checkpoints follow it.
ChainedToPrevious ==
  LastRowsDiffer => \A c, d \in chain : c.previous = d.previous => c = d
=============================================================================
