------------------------------ MODULE AuditChain ------------------------------
(***************************************************************************)
(* The audit log of one project and the chain of checkpoints that replaces *)
(* its oldest rows (persistence/maintenance.py, audit_serialization.py),   *)
(* exported and verified offline.                                          *)
(*                                                                         *)
(* audit_log is one AUTOINCREMENT table for all projects: the rows of a    *)
(* project have increasing numbers with gaps.  A digest is the number of   *)
(* its checkpoint: the hash is taken over the previous digest and rows no  *)
(* other checkpoint has, so it is a new value every time.                  *)
(***************************************************************************)
EXTENDS Integers, FiniteSets

CONSTANTS
  Exporters,   \* processes that export the chain
  KeepValues,  \* values of the policy audit_keep_entries
  Purges,      \* how many terminal memories one maintenance may purge
  MaxSeq       \* bound on the numbers drawn

ASSUME AuditAssumption ==
  /\ KeepValues \subseteq Nat /\ Purges \subseteq Nat
  /\ MaxSeq \in Nat

VARIABLES
  seq,       \* last number drawn by audit_log
  rows,      \* numbers of the rows of the project in audit_log
  recorded,  \* history: every row the project ever had in this database
  chain,     \* rows of audit_checkpoints
  reading,   \* the export in progress of each process
  bundle     \* the last bundle exported

auditVars == <<seq, rows, recorded, chain, reading, bundle>>

NoDigest == 0
NoBundle == [project |-> "none"]

AuditInit ==
  /\ seq = 0 /\ rows = {} /\ recorded = {} /\ chain = {}
  /\ reading = [p \in Exporters |-> NoBundle]
  /\ bundle = NoBundle

-----------------------------------------------------------------------------
(* Writing and pruning                                                     *)

\* _audit in the transaction of a write of the project ...
AuditedWrite ==
  /\ seq < MaxSeq
  /\ seq' = seq + 1
  /\ rows' = rows \cup {seq + 1}
  /\ recorded' = recorded \cup {seq + 1}
  /\ UNCHANGED <<chain, reading, bundle>>

\* ... and of any other project.
WriteElsewhere ==
  /\ seq < MaxSeq
  /\ seq' = seq + 1
  /\ UNCHANGED <<rows, recorded, chain, reading, bundle>>

\* ORDER BY through_seq DESC LIMIT 1: the newest checkpoint's digest.
LatestDigest ==
  IF chain = {} THEN NoDigest
  ELSE (CHOOSE c \in chain : \A d \in chain : d.through <= c.through).digest

\* build_audit_checkpoint over the rows from the first to the given one.
Checkpoint(pruned, first, last) ==
  [from |-> first,
   through |-> last,
   count |-> Cardinality(pruned),
   previous |-> LatestDigest,
   digest |-> Cardinality(chain) + 1]

\* The oldest rows beyond the number kept: those with that many newer ones.
Outdated(all, keep, s) == Cardinality({t \in all : t > s}) >= keep

\* Fault in Left: the last row of the checkpoint is not deleted.
LeftOffByOne(all, last) == {s \in all : s >= last}

\* DELETE up to the last row of the checkpoint.
Left(all, last) == {s \in all : s > last}

\* maintain(apply): n terminal memories are deleted with an audit row each,
\* then the oldest rows beyond the policy are replaced by a checkpoint.  All
\* is read again inside the transaction, but the policy: keep and n come
\* from reads before it.
Maintain(keep, n) ==
  LET all == rows \cup (seq + 1)..(seq + n)
      pruned == {s \in all : Outdated(all, keep, s)}
  IN /\ seq + n <= MaxSeq
     /\ n > 0 \/ pruned # {}
     /\ seq' = seq + n
     /\ recorded' = recorded \cup (seq + 1)..(seq + n)
     /\ IF pruned = {} THEN rows' = all /\ UNCHANGED chain
        ELSE \E first, last \in pruned :
               /\ \A s \in pruned : first <= s /\ s <= last
               /\ chain' = chain \cup {Checkpoint(pruned, first, last)}
               /\ rows' = Left(all, last)
     /\ UNCHANGED <<reading, bundle>>

-----------------------------------------------------------------------------
(* Exporting and verifying                                                 *)

HeadOf(checkpoints) ==
  IF checkpoints = {} THEN NoDigest
  ELSE (CHOOSE c \in checkpoints : \A d \in checkpoints : d.through <= c.through).digest

\* export_audit_chain reads the checkpoints ...
ExportFirst ==
  [project |-> "exported", checkpoints |-> chain, head |-> HeadOf(chain), entries |-> {}]

\* Fault in ExportSecond: the head is looked up when the rows are read.
ExportSecondHead(b) == [b EXCEPT !.entries = rows, !.head = HeadOf(chain)]

\* ... and then, in another statement, the rows.
ExportSecond(b) == [b EXCEPT !.entries = rows]

ExportStart(p) ==
  /\ reading[p] = NoBundle
  /\ reading' = [reading EXCEPT ![p] = ExportFirst]
  /\ UNCHANGED <<seq, rows, recorded, chain, bundle>>

ExportEnd(p) ==
  /\ reading[p] # NoBundle
  /\ bundle' = ExportSecond(reading[p])
  /\ reading' = [reading EXCEPT ![p] = NoBundle]
  /\ UNCHANGED <<seq, rows, recorded, chain>>

\* verify_audit_chain_bundle: sound ranges in order, each checkpoint chained
\* to the one before it, and the rows after them all.
Verifies(b) ==
  /\ \A c \in b.checkpoints :
       /\ c.from <= c.through /\ c.count >= 1 /\ c.count <= c.through - c.from + 1
       /\ c.previous = HeadOf({d \in b.checkpoints : d.through < c.through})
       /\ \A d \in b.checkpoints \ {c} : d.through < c.from \/ c.through < d.from
       /\ \A s \in b.entries : s > c.through
  /\ b.head = HeadOf(b.checkpoints)

AuditNext ==
  \/ AuditedWrite \/ WriteElsewhere
  \/ \E keep \in KeepValues, n \in Purges : Maintain(keep, n)
  \/ \E p \in Exporters : ExportStart(p) \/ ExportEnd(p)

AuditSpec == AuditInit /\ [][AuditNext]_auditVars

-----------------------------------------------------------------------------
(* Properties                                                              *)

Covers(c, s) == c.from <= s /\ s <= c.through

\* No audited write is lost between the log and the chain, and none counts
\* twice: it is in the log or under one checkpoint, whose count is right.
EveryRowOnce ==
  /\ \A s \in recorded :
       IF s \in rows THEN \A c \in chain : ~Covers(c, s)
       ELSE \E c \in chain : Covers(c, s) /\ \A d \in chain : Covers(d, s) => d = c
  /\ \A c \in chain : c.count = Cardinality({s \in recorded : Covers(c, s)})

\* What an honest database exports verifies, though the two reads of the
\* export may have a prune between them.
ExportVerifies == bundle # NoBundle => Verifies(bundle)

\* The chain in the database is one an export of both tables would verify.
ChainSound ==
  Verifies([project |-> "exported", checkpoints |-> chain, head |-> HeadOf(chain),
            entries |-> rows])
=============================================================================
