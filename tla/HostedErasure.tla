----------------------------- MODULE HostedErasure -----------------------------
(***************************************************************************)
(* Erasure of a tenant, project or actor of the hosted service             *)
(* (hosted_governance.py) over the content and the identity store          *)
(* (hosted_content.py, hosted_identity.py), and the registry of           *)
(* the backup objects a storage provider keeps.                            *)
(*                                                                         *)
(* The three stores are three databases: execute_erasure is a sequence of  *)
(* transactions, each followed by its mark in a journal, and a worker may  *)
(* die between any two.  A worker retries what is in the journal.          *)
(***************************************************************************)
EXTENDS Naturals, FiniteSets

CONSTANTS
  Clients,     \* requests for an erasure
  Workers,     \* workers that execute erasures
  ErasureKeys, \* idempotency keys of request_erasure
  Kinds,       \* what is erased: "tenant", "project", "actor"
  BackupIds,   \* ids of backups
  MaxOps,      \* bound on the operations
  MaxDeaths    \* bound on the deaths of workers

ASSUME ErasureAssumption ==
  /\ Kinds \subseteq {"tenant", "project", "actor"}
  /\ MaxOps \in Nat /\ MaxDeaths \in Nat

VARIABLES
  content,  \* roots in the content store: subset of {"tenant", "project"}
  identity, \* roots in the identity store: subset of {"tenant", "project", "actor"}
  journal,  \* rows of hosted_erasure_journal
  receipts, \* rows of hosted_erasure_receipts
  registry, \* rows of hosted_backup_registry
  objects,  \* backup objects at the provider
  asking,   \* the request in progress of each client
  working,  \* the execution in progress of each worker
  ops,      \* operation ids drawn
  deaths,   \* deaths of workers
  renewed   \* history: <<op, root>>: the root was provisioned after the operation was requested

erasureVars == <<content, identity, journal, receipts, registry, objects, asking, working,
                 ops, deaths, renewed>>

NotAsking == [op |-> "none"]
NotWorking == [at |-> "none"]

ErasureInit ==
  /\ content = {"tenant", "project"} /\ identity = {"tenant", "project", "actor"}
  /\ journal = {} /\ receipts = {} /\ registry = {} /\ objects = {}
  /\ asking = [c \in Clients |-> NotAsking]
  /\ working = [w \in Workers |-> NotWorking]
  /\ ops = 0 /\ deaths = 0 /\ renewed = {}

storeVars == <<content, identity, renewed>>
backupVars == <<registry, objects>>

\* What the erasure of each kind takes from a store.
Erased(kind) == IF kind = "tenant" THEN {"tenant", "project", "actor"} ELSE {kind}

-----------------------------------------------------------------------------
(* request_erasure                                                         *)

Ask(c, s) == asking' = [asking EXCEPT ![c] = s]

\* A receipt with the key answers an equal request and refuses another.
AskReceipt(c, key, kind) ==
  /\ asking[c] = NotAsking
  /\ \A r \in receipts : r.key # key
  /\ Ask(c, [op |-> "journal", key |-> key, kind |-> kind])
  /\ UNCHANGED <<storeVars, journal, receipts, backupVars, working, ops, deaths>>

\* Then, in a statement of its own, so does a row of the journal.
AskJournal(c) ==
  /\ asking[c].op = "journal"
  /\ IF \E j \in journal : j.key = asking[c].key THEN Ask(c, NotAsking)
     ELSE Ask(c, [asking[c] EXCEPT !.op = "insert"])
  /\ UNCHANGED <<storeVars, journal, receipts, backupVars, working, ops, deaths>>

\* The key is UNIQUE in the journal; the operation is new.
AskInsert(c) ==
  /\ asking[c].op = "insert"
  /\ Ask(c, NotAsking)
  /\ IF ops < MaxOps /\ \A j \in journal : j.key # asking[c].key
     THEN /\ journal' = journal \cup {[op |-> ops + 1, key |-> asking[c].key,
                                       kind |-> asking[c].kind,
                                       content |-> FALSE, identity |-> FALSE]}
          /\ ops' = ops + 1
     ELSE UNCHANGED <<journal, ops>>
  /\ UNCHANGED <<storeVars, receipts, backupVars, working, deaths>>

-----------------------------------------------------------------------------
(* execute_erasure                                                         *)

Work(w, s) == working' = [working EXCEPT ![w] = s]
Mark(op, field) ==
  journal' = {IF j.op = op THEN [j EXCEPT ![field] = TRUE] ELSE j : j \in journal}

\* Where an execution goes on after a stage, by the row it read.
AfterContent(row) == IF row.identity THEN "backups" ELSE "identity"

\* Fault in Beginning: one marked stage counts for both.
BeginningSkips(row) == IF row.content THEN "backups" ELSE "content"

Beginning(row) == IF row.content THEN AfterContent(row) ELSE "content"

WorkStart(w, row) ==
  /\ working[w] = NotWorking
  /\ Work(w, [at |-> Beginning(row), row |-> row])
  /\ UNCHANGED <<storeVars, journal, receipts, backupVars, asking, ops, deaths>>

\* erase_project or erase_tenant of the content store, one transaction; an
\* actor has no content.
ContentStage(w) ==
  /\ working[w].at = "content"
  /\ content' = IF working[w].row.kind = "actor" THEN content
                ELSE content \ Erased(working[w].row.kind)
  /\ Work(w, [working[w] EXCEPT !.at = "content_mark"])
  /\ UNCHANGED <<identity, renewed, journal, receipts, backupVars, asking, ops, deaths>>

ContentMark(w) ==
  /\ working[w].at = "content_mark"
  /\ Mark(working[w].row.op, "content")
  /\ Work(w, [working[w] EXCEPT !.at = AfterContent(working[w].row)])
  /\ UNCHANGED <<storeVars, receipts, backupVars, asking, ops, deaths>>

\* erase_actor, erase_project or erase_tenant of the identity store.
IdentityStage(w) ==
  /\ working[w].at = "identity"
  /\ identity' = identity \ Erased(working[w].row.kind)
  /\ Work(w, [working[w] EXCEPT !.at = "identity_mark"])
  /\ UNCHANGED <<content, renewed, journal, receipts, backupVars, asking, ops, deaths>>

IdentityMark(w) ==
  /\ working[w].at = "identity_mark"
  /\ Mark(working[w].row.op, "identity")
  /\ Work(w, [working[w] EXCEPT !.at = "backups"])
  /\ UNCHANGED <<storeVars, receipts, backupVars, asking, ops, deaths>>

\* Fault in Pending: rows whose object was deleted count as well.
PendingAll == registry

\* The rows whose deletion the provider has not confirmed.
Pending == {b \in registry : ~b.deleted}

\* A tenant's erasure waits for them; the worker comes back later.
BackupsCheck(w) ==
  /\ working[w].at = "backups"
  /\ IF working[w].row.kind # "tenant" THEN Work(w, [working[w] EXCEPT !.at = "complete"])
     ELSE IF Pending # {} THEN Work(w, NotWorking)
     ELSE Work(w, [working[w] EXCEPT !.at = "registry"])
  /\ UNCHANGED <<storeVars, journal, receipts, backupVars, asking, ops, deaths>>

\* Then all rows of the tenant are deleted, in another statement.
RegistryDelete(w) ==
  /\ working[w].at = "registry"
  /\ registry' = {}
  /\ Work(w, [working[w] EXCEPT !.at = "complete"])
  /\ UNCHANGED <<storeVars, journal, receipts, objects, asking, ops, deaths>>

\* Fault in Complete: the row is deleted although its receipt was refused.
CompleteAnyway(w) ==
  LET row == working[w].row IN
  /\ working[w].at = "complete"
  /\ Work(w, NotWorking)
  /\ receipts' = IF \E r \in receipts : r.op = row.op \/ r.key = row.key THEN receipts
                 ELSE receipts \cup {[op |-> row.op, key |-> row.key, kind |-> row.kind]}
  /\ journal' = {j \in journal : j.op # row.op}
  /\ UNCHANGED <<storeVars, backupVars, asking, ops, deaths>>

\* One transaction replaces the row of the journal by a receipt; the operation
\* and the key are unique among the receipts.
Complete(w) ==
  LET row == working[w].row IN
  /\ working[w].at = "complete"
  /\ Work(w, NotWorking)
  /\ IF \E r \in receipts : r.op = row.op \/ r.key = row.key THEN UNCHANGED <<journal, receipts>>
     ELSE /\ receipts' = receipts \cup {[op |-> row.op, key |-> row.key, kind |-> row.kind]}
          /\ journal' = {j \in journal : j.op # row.op}
  /\ UNCHANGED <<storeVars, backupVars, asking, ops, deaths>>

WorkerDies(w) ==
  /\ working[w] # NotWorking /\ deaths < MaxDeaths
  /\ deaths' = deaths + 1 /\ Work(w, NotWorking)
  /\ UNCHANGED <<storeVars, journal, receipts, backupVars, asking, ops>>

-----------------------------------------------------------------------------
(* Backups and provisioning                                                *)

\* A backup object is uploaded and registered; there is one registration of
\* each id while the row is there.
RegisterBackup(b) ==
  /\ b \notin objects /\ \A r \in registry : r.id # b
  /\ objects' = objects \cup {b}
  /\ registry' = registry \cup {[id |-> b, deleted |-> FALSE]}
  /\ UNCHANGED <<storeVars, journal, receipts, asking, working, ops, deaths>>

\* The provider deletes the object, and then the deletion is recorded.
ProviderDeletes(b) ==
  /\ b \in objects
  /\ objects' = objects \ {b}
  /\ UNCHANGED <<storeVars, registry, journal, receipts, asking, working, ops, deaths>>

MarkBackupDeleted(b) ==
  /\ b \notin objects /\ [id |-> b, deleted |-> FALSE] \in registry
  /\ registry' = (registry \ {[id |-> b, deleted |-> FALSE]}) \cup {[id |-> b, deleted |-> TRUE]}
  /\ UNCHANGED <<storeVars, objects, journal, receipts, asking, working, ops, deaths>>

\* The operator provisions a root again; a project and an actor need their
\* tenant.
Renew(root) == renewed' = renewed \cup {<<op, root>> : op \in 1..ops}

ProvisionContent(root) ==
  /\ root \in {"tenant", "project"} \ content
  /\ root = "tenant" \/ "tenant" \in content
  /\ content' = content \cup {root} /\ Renew(root)
  /\ UNCHANGED <<identity, journal, receipts, backupVars, asking, working, ops, deaths>>

ProvisionIdentity(root) ==
  /\ root \in {"tenant", "project", "actor"} \ identity
  /\ root = "tenant" \/ "tenant" \in identity
  /\ identity' = identity \cup {root} /\ Renew(root)
  /\ UNCHANGED <<content, journal, receipts, backupVars, asking, working, ops, deaths>>

\* The steps of an execution after its start.
Proceed(w) ==
  \/ ContentStage(w) \/ ContentMark(w) \/ IdentityStage(w) \/ IdentityMark(w)
  \/ BackupsCheck(w) \/ RegistryDelete(w) \/ Complete(w)

WorkerStep(w) == (\E row \in journal : WorkStart(w, row)) \/ Proceed(w)

\* Some worker takes up an operation.
TakenUp(op) == \E w \in Workers, row \in journal : row.op = op /\ WorkStart(w, row)

ErasureNext ==
  \/ \E c \in Clients :
       \/ \E key \in ErasureKeys, kind \in Kinds : AskReceipt(c, key, kind)
       \/ AskJournal(c) \/ AskInsert(c)
  \/ \E w \in Workers : WorkerStep(w) \/ WorkerDies(w)
  \/ \E b \in BackupIds : RegisterBackup(b) \/ ProviderDeletes(b) \/ MarkBackupDeleted(b)
  \/ \E root \in {"tenant", "project", "actor"} : ProvisionContent(root) \/ ProvisionIdentity(root)

ErasureSpec == ErasureInit /\ [][ErasureNext]_erasureVars

\* "A production worker must retry pending rows": each row is taken up again
\* and again, whatever other rows there are, and an execution that does not die
\* goes on.  The provider deletes what it is asked to and confirms it.
FairErasureSpec ==
  /\ ErasureSpec
  /\ \A op \in 1..MaxOps : SF_erasureVars(TakenUp(op))
  /\ \A w \in Workers : WF_erasureVars(Proceed(w))
  /\ \A b \in BackupIds : WF_erasureVars(ProviderDeletes(b)) /\ WF_erasureVars(MarkBackupDeleted(b))

-----------------------------------------------------------------------------
(* Properties                                                              *)

\* A receipt is the truth: wherever workers died, what it stands for is in
\* neither store, unless it was provisioned again.
ReceiptMeansErased ==
  \A r \in receipts : \A root \in Erased(r.kind) :
    <<r.op, root>> \in renewed \/ root \notin content \cup identity

\* An operation is in the journal or has a receipt, one of the two and once,
\* and no key has two rows or two receipts, however many workers execute it
\* at once and clients repeat it.
OperationsAccounted ==
  /\ \A op \in 1..ops : (\E j \in journal : j.op = op) <=> ~\E r \in receipts : r.op = op
  /\ \A i, j \in journal : i.op = j.op \/ i.key = j.key => i = j
  /\ \A q, r \in receipts : q.op = r.op \/ q.key = r.key => q = r

RequestsAreKept ==
  /\ receipts \subseteq receipts'
  /\ \A j \in journal :
       \/ [op |-> j.op, key |-> j.key, kind |-> j.kind] \in receipts'
       \/ \E k \in journal' :
            /\ k.op = j.op /\ k.key = j.key /\ k.kind = j.kind
            /\ j.content => k.content
            /\ j.identity => k.identity

\* A request is never lost or undone: its row stays, with the marks it has,
\* until there is a receipt of just this request, which stays for good.
RequestsKept == [][RequestsAreKept]_erasureVars

\* Every request for an erasure is answered with a receipt in the end,
\* whatever dies and whatever backups there are.  (Not every operation: a
\* retry that finds neither a receipt nor, a moment later, a row of the
\* journal makes a second one for its key, which can never complete.)
EveryErasureAnswered ==
  \A key \in ErasureKeys :
    (\E j \in journal : j.key = key) ~> (\E r \in receipts : r.key = key)
=============================================================================
