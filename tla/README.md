# Context Memory: specifications, model checks and proofs

Context Memory is a local-first store of what coding agents did and learned. Several operating-system
processes (an MCP server per agent, the command line, scheduled tasks) share one SQLite file through
`MemoryStore` (`src/src/context_memory/store.py`), which forwards every operation to one of the
repositories under `persistence/`. A second, hosted surface (`hosted_*.py`) keeps tenants apart and
adds authorisation, limits, idempotency and governance.

This directory holds TLA+ models of its core, the TLC instances that check them, and theorems about
them that TLAPS proves for every value of the constants.

## 1. The system and its parts

What makes this program hard is always the same thing. A `tx()` block is `BEGIN IMMEDIATE` ...
`COMMIT` and is serialised with every other one; a statement outside a `tx()` block reads a snapshot of
its own. Most operations read first and write in a transaction afterwards, several are more than one
transaction, and a process may be killed between any two of these steps (hosts kill hooks after a
timeout). Nothing in the program locks across steps.

| Component | State | Operations | Interacts with | What is hard, and what makes it correct | Modelled in |
|---|---|---|---|---|---|
| Event stream and receipts (`project_evidence.py`) | `events`, `project_event_cursors`, `event_receipts`, `idempotency_keys` | `record_event`, `poll_events`, `acknowledge_events`, `read_events_since` | every other component cites events; `get_context` shows them | at-least-once delivery over stale cursors, gap-free numbers under rollback, one effect per key, no skipped event | `EventStream`, `EventDelivery` |
| Memories and review (`memory.py`, `review.py`) | `memories`, `memory_sources`, `edges`, `review_conflicts` | `upsert_memory`, `transition`, `record_feedback`, `propose_correction`, `review_candidate` | sources are events; withdrawal stales wiki revisions; purge deletes | active only with evidence; reviews of two transactions; stale reads | `MemoryLifecycle` |
| Wiki (`wiki.py`) | `wiki_revisions`, `wiki_revision_citations` | generate, publish, reject, mark stale | cites memories, is staled by their changes | one published revision a page, stale when a cited memory is withdrawn, no dangling citation | `MemoryLifecycle` |
| Final checkpoint (`checkpoint.py`) | a `handoff` memory, the previous one superseded | `create_checkpoint` | memories, edges, sessions | supersedes by its own path | `MemoryLifecycle` (`Close`) |
| Purge (`maintenance.py`) | deletes rows of `memories` | `maintain --apply` | foreign keys of citations | list read before the deleting transaction, all or nothing | `MemoryLifecycle` (`PurgeRead`, `PurgeWrite`) |
| Project identity (`project_evidence.py`, `transfer.py`) | `projects`, `scopes`, `project_aliases` | `create_project`, `create_scope`, `set_project_alias`, `resolve_project`, import | everything belongs to a project | up to four transactions per resolution; a path has one owner over two tables | `ProjectIdentity`, `PathRegistry` |
| Sessions and checkpoints (`project_evidence.py`, `checkpoint.py`, `checkpoint_policy.py`, `review.py`, `hooks.py`) | `sessions`, `checkpoint` events, handoffs, candidates | `start_session`, `end_session`, `create_checkpoint`, `evaluate_checkpoint` | events, memories | session and cursor read before the transaction; the SessionEnd hook calls four operations and may die between any two; nothing durable is taken for covered, a handoff is replaced once, an event has one candidate | `Sessions` |
| Schedule and policy (`maintenance.py`) | `project_policies`, `maintenance_runs` | `set_policy`, `maintain_scheduled` | starts the purge and the pruning | a whole row read before its transaction is written back; two schedulers at one due time | `MaintenanceSchedule` |
| Audit chain (`maintenance.py`, `audit_serialization.py`) | `audit_log`, `audit_checkpoints` | `_audit`, pruning, `export_audit_chain`, `verify_audit_chain` | every write | off-by-one in ranges; an export of two statements; another store's numbers after an import; every row in the log or under one checkpoint | `AuditChain`, `AuditTransfer` |
| Transfer (`transfer.py`) | all tables of a project | `export_project`, `import_project` | all | one statement per table while others write; what is accepted keeps the rules that span tables | `Transfer`; the paths of an import: `ProjectIdentity` |
| Investigations (`investigation.py`) | `investigations`, `source_analyses`, `investigation_claims`, links, reinspections | create, record, reinspect, complete | events, memories | keys, identity and status read before the transaction; claims cite claims | `Investigation` |
| Hosted requests (`hosted_api.py`, `hosted_transport.py`, `hosted_limits.py`, `hosted_authorization.py`, `hosted_administration.py`, `hosted_identity.py`) | claims, rate window, identity store, security audit | one request, from its session to its answer | three databases | a claim that expires under its request; a mutation and its audit row in two transactions | `HostedGateway` |
| Hosted content (`hosted_content.py`) | tenants, projects, events of a tenant | provision, record, poll, retain, erase, back up, restore | the consumer's cursor | numbers are `MAX+1` and drawn again after retention | `HostedContent` |
| Hosted governance (`hosted_governance.py`) | erasure journal, receipts, backup registry | `request_erasure`, `execute_erasure`, backups | content and identity stores, storage provider | a sequence of transactions in three databases by workers that may die | `HostedErasure` |
| Context assembly, recall, decisions (`context_assembly.py`, `recall.py`, ...) | usage counters | `get_context` and reports | all, read only | the page and cursor of `get_context` | `EventStream` (that page) |
| Hosted HTTP, adapters, rendering, backup files | none of their own | call the above | - | - | not modelled (section 7) |

`PROJECT.json` lists all of them, and under `hazards` each place of the code where something can go
wrong that a test hardly reaches, with the properties that watch it.

## 2. Conventions of the models

* A read outside `tx()` is an action; a `tx()` block is an action; anything may happen in between. A
  process between two actions is a record (`writer[w]`, `poll[p]`, `call[p]`) with what it has read.
* A refused transaction (exception, failed constraint) is rolled back: its effect is that of `RecordEnd`,
  `Abandon`, `Refused`. The death of a process is the same as an end without an answer.
* Ids, slugs, bodies and events are model values or members of small sets. Time is an action: `Expire`
  for messages with `expires_at`, `Age` for the retention cutoff. `Age` only happens between calls,
  because the retention period is a day at least and no call lasts that long.
* Embeddings are on, as they are by default; so an update of a purged row fails on the foreign key of its
  embedding. With `CONTEXT_MEMORY_EMBEDDINGS=off` and no sources such an update would silently touch
  no row, and answer as if it had.
* Audit rows are written in the same transactions as what they describe; they are in `AuditChain` and left
  out of the other modules. So are titles, confidence, importance and scopes of memories.
  Idempotency keys are modelled where they race: `record_event`, `create_checkpoint`,
  `record_source_analysis`, the hosted claims and erasures.
* Operators commented "Fault in X" are not part of a specification. Each is a plausible bug in the code
  `X` models; with it in the place of `X`, a property must fail.
* Bounds are constants and appear in guards: `MaxEvents`, `MaxClients`, `MaxDeaths`, `MaxLog`, `MaxCalls`,
  `MaxSeq`, `MaxClock`, `MaxStarts`, `MaxAnalyses`, `MaxRecorded`, `MaxTime`, `LastTick`, `MaxRequests`,
  `MaxCrashes`, `MaxOps`. (`MaxProjects`, `MaxProjectEvents`, `MaxTenantBytes`, `RequestLimit` are
  quotas of the code.) Ids and revisions are finite sets. Everything else is finite by itself.
* A hash is a value that equals another one only if what was hashed is equal.
* History variables (`served`, `quiet`, `recorded`, `answers`, `polled`, `gone`, `excused`, `mutated`, `renewed`,
  ...) are marked as such in their declarations. No guard of the code's actions reads them.

## 3. The modules

### EventStream, EventDelivery

`EventStream` is the log of one project, its writers, pollers and followers.

| Code | Action |
|---|---|
| `record_event`: key lookup, transaction, duplicate key, end | `RecordCall`, `RecordTx`, `RecordConflict`, `RecordEnd` |
| `poll_events`: receipt, high water, rows, receipt update, answer | `PollReadReceipt`, `PollReadSnapshot`, `PollReadRows`, `PollTx`, `PollAnswer`, `PollCrash` |
| `acknowledge_events` | `Acknowledge` |
| `context_bootstrap` without a cursor | `BootstrapReadTail`, `BootstrapReadSnapshot`, `FollowAnswer`, `FollowCrash` |
| `get_context` with a cursor | `FollowReadSnapshot`, `FollowAnswer`, `FollowCrash` |
| `expires_at` passes | `Expire` |

Histories (`served`, `received`, `told`, `shown`) record what left the store; no guard of the code's actions
reads them, except that a `Disciplined` client acknowledges only cursors it was `told`. The code accepts any
cursor up to the delivered one; `event_races` therefore lets clients send any number.

A follower bootstraps and then hands the cursor of each answer to the next `get_context`, or bootstraps again. A
bootstrap starts before the last `event_limit` events, leaves out events that are sources of the memories it
found (`known`: any set of events, as retrieval is not modelled) and renders the newest first
(`prefer_latest_events`). If its budget cuts the page, the cursor is that of the newest event all the same, so older
ones of its tail are passed unseen. `FollowerMissesNothing` says exactly how much is given up: a reading *begins*
(`Begun`) behind the cursor the last bootstrap read after and, if that was cut, at the oldest event it rendered; from
there on every matching event is shown, left out as known, or expired. Only `context_bootstrap` passes the two options
(they are not in the schema of the tool `get_context`), and a follower is assumed to ask for the same kinds and scope
throughout: the defaults of the two calls differ, and an event of a kind not asked for is passed by any cursor.

`EventDelivery` is what the stream promises without processes: an append-only log, and per stream a delivered
cursor that moves over handed-out or expired events only and an acknowledged cursor behind it.
`DeliversAsPromised` is the refinement `events -> log`, `expired -> gone`, receipts -> cursors,
`served -> handed`.

### MemoryLifecycle

One project's memories and the wiki revisions that cite them. A row that does not exist is `unborn` or
`purged`, an id is not used twice. `Overwrite`, `Drafts` and `Targets` say how clients behave: whether they pass
the id of an existing memory to `upsert_memory`, with which statuses, and which statuses they set by
`memory_transition`.

| Code | Actions |
|---|---|
| `upsert_memory` | `EditRead`, `EditWrite` (`Material`: whether published citations turn stale, decided by what was *read*) |
| `transition` | `Transition`, called by `TransitionCall` and by reviews; it asks nothing of the status it leaves |
| `record_feedback` | `Feedback` (moves `updated_at`) |
| `propose_correction` | `CorrectRead`, `CorrectWrite`, `CorrectLink` |
| `review_candidate` | `ReviewRead`, `ReviewTarget`, `ReviewApprove`, `ReviewReject`, `ReviewReplace`, `ReviewSettle` |
| `create_checkpoint`, final | `Close` |
| `maintain`, terminal memories | `PurgeRead`, `PurgeWrite` |
| `generate_wiki_revision`, `transition_wiki_revision` | `GenerateRead`, `GenerateWrite`, `ReviseRead`, `PublishWrite`, `ReviseWrite` |

### ProjectIdentity, PathRegistry

`resolve_project` in its ten steps, from the read of the scope to the registration of the two aliases, beside
clients that create projects and scopes, set path aliases and import projects. A slug is unique and never
changes, so it stands for the project: the plain name, or the name with the digest of a path. `explicit`
remembers which directory a client has put with which project, `answers` what `resolve_project` has answered.

`PathRegistry` is what all this promises without processes and transactions: clients give directories to projects, a
project has at most one home, nothing is taken away, and a directory has one answer. `KeepsRegistry` is the refinement
`explicit -> given`, scopes named `__root__` -> `homes` (`Rooted`), `answers -> answers`. `LostUntilRegistered` is an
action property: what is `Lost` (stranded, and the plain slug has another directory) stays so in every step that is
not a client's.

### Sessions

The sessions, checkpoints, handoffs and candidates of one project, with its log of events. A process is a hook
or a client in the middle of a call (`work[p]`).

| Code | Actions |
|---|---|
| `start_session`; `record_event` of a decision | `StartSession`, `RecordDecision` |
| the SessionEnd hook: evaluate, checkpoint, end | `HookEnd`, `Afterwards`, `Die` (the host's timeout) |
| `evaluate_checkpoint`: latest checkpoint, cursor, decision | `EvaluateReadLatest`, `EvaluateReadCursor`, `EvaluateDecide` (`Triggered`, `Suppression`) |
| `create_checkpoint`: key, session, cursor, transaction, duplicate key | `CheckpointLookup`, `CheckpointReadSession`, `CheckpointReadCursor`, `CheckpointTx`, `CheckpointRepeat`; a client's own final one starts with `ClientFinal` |
| `end_session` and the extraction of candidates | `EndTx`, `ExtractRead`, `ExtractWrite`, `ExtractEnd` |

The recovery hash is the goal with the set of durable event numbers up to a cursor. What a final checkpoint
does to *other* memories and to wiki pages is `Close` in `MemoryLifecycle`.

### MaintenanceSchedule, AuditChain, Transfer, AuditTransfer

`MaintenanceSchedule`: `set_policy` is `PolicyRead`, `PolicyWrite`; `maintain_scheduled` is `ScheduleRead`,
`ScheduleTx` (`Due` from `Baseline`), then `RunCompletes`, `RunFails` or `SchedulerDies`. Of the policy it keeps the
two thresholds with a rule between them and the interval.

`AuditChain`: `AuditedWrite` and `WriteElsewhere` draw numbers from the one `AUTOINCREMENT` table of all
projects; `Maintain` purges `n` memories, each with a row, and prunes the log in the same transaction
(`Left`, `LatestDigest`, `Checkpoint`); `ExportStart` and `ExportEnd` are the two statements of
`export_audit_chain`; `Verifies` is the offline verification.

`Transfer`: `ExportTable` reads the next table of `Queries` while `Record`, `Remember`, `Withdraw`, `Purge` and
`Acknowledge` go on; `Import` accepts what passes `LinksResolve` (the foreign keys) and `ActiveSourced`.
Of 22 tables the four whose rules span an interleaving are kept.

`AuditTransfer` adds one action to `AuditChain`, `Restore`: what an import does to audit rows and checkpoints. An
export as one step is enough for it, since the disorder it brings needs no interleaving.

### Investigation

| Code | Actions |
|---|---|
| `create_investigation`, `request_source_reinspection` | `CreateInvestigation`, `Reinspect` |
| `record_source_analysis`: key, status, identity, transaction | `AnalysisLookup`, `AnalysisReadStatus`, `AnalysisReadIdentity`, `AnalysisTx` (`Admissible`, `VersionFree`, `AnalysisKeyFree`, `Recorded`) |
| `complete_investigation`: read, transaction | `CompleteRead`, `CompleteTx` |

A claim cites claims of its own request by position and others by number. A memory a claim made is never deleted
here: purging it would set `memory_id` of the claim to `NULL`, which the trigger of migration 013 refuses. (So a
claim keeps a terminal memory from being purged, as a citation does.)

### HostedGateway, HostedContent, HostedErasure

`HostedGateway` is one request per thread: `Arrive` loads the session; `ClaimNew` or `ClaimTaken` claims the
idempotency key; `Check`, `Consume` (rate window), `Authorize` or `Refuse`; `Mutate` or `MutateFails`
(`Operation`: every operation of the administration); `RecordAllowed` or `RecordFailed`; `Complete` or `Abandon`;
`Answer`. Each is a call on one of three databases, made a step by that database's lock. `TickOn` lets a claim expire,
`ProcessDies` ends all threads at any point.

`HostedContent` is one tenant's store: `ProvisionTenant`, `ProvisionProject`, `RecordStart` (the clock is read
before the transaction), `RecordTx` (`Room`: the quotas; `NextNumber`: `MAX+1`), `Poll`, `CursorLapses`, `Retain`,
`EraseProject`, `EraseTenant` (these three by `Delete`), `Backup`, `RestoreTenant`. The cursor of a poll is the
consumer's. It is signed for a tenant and a route and good until its TTL ends (`CursorLapses`), so no deletion touches
it: it may outlive its events, its project and its tenant, and be used on the project provisioned or restored in their
place. A consumer is assumed to send back the cursor it got for the same project (the signature would accept another
project of the tenant).

`HostedErasure` composes the content and the identity store with the journal: `AskReceipt`, `AskJournal`,
`AskInsert` are `request_erasure`; `WorkStart`, `ContentStage`, `ContentMark`, `IdentityStage`, `IdentityMark`,
`BackupsCheck`, `RegistryDelete`, `Complete` are `execute_erasure`, over a row the worker read at the start;
`RegisterBackup`, `ProviderDeletes`, `MarkBackupDeleted` are the registry; `WorkerDies` ends an execution
anywhere, and `ProvisionContent`, `ProvisionIdentity` provision again what is being erased.

### MCServices, MCUpkeep, MCEventStream

The first two put components into one run that do not share state in the code: each has its own variables, the
initial state chooses which `part` moves, so the states are the sum of the components' states and not the product.
A property of a component is then checked exactly as in a run of its own. Components that *do* share
state are composed inside one module: memories with wiki and purge, both hosted stores with the journal,
claims, limits and audit with the identity store.
`MCEventStream` does the same with the writers, the pollers of one stream and the follower, whose pages have a length
of their own through an instance of `EventStream`. A single writer feeds the readers: it adds and expires events at
any moment, and what two writers do to each other no reader can see.

## 4. What TLC checks

| Run | Instance | Shows |
|---|---|---|
| `event_races` | *poll*: two pollers on one filtered stream, pages of one, undisciplined acknowledgements, 2 events; *write*: two writers with one key, 3 events; *follow*: a follower with pages of two and any budget, fed by one writer, 3 events | no event is skipped, receipts never retreat, refinement of `EventDelivery` (which says that numbers have no gap and cursors are ordered); one event a key, faithful answers, the follower misses nothing from where it begins |
| `event_liveness` | a poller whose calls may always fail again, a disciplined client, 3 events | only received events are acknowledged; every event is received in the end |
| `memory_replacement` | an editor, a reviewer, checkpoints, three memories | the memory that gave way has its edge in every state, also inside a review |
| `memory_wiki` | an editor that overwrites, two curators and maintenance; one memory, two contents, two revisions of one page | one published a page whoever publishes meanwhile, withdrawals and material updates stale published revisions, citations resolve |
| `project_identity` | two resolvers on two directories of the same name, two client calls, one death | one owner a path, answers agree, names do not merge, refinement of `PathRegistry`; resolved or stranded, and lost until a client registers the directory |
| `upkeep` | *memory*: two editors that overwrite and withdraw, a checkpoint and maintenance that may fail, over one memory and local and foreign events; *erasure*: a client, a worker that may die once, one key, erasure of a tenant or a project, one backup, 2 operations | no memory is active without local evidence, no receipt is untrue, no operation is lost or done twice; terminal memories go and every erasure is answered in the end |
| `services` | seven components, below | fourteen invariants, below |
| `purge_blocked`, `handoff_keeps_wiki`, `revision_race`, `project_stranded`, `audit_restored` | the smallest instances (that of `project_stranded` is the one of `project_identity`; `audit_restored` has 5 numbers, keeps one row and restores into an empty store) | the findings of section 6 |

`services`, part by part:

| Part | Instance | Shows |
|---|---|---|
| sessions | two processes, one session, one client key, 3 events, cursors one behind, 2 calls | `QuietMeansCovered`, `HandoffReplacedOnce`, `OneCandidatePerEvent` |
| investigation | two researchers, two investigations, two versions of a source, 2 analyses; requests of two claims, of one that cites claim 1 of another analysis (accepted in its investigation, refused in the other) and of one that rests on nothing | `AnswersAgree`, `ClaimsRestOnEvidence` |
| audit | keep 1 or 2 rows, purge 0 or 1 memory, one exporter, 6 numbers | `EveryRowOnce`, `ExportVerifies` |
| schedule | two operators, two schedulers, thresholds 1 to 3, an interval of 2 in a time of 2, 2 starts | `SoftBelowHard`, `FirstRunsApart` |
| transfer | two memories, 2 events | `RestoredSound` |
| content | one project, two writers, sizes 1 and 2 of 3 bytes, room for 2 events, 3 ever recorded, one tick, a backup | `PolledUpToCursor` |
| gateway | two threads, one key, an administrator and a reader, every kind of mutation, one retention tick, windows of two, a limit of one, 2 requests, one crash | `CompletedIsTrue`, `AuditIsTrue`, `SingleFlight` |

Why these bounds are enough. Every race of the event stream is between two calls on one receipt or one key;
two processes make each, and with pages of one event two events are two pages with one in flight, three give
the filter something to leave out. A memory is never compared with more than one other, and three let a chain
of replacements arise. One memory and two revisions suffice for the wiki, since staling goes by
memory and publication by page; the brief may be read before the memory changes, is purged, or another
revision is published. For identity two directories are the conflict; a third name would be an independent
copy. One death is enough to strand a directory and two client calls to register both ends of a conflict.
In `services` each race is again between two calls on one row: two endings of one session, two analyses of one
version, two requests with one key, two writers of one project. Three events give an evaluation one before its cursor,
one behind it and one recorded meanwhile. Six audit numbers give two prunings of more than one row with a row of
another project in the gap. An interval equal to the clock's bound lets the second start be exactly due. Room for
two events and three ever recorded reach the quota, retention of the newest and its number drawn again, a project or
tenant erased and provisioned again under a cursor that is still good, and the restore of a backup older than the
cursor. Two versions of a source let one investigation hold two analyses, the second citing a claim of the first. Two
ticks let a claim expire and be claimed again under its running request. In `upkeep` a second operation
for the one key, and a worker that dies once between any two stages, are the cases that matter; that several
workers on one operation do no harm is what the proof adds. What a bound might still hide is covered
where section 5 proves the property for all constants.

Symmetry: over memory ids in `memory_replacement`, over the two processes in `services`. Both check invariants
only. In `services` the parts use the same two model values for their processes (`SharedValues`), so one permutation
serves them all; every part is symmetric in them.

`CHECK_DEADLOCK FALSE` is in `MCServices.cfg`, `MCUpkeep.cfg` and `AuditTransfer.cfg`: a part, or the chain, stops
when its bounds on calls and numbers are used up. In the other runs deadlock is checked.

Fairness. *Events*: a consumer calls again after any failure, so each step of a poll is taken if it is enabled
again and again (strong, since a crash disables it), and a client acknowledges a cursor it was handed (weak).
Nothing is assumed of writers, of expiry or of crashes. *Purge*: scheduled maintenance comes back after every
failed run (strong, for the same reason). *Identity*: agents resolve their directory at each start; their
steps are weakly fair and the number of deaths is bounded, which says that calls stop dying in the end.
*Erasure*: as the document on hosted governance asks of the deployment, every operation of the journal is taken up again
and again (strong per operation: a worker that is free, or comes back, does not take another one for ever), an
execution that has begun goes on (weak per worker) with a bounded number of deaths, and the provider deletes backup
objects, which the deployment then marks (weak). Nothing is assumed of clients, of registrations or of provisioning.
`EveryErasureAnswered` is checked for one key. With a second key and tenants it would need one more assumption: an
execution that still holds the row of an answered operation may delete the registry rows of the tenant again
(`RegistryDelete`), after which the same backup can be registered anew, and registrations that come between any two
executions keep the next operation of that tenant waiting.

Two assumptions narrow what the runs say, and both are because the code does not promise more.
`memory_wiki` has a single editor: with two, `WithdrawalStalesWiki` fails, because `upsert_memory` compares
with a row it read before its transaction (section 6). It has two curators, so `RevisionsMoveForward` is not among its
properties: two make the race of `revision_race`, and for one curator it is a theorem. The theorems of section 5 have
these hypotheses and no other bounds; that of `WithdrawalStalesWiki` asks for one editor only if existing memories are
edited at all.
`CompletedIsTrue` is about the requests of `HostedGateway`: an erasure by the governance service removes the project of
a completed claim and is not among its actions.

## 5. What TLAPS proves

All theorems are of the specifications without fairness, for any sets of processes, ids, streams, keys and paths,
and any bounds.

`EventStreamProofs`: `TypeCorrect`, `GaplessLog`, `NothingSkipped`, `OrderedReceipts`, `CursorsOnlyAdvance`,
`AtMostOncePerKey`, `AnswersAreFaithful`, `AckedIsReceived`, `FollowersMissNothing` and `StreamDeliversAsPromised`,
the refinement. (`LogGapless` and `ReceiptsOrdered` have no run of their own: the runs check the refinement, which
implies both.) They are layered, each layer using those before it:

| Invariant | Adds to the property | Because |
|---|---|---|
| `LogInv` | the log is finite | pages are cut by counting |
| `DeliveryInv` | a receipt that does not exist has zero cursors; `PollSound`: the cursor a poll has read is not above the acknowledged one, its snapshot not above the log, and its page has every unexpired matching event between its two cursors | a poll writes what it computed from a receipt it read long before, and acknowledgements and other polls happened since |
| `KeyInv` | both key properties together | a replay answers from a row, so the row must name its event |
| `ClientInv` | every cursor a client was *told* is safe to acknowledge | an acknowledgement may be of any earlier answer |
| `FollowInv` | the cursors and the snapshot of a call in progress are not ahead of the log, and a call that is no bootstrap reads after the cursor held | its page is read in a later step, and an event committed meanwhile must lie behind both |
| `ServedInv` | what was served was a matching event | the abstract `Deliver` hands out events of its stream only |

`MemoryLifecycleProofs`: `TypeCorrect`, `ActiveIsEvidenced`, `PublishedIsUnique`, `CitationsAlwaysResolve`.
Evidence is inductive given the types: sources are only added, and every way into `active` passes
`_require_active_source` in the writing transaction. For publication one lemma says that only `PublishWrite`
publishes, and it takes the place of the published revision in its own transaction. Citations need
`CitationInv`: only a row that exists has sources, and each citation is checked against a source of its
memory in the transaction that writes the revision; after that the foreign key refuses the purge.

Three more hold under hypotheses about clients, which the theorems state and the code needs:

* `ReplacementsAreLinked`, if memories give way by reviews and checkpoints only and nothing is purged
  (`WithdrawByReview`): `upsert_memory` accepts any status, `memory_transition` may leave the replacement out, and a
  purge takes edges along. A reviewer may die between its two transactions, and several may race: the edge is written
  together with the status it explains, so `ReplacementLinked` is inductive but for an edit, whose status was chosen
  at its start (`LinkInv`).
* `RevisionsOnlyMoveForward`, with one curator. A curator writes a status decided by an old read; `ReviseReadsHold`
  says that a proposed revision it read is proposed still and a published one published or stale: reviewers, editors
  and the other calls only ever turn published revisions stale (`OnlyStaled`).
* `WithdrawalsStaleTheWiki`, without handoffs and with one editor if existing memories are edited
  (`WithdrawByTransition`). `EditReadsHold` says of an edit in progress that the text of the row is the one it read,
  or the row is gone; so `Material`, computed from that read, misses no change of the text. Statuses it may miss,
  which is why no editor asks for one of the withdrawn. A revision that cites is one whose memories exist
  (`CitationInv`), so a new row concerns none.

`ProjectIdentityProofs`: `TypeCorrect`, `PathHasOneOwner`, `AnswersOwnPath`, `SameNameIsNotSameProject`. The
inductive invariant `IInv` adds that rows refer to existing projects, that a label is given once per project,
that a call past its scope holds a project that owns its directory (which survives, since nothing takes
a directory away), and that a directory came to its project through a client or as its `__root__` scope. Each
transaction is summed up by `Claims`: it gives one project some directories that nobody else had. That no two
directories of one name merge then follows from there being one `__root__` per project; `ReadRoot` alone, a
check before the transaction, would not give it.

`IdentityKeepsRegistry` is the refinement of `PathRegistry`. `RegistryOwner` shows that tables and registry agree on
who has a directory (which needs `GivenOwned`: what clients put together stays theirs), `ClientsGive` and
`ResolversReply` turn a client's call and each step of `resolve_project` into a move of the registry or a stutter. An
answer is the first one again, since every earlier one is an owner and there is one. `RegistryPromiseIsSound` is about
the abstract module alone: its promise implies one project a directory, one home a project and answers that name the
owner.

`LostIsForGood` proves the finding of `project_stranded` for every instance: `CallsTried` says that a call tries the
two slugs of its own directory, and of these one exists and the other has a directory, so all that is left of
`resolve_project` is reads and an insert that is refused (`LostCall`); other resolvers touch other directories.

`OperationsProofs` has three specifications:

* `ScheduleInv` adds to `SoftBelowHard` that every *merged row still to be written* is ordered too (a call checks the
  row it writes, not the one it overwrites), and to `FirstRunsApart` that until a run has completed the row holds the
  last start.
* `AuditInv` says where rows, recorded rows and checkpoints lie: checkpoints are disjoint ranges below every row, each
  linked to the one with the next smaller `through_seq`, and its count is that of the rows it stands for. A pruning
  takes rows that are all beyond the chain and leaves those beyond its cut. `EveryRowOnce`, `ExportVerifies` and
  `ChainSound` follow. For the export, the invariant keeps that one in progress holds an initial part of the chain
  with its own head (`PrefixOf`), whatever is pruned meanwhile, and that rows lie beyond every checkpoint.
* `TransferInv` says that the origin keeps its rules (events without a gap, sources that resolve, active memories with
  one), that the events an export has read are an initial part of the log, that what it has read is current as long as
  nobody wrote, and that a target is what was accepted.

`SessionsProofs`: `SessionInv` adds to its three properties that what a process has read of the log is still there
(`ReadsInLog`), that the recovery state of a checkpoint covers only events up to its cursor (`Within`, in the type), and
that handoffs are events of the log or the older memory. `QuietMeansCovered` then follows at the decision: equal
hashes mean equal sets of durable events.

`InvestigationProofs`: one analysis of a version, stored and given answers that are analyses of what was asked, and
`ClaimsCiteEarlier`: every claim cites claims recorded before it, in its own investigation, and a consequence cites at
least one. `ClaimsAlwaysRestOnEvidence` follows: the basis of a claim, all that it is derived from through any number
of claims, has a claim with the least number (`LeastNumber`, since `<` on the naturals is well-founded), that one can
cite nothing, so it is no consequence. `Basis` is a least fixed point written as an intersection of closed sets, which
needs no recursion.

`HostedServiceProofs` has two. `GatewayInv` says what is on record at each stage of a request (`AuditOf`), where its
project is (`RootOf`), that completed claims have their project (`CompleteRows`), and that a request in flight holds a
live claim of its own unless one has expired under its request (`ClaimsHeld`), from which `SingleFlight` is inductive.
`ContentInv` adds to `PolledUpToCursor` that each cursor either has an event at its number or behind it, or is not
above the greatest number ever deleted (`CursorFollowed`): only this makes `MAX+1` a number no consumer has passed, or
one of those the property names. That bounded numbers
have a maximum is a lemma from the least upper bound, which exists because `<` on the naturals is well-founded.

`HostedErasureProofs`: `ErasureInv` says of the journal *and of every row a worker still holds* that what is marked is
gone from that store, or was provisioned later (`MarksTrue`, `WorkTrue`). A worker acts on a row it read long before,
so without the second half the invariant is not inductive. `StaysGone` is the lemma that no step of anyone brings a
root back without recording it as `renewed`. `OperationsAreAccounted` and `RequestsAreNeverLost` are about the journal
itself: an operation is in it or has a receipt, never both and never neither; marks are not taken back; and a row
gives way to a receipt of its own request only, which needs `KeysDrawn` (the row a worker read long ago has the key
and kind of the row that is there). Clients that race still make two operations for one key (section 6), and both are
accounted for: the second stays in the journal.

The assumptions are the named `ASSUME`s of the modules (constants have their types, `NoKey`, `NoMemory`,
`NoPath`, `NoEvent` and the like are not values, path and name aliases are different kinds). TLC evaluates them in
every run.

Only model-checked: liveness (`EventuallyReceived`, `TerminalPurged`, `ResolvedOrStranded`, `EveryErasureAnswered`),
which is outside the prover. Every other property of a passing run is a theorem. No module has a recursive operator.

## 6. What the models found

* **A citation blocks every purge** (`purge_blocked`). `maintain --apply` deletes the listed memories in one
  transaction and citations are `ON DELETE RESTRICT`, for revisions of any status. One cited old memory rolls the run
  back, and each later run meets it again. The scheduled run fails with it.
* **A handoff leaves the wiki published** (`handoff_keeps_wiki`). `create_checkpoint` supersedes the previous handoff
  without staling revisions that cite it, unlike `transition`.
* **A rejected revision can be published** (`revision_race`). The status is checked before the transaction and the
  `UPDATE` does not repeat it.
* **A stranded directory** (`project_stranded`). A death between `create_project` and `create_scope` leaves the slug
  with the path's digest without a directory; every later resolution of that path tries to insert the slug again and
  fails, for good (`LostIsForGood`).
* **A restored audit chain falls apart** (`audit_restored`). `import_project` numbers audit rows anew and keeps the
  ranges of the checkpoints, and `maintain` takes the checkpoint with the greatest range for the previous one. In a
  store with lower numbers that stays the imported one: all later checkpoints follow it and overlap it, and the
  exported chain does not verify. (`ChainedToPrevious` speaks of states in which the newest checkpoint by number is a
  single one, so that no choice of the index among equals is behind it.)

Also reachable in the models, and recorded without a run:

* `upsert_memory` misses a material change made between its read and its write (two editors): writing the old text
  back over a new one, or activating again what was withdrawn, stales nothing.
* `maintain` deletes a memory that was activated after the list was read.
* Of two reviewers one may reject, and the other then activates, since `transition` accepts any status; after a death
  inside a superseding review both memories are active and the review cannot be repeated.
* A scope that a client names `__root__` and gives no path takes the label `resolve_project` needs for that project: a
  directory whose plain slug it is is refused at `Attach` from then on, since `ReadRoot` asks for scopes with a path
  only. (The theorems include such clients; the run's client has another name for its scopes.)
* `docs/PROJECT_IDENTITY.md` says folder names "do not choose a write target", while `resolve_project` attaches a
  directory to a project without one whose slug is the folder's name (`Attach`). `docs/ARCHITECTURE.md` speaks of a
  name-alias lookup in `project_resolve` that the code does not have.
* Two final checkpoints of one session under two keys that read no previous handoff leave two active handoffs
  (`CheckpointReadSession` before `CheckpointTx`).
* Once a run has completed, the baseline of `maintain_scheduled` is that completion, so a scheduler that comes while
  the next run is in progress starts another. `maintain` can be repeated; `FirstRunsApart` is therefore limited to the
  time before the first completion.
* `set_policy` writes back the whole row: of two processes that set one setting each, one loses its setting. The order
  of the thresholds survives.
* An export of the audit chain with a pruning between its two statements verifies, yet the pruned rows are in neither
  half of it: the offline check cannot tell, since numbers have gaps anyway.
* An analysis can be recorded in an investigation that was completed after its status was read.
* A receipt in an export may be ahead of the events exported before it; after the import its consumer waits until new
  events reach that number.
* A bootstrap whose budget cuts its page hands out the number of the newest event and passes the older ones of its
  tail that it did not render; `has_more_events` is set, but no cursor leads back to them.
* Numbers of hosted events are `MAX+1` over the rows there are, and cursors outlive rows. After retention has deleted
  the newest event, or a project or tenant was erased and provisioned again, a consumer whose cursor is still good
  misses the events that draw the numbers it has passed; after the restore of an older backup it misses what was not
  polled before. `PolledUpToCursor` excepts exactly these events (`excused`: recorded under a number not above the
  greatest deleted one of their project, or restored), and says that nothing else is ever missed.
* A retry of `request_erasure` that looks for the receipt just before, and for the journal row just after, a
  completion makes a second operation for the key. It cannot complete: its receipt has the same key. The request
  itself is answered, which is what `EveryErasureAnswered` says.
* `docs/HOSTED_GOVERNANCE.md` has the registry rows removed once the provider has deleted the objects; a backup
  registered between the check for pending ones and the `DELETE` loses its row while its object is there
  (`BackupsCheck`, `RegisterBackup`, `RegistryDelete`).

## 7. Not modelled, and why

* *Adapters* (`cli.py`, `mcp*.py`, `tasks.py`, `hosted_http.py`, `hosted_operations.py`): each command, tool or
  route is one call of a store after parsing, and keeps no state. What is more than one call, the SessionEnd
  hook, is in `Sessions`; that requests have threads of their own is in `HostedGateway`.
* *Retrieval, recall, decisions, context rendering, wiki lint and rendering*: they read and rank; the only state they
  write are usage counters. The page of events and the cursor of `get_context` are in `EventStream`.
* *Encrypted backups and the external audit anchor*: one library call each, between files.
* *Tables without a rule that spans an interleaving*: 16 of the 22 exported ones; validation of malformed imports;
  cursor signing and envelopes; rotation and cleanup of hosted credentials.

Left for later: credentials of hosted sessions with their rotation.
