-------------------------- MODULE MemoryLifecycle --------------------------
(***************************************************************************)
(* The memories of one project, and what moves them through their          *)
(* lifecycle: upsert_memory, transition and record_feedback                *)
(* (persistence/memory.py), the review of candidates and the proposal of   *)
(* corrections (persistence/review.py), the handoff of a final checkpoint  *)
(* (persistence/checkpoint.py) and the purge of old terminal memories      *)
(* (persistence/maintenance.py); and the wiki revisions that cite them     *)
(* (persistence/wiki.py), which a change of a memory turns stale.          *)
(*                                                                         *)
(* As in EventStream, a call is one action per read outside a transaction  *)
(* and one per transaction, and other processes act in between.  Calls     *)
(* carry no idempotency key here.                                          *)
(***************************************************************************)
EXTENDS Naturals, FiniteSets

CONSTANTS
  Ids,          \* memory ids
  NoMemory,     \* an optional memory id left out
  Events,       \* event ids submitted as sources
  Local,        \* those that exist and belong to this project
  Bodies,       \* title, content, type, validity and tags of a memory
  NoBody,       \* those of a row that does not exist
  Pages,        \* wiki pages
  Revisions,    \* wiki revisions, as many as a behaviour may generate
  PageOf,       \* the page of each
  Editors,      \* processes calling upsert_memory and propose_correction
  Reviewers,    \* processes calling review_candidate
  Curators,     \* processes generating and transitioning wiki revisions
  Maintainers,  \* processes applying maintenance
  Closers,      \* processes ending sessions with a final checkpoint
  Drafts,       \* the statuses clients pass to upsert_memory
  Overwrite,    \* whether they pass the id of an existing memory to it
  Targets       \* the statuses clients set with memory_transition

ASSUME EvidenceAssumption == Local \subseteq Events
ASSUME IdsAssumption == NoMemory \notin Ids
ASSUME PagesAssumption == PageOf \in [Revisions -> Pages]
ASSUME ClientsAssumption ==
  /\ Drafts \subseteq {"proposed", "active", "superseded", "disputed", "expired",
                     "rejected"}
  /\ Overwrite \in BOOLEAN
  /\ Targets \subseteq {"active", "superseded", "disputed", "expired", "rejected"}

VARIABLES
  memory,    \* rows of memories, each with its memory_sources
  aged,      \* the memories with updated_at before the retention cutoff
  edges,     \* rows of edges: from, to, relation
  conflicts, \* rows of review_conflicts: candidate, existing
  revision,  \* rows of wiki_revisions, each with the memories it cites
  call       \* the call in progress of each process

vars == <<memory, aged, edges, conflicts, revision, call>>

Processes == Editors \cup Reviewers \cup Curators \cup Maintainers

-----------------------------------------------------------------------------
(* State                                                                   *)

Withdrawn == {"superseded", "disputed", "expired", "rejected"}
Statuses == {"proposed", "active"} \cup Withdrawn
Terminal == {"superseded", "rejected", "expired"}

\* Fault in Relation: an edge is named after the status, which the CHECK of
\* edges.relation does not know.
RelationByStatus == [superseded |-> "superseded", disputed |-> "disputed"]

\* The relation of the memory that replaces or challenges to the other one.
Relation == [superseded |-> "supersedes", disputed |-> "disputes"]

\* An id is unborn until its row is inserted and purged once it is deleted.
Row == [status : Statuses \cup {"unborn", "purged"}, body : Bodies \cup {NoBody},
        sources : SUBSET Events]
NoRow(status) == [status |-> status, body |-> NoBody, sources |-> {}]
Present(row) == row.status \in Statuses
Exists(m) == Present(memory[m])

Idle == [op |-> "idle"]
Call ==
       {Idle}
  \cup [op : {"edit"}, id : Ids, status : Statuses, body : Bodies,
        sources : SUBSET Events, seen : Row]
  \cup [op : {"correct"}, target : Ids, body : Bodies]
  \cup [op : {"link"}, id : Ids, target : Ids]
  \cup [op : {"approve", "reject"}, id : Ids]
  \cup [op : {"replace"}, id : Ids, target : Ids \cup {NoMemory},
        status : {"superseded", "disputed"}]
  \cup [op : {"settle"}, id : Ids, target : Ids,
        status : {"superseded", "disputed"}]
  \cup [op : {"purge"}, ids : SUBSET Ids]
  \cup [op : {"generate"}, page : Pages, cites : SUBSET (Ids \X Events)]
  \cup [op : {"publish", "stale", "refuse"}, revision : Revisions]

RevisionStatuses == {"none", "proposed", "published", "stale", "rejected"}

TypeOK ==
  /\ memory \in [Ids -> Row]
  /\ aged \in SUBSET Ids
  /\ edges \in SUBSET (Ids \X Ids \X {"supersedes", "disputes"})
  /\ conflicts \in SUBSET (Ids \X Ids)
  /\ revision \in [Revisions -> [status : RevisionStatuses, cites : SUBSET Ids]]
  /\ call \in [Processes -> Call]

Init ==
  /\ memory = [m \in Ids |-> NoRow("unborn")]
  /\ aged = {} /\ edges = {} /\ conflicts = {}
  /\ revision = [r \in Revisions |-> [status |-> "none", cites |-> {}]]
  /\ call = [p \in Processes |-> Idle]

Begin(p, c) == call[p] = Idle /\ call' = [call EXCEPT ![p] = c]
End(p) == call' = [call EXCEPT ![p] = Idle]

-----------------------------------------------------------------------------
(* Memories                                                                *)

\* Fault in ActivationAllowed: an activation that submits nothing is let pass.
ActivationAllowedUnsourced(m, sources) == sources \subseteq Local

\* _require_active_source: what is submitted is local evidence, and there is
\* some, submitted or linked before.
ActivationAllowed(m, sources) ==
  /\ sources \subseteq Local
  /\ sources # {} \/ memory[m].sources \cap Local # {}

\* Fault in Staled: proposed revisions are staled instead.
StaledProposals(m) ==
  [r \in Revisions |->
     IF revision[r].status = "proposed" /\ m \in revision[r].cites
     THEN [revision[r] EXCEPT !.status = "stale"] ELSE revision[r]]

\* _stale_wiki_revisions_for_memory: the published ones that cite it.
Staled(m) ==
  [r \in Revisions |->
     IF revision[r].status = "published" /\ m \in revision[r].cites
     THEN [revision[r] EXCEPT !.status = "stale"] ELSE revision[r]]

\* upsert_memory first reads the row there is.
EditRead(p, m, status, body, sources) ==
  /\ Overwrite \/ memory[m].status = "unborn"
  /\ Begin(p, [op |-> "edit", id |-> m, status |-> status, body |-> body,
               sources |-> sources, seen |-> memory[m]])
  /\ UNCHANGED <<memory, aged, edges, conflicts, revision>>

\* The row the call read has other material fields than the one it writes.
Material(c) == c.seen.status # c.status \/ c.seen.body # c.body

\* Then it updates or inserts, as it read.  A row deleted in between fails the
\* foreign keys of its sources or its embedding, one inserted the primary key.
EditWrite(p) ==
  LET c == call[p]
      m == c.id
  IN  /\ c.op = "edit"
      /\ c.status = "active" => ActivationAllowed(m, c.sources)
      /\ c.sources \subseteq Local
      /\ Present(c.seen) <=> Exists(m)
      /\ memory' = [memory EXCEPT ![m] =
                      [status |-> c.status, body |-> c.body,
                       sources |-> @.sources \cup c.sources]]
      /\ aged' = aged \ {m}
      /\ revision' = IF Present(c.seen) /\ Material(c) THEN Staled(m)
                     ELSE revision
      /\ End(p)
      /\ UNCHANGED <<edges, conflicts>>

\* transition, wholly in one transaction.  It asks nothing of the status the
\* memory has; "other" is the challenger or replacement.
Transition(m, status, other) ==
  /\ Exists(m)
  /\ status = "active" => ActivationAllowed(m, {})
  /\ memory' = [memory EXCEPT ![m].status = status]
  /\ aged' = aged \ {m}
  /\ IF status \in DOMAIN Relation /\ other # NoMemory
     THEN Exists(other) /\ edges' = edges \cup {<<other, m, Relation[status]>>}
     ELSE UNCHANGED edges
  /\ revision' = IF status \in Withdrawn THEN Staled(m) ELSE revision
  /\ UNCHANGED conflicts

\* The tool memory_transition.
TransitionCall(m, status, other) ==
  /\ status \in Targets
  /\ Transition(m, status, other)
  /\ UNCHANGED call

\* record_feedback with a signal that moves the importance: updated_at moves.
Feedback(m) ==
  /\ Exists(m)
  /\ aged' = aged \ {m}
  /\ UNCHANGED <<memory, edges, conflicts, revision, call>>

\* The retention period, a day at the least, passes: no call lasts that long.
Age(m) ==
  /\ Exists(m)
  /\ m \notin aged
  /\ \A p \in Processes : call[p] = Idle
  /\ aged' = aged \cup {m}
  /\ UNCHANGED <<memory, edges, conflicts, revision, call>>

-----------------------------------------------------------------------------
(* Corrections and review                                                  *)

\* propose_correction: the memory it corrects exists ...
CorrectRead(p, m, body) ==
  /\ Exists(m)
  /\ Begin(p, [op |-> "correct", target |-> m, body |-> body])
  /\ UNCHANGED <<memory, aged, edges, conflicts, revision>>

\* ... the event that records the correction is the source of a new candidate
\* with an id of its own ...
CorrectWrite(p, n, e) ==
  /\ call[p].op = "correct"
  /\ memory[n].status = "unborn"
  /\ e \in Local
  /\ memory' = [memory EXCEPT ![n] = [status |-> "proposed",
                                      body |-> call[p].body, sources |-> {e}]]
  /\ call' = [call EXCEPT ![p] = [op |-> "link", id |-> n,
                                  target |-> call[p].target]]
  /\ UNCHANGED <<aged, edges, conflicts, revision>>

\* ... and another transaction makes the two a review conflict.
CorrectLink(p) ==
  /\ call[p].op = "link"
  /\ Exists(call[p].id) /\ Exists(call[p].target)
  /\ conflicts' = conflicts \cup {<<call[p].id, call[p].target>>}
  /\ End(p)
  /\ UNCHANGED <<memory, aged, edges, revision>>

\* review_candidate reads that the memory is a proposed one.
ReviewRead(p, m) ==
  /\ memory[m].status = "proposed"
  /\ \/ \E op \in {"approve", "reject"} : Begin(p, [op |-> op, id |-> m])
     \/ \E other \in Ids \cup {NoMemory}, s \in DOMAIN Relation :
          Begin(p, [op |-> "replace", id |-> m, target |-> other,
                    status |-> s])
  /\ UNCHANGED <<memory, aged, edges, conflicts, revision>>

\* Without a related memory it takes one of the candidate's conflicts.
ReviewTarget(p) ==
  /\ call[p].op = "replace" /\ call[p].target = NoMemory
  /\ \E c \in conflicts : /\ c[1] = call[p].id
                          /\ call' = [call EXCEPT ![p].target = c[2]]
  /\ UNCHANGED <<memory, aged, edges, conflicts, revision>>

ReviewApprove(p) ==
  /\ call[p].op = "approve"
  /\ Transition(call[p].id, "active", NoMemory)
  /\ End(p)

ReviewReject(p) ==
  /\ call[p].op = "reject"
  /\ Transition(call[p].id, "rejected", NoMemory)
  /\ End(p)

\* To supersede or dispute takes two transactions: the candidate becomes
\* active ...
ReviewReplace(p) ==
  /\ call[p].op = "replace" /\ call[p].target # NoMemory
  /\ Transition(call[p].id, "active", NoMemory)
  /\ call' = [call EXCEPT ![p].op = "settle"]

\* Fault in ReviewSettle: the edge points the other way.
ReviewSettleReversed(p) ==
  /\ call[p].op = "settle"
  /\ Transition(call[p].target, call[p].status, NoMemory)
  /\ End(p)

\* ... and then the other memory is withdrawn in its favour.
ReviewSettle(p) ==
  /\ call[p].op = "settle"
  /\ Transition(call[p].target, call[p].status, call[p].id)
  /\ End(p)

\* The final checkpoint: a new active handoff with its evidence, and the
\* previous one, active so far, superseded.
Close(n, body, sources, previous) ==
  /\ memory[n].status = "unborn"
  /\ sources # {} /\ sources \subseteq Local
  /\ previous # NoMemory => memory[previous].status = "active"
  /\ memory' = [m \in Ids |->
                  IF m = n THEN [status |-> "active", body |-> body,
                                 sources |-> sources]
                  ELSE IF m = previous
                  THEN [memory[m] EXCEPT !.status = "superseded"]
                  ELSE memory[m]]
  /\ aged' = aged \ {previous}
  /\ edges' = IF previous = NoMemory THEN edges
              ELSE edges \cup {<<n, previous, "supersedes">>}
  /\ UNCHANGED <<conflicts, revision, call>>

-----------------------------------------------------------------------------
(* Maintenance                                                             *)

\* maintain lists the old terminal memories ...
PurgeRead(p) ==
  /\ Begin(p, [op |-> "purge",
               ids |-> {m \in aged : memory[m].status \in Terminal}])
  /\ UNCHANGED <<memory, aged, edges, conflicts, revision>>

\* Fault in Cited: citations do not restrict a delete.
CitedByNothing(m) == FALSE

\* Fault in Cited: sources restrict a delete too.
CitedOrSourced(m) == memory[m].sources # {}

\* A citation, of a revision in any status, restricts the delete.
Cited(m) == \E r \in Revisions : m \in revision[r].cites

\* ... and deletes those on the list in one transaction, with all that
\* cascades.
PurgeWrite(p) ==
  LET gone == call[p].ids
  IN  /\ call[p].op = "purge"
      /\ \A m \in gone : Exists(m) => ~Cited(m)
      /\ memory' = [m \in Ids |-> IF m \in gone THEN NoRow("purged")
                                  ELSE memory[m]]
      /\ aged' = aged \ gone
      /\ edges' = {e \in edges : e[1] \notin gone /\ e[2] \notin gone}
      /\ conflicts' = {c \in conflicts : c[1] \notin gone /\ c[2] \notin gone}
      /\ End(p)
      /\ UNCHANGED revision

-----------------------------------------------------------------------------
(* Wiki revisions                                                          *)

\* generate_wiki_revision reads a brief, which cites memories of any status
\* with all their sources, at least one.
GenerateRead(p, page, ms) ==
  LET cites == {c \in ms \X Events : c[2] \in memory[c[1]].sources}
  IN  /\ cites # {}
      /\ Begin(p, [op |-> "generate", page |-> page, cites |-> cites])
      /\ UNCHANGED <<memory, aged, edges, conflicts, revision>>

\* Each citation is checked again where the revision is written.
GenerateWrite(p, r) ==
  LET cites == call[p].cites
  IN  /\ call[p].op = "generate"
      /\ PageOf[r] = call[p].page /\ revision[r].status = "none"
      /\ \A c \in cites : c[2] \in memory[c[1]].sources \cap Local
      /\ revision' = [revision EXCEPT ![r] = [status |-> "proposed",
                                              cites |-> {c[1] : c \in cites}]]
      /\ End(p)
      /\ UNCHANGED <<memory, aged, edges, conflicts>>

\* The transitions transition_wiki_revision accepts.
Allowed(status) ==
  CASE status = "proposed" -> {"publish", "refuse"}
    [] status = "published" -> {"stale"}
    [] OTHER -> {}

\* It reads the status and checks the transition ...
ReviseRead(p, r, op) ==
  /\ op \in Allowed(revision[r].status)
  /\ Begin(p, [op |-> op, revision |-> r])
  /\ UNCHANGED <<memory, aged, edges, conflicts, revision>>

\* Fault in PublishWrite: the revision published before stays.
PublishWriteBeside(p) ==
  /\ call[p].op = "publish"
  /\ revision' = [revision EXCEPT ![call[p].revision].status = "published"]
  /\ End(p)
  /\ UNCHANGED <<memory, aged, edges, conflicts>>

\* ... and writes: a published revision replaces the one of its page.
PublishWrite(p) ==
  LET r == call[p].revision
  IN  /\ call[p].op = "publish"
      /\ revision' = [q \in Revisions |->
           IF q = r THEN [revision[q] EXCEPT !.status = "published"]
           ELSE IF PageOf[q] = PageOf[r] /\ revision[q].status = "published"
           THEN [revision[q] EXCEPT !.status = "stale"]
           ELSE revision[q]]
      /\ End(p)
      /\ UNCHANGED <<memory, aged, edges, conflicts>>

ReviseWrite(p) ==
  /\ call[p].op \in {"stale", "refuse"}
  /\ revision' = [revision EXCEPT ![call[p].revision].status =
                    IF call[p].op = "stale" THEN "stale" ELSE "rejected"]
  /\ End(p)
  /\ UNCHANGED <<memory, aged, edges, conflicts>>

-----------------------------------------------------------------------------
\* A call ends early: a transaction is refused and rolled back, or the process
\* dies.  What its earlier transactions committed stays.
Abandon(p) ==
  /\ call[p] # Idle
  /\ End(p)
  /\ UNCHANGED <<memory, aged, edges, conflicts, revision>>

EditorStep(p) ==
  \/ \E m \in Ids, s \in Drafts, b \in Bodies, es \in SUBSET Events :
       EditRead(p, m, s, b, es)
  \/ EditWrite(p)
  \/ \E m \in Ids, b \in Bodies : CorrectRead(p, m, b)
  \/ \E n \in Ids, e \in Local : CorrectWrite(p, n, e)
  \/ CorrectLink(p)

ReviewerStep(p) ==
  \/ \E m \in Ids : ReviewRead(p, m)
  \/ ReviewTarget(p)
  \/ ReviewApprove(p)
  \/ ReviewReject(p)
  \/ ReviewReplace(p)
  \/ ReviewSettle(p)

CuratorStep(p) ==
  \/ \E page \in Pages, ms \in SUBSET Ids : GenerateRead(p, page, ms)
  \/ \E r \in Revisions : GenerateWrite(p, r)
  \/ \E r \in Revisions, op \in {"publish", "stale", "refuse"} :
       ReviseRead(p, r, op)
  \/ PublishWrite(p)
  \/ ReviseWrite(p)

MaintainerStep(p) == PurgeRead(p) \/ PurgeWrite(p)

CloserStep(p) ==
  \E n \in Ids, b \in Bodies, es \in SUBSET Local,
     previous \in Ids \cup {NoMemory} : Close(n, b, es, previous)

Next ==
  \/ \E p \in Editors : EditorStep(p)
  \/ \E p \in Reviewers : ReviewerStep(p)
  \/ \E p \in Curators : CuratorStep(p)
  \/ \E p \in Maintainers : MaintainerStep(p)
  \/ \E p \in Closers : CloserStep(p)
  \/ \E p \in Processes : Abandon(p)
  \/ \E m \in Ids, s \in Targets, other \in Ids \cup {NoMemory} :
       TransitionCall(m, s, other)
  \/ \E m \in Ids : Feedback(m)
  \/ \E m \in Ids : Age(m)

Spec == Init /\ [][Next]_vars

\* Maintenance is applied again and again, however often a run fails.
FairSpec ==
  /\ Spec
  /\ \A p \in Maintainers : SF_vars(PurgeRead(p)) /\ SF_vars(PurgeWrite(p))

-----------------------------------------------------------------------------
(* What must hold                                                          *)

\* A memory is active only with a source event of its own project, on each of
\* the ways to become active, whatever happened since the call began.
ActiveHasEvidence ==
  \A m \in Ids : /\ memory[m].sources \subseteq Local
                 /\ memory[m].status = "active" => memory[m].sources # {}

\* transition_wiki_revision: a page has one published revision at most, however
\* many processes publish.
OnePublishedPerPage ==
  \A q, r \in Revisions :
    /\ revision[q].status = "published" /\ revision[r].status = "published"
    /\ PageOf[q] = PageOf[r]
    => q = r

\* A revision never cites a memory that maintenance has deleted, although the
\* brief it is written from was read before.
CitationsResolve ==
  \A r \in Revisions : \A m \in revision[r].cites : Exists(m)

\* "A superseding or disputing memory points to the affected memory through an
\* edge": after a review or a final checkpoint, in each of its transactions.
ReplacementLinked ==
  \A m \in Ids : memory[m].status \in DOMAIN Relation =>
    \E n \in Ids : <<n, m, Relation[memory[m].status]>> \in edges

\* A revision that stays published cites no memory that is materially updated,
\* superseded, disputed, expired or rejected in the step.
WithdrawalStalesWiki ==
  [][\A r \in Revisions : \A m \in revision[r].cites :
       /\ revision[r].status = "published"
       /\ revision'[r].status = "published"
       => /\ memory'[m].body = memory[m].body
          /\ memory'[m].status \in Withdrawn => memory'[m].status = memory[m].status]_vars

\* A revision moves from proposed to published or rejected, and from published
\* to stale, and nowhere else.
RevisionsMoveForward ==
  [][\A r \in Revisions :
       <<revision[r].status, revision'[r].status>> \in
         {<<s, s>> : s \in RevisionStatuses} \cup
         {<<"none", "proposed">>, <<"proposed", "published">>,
          <<"proposed", "rejected">>, <<"published", "stale">>}]_vars

\* Maintenance that is applied again and again removes an old terminal memory,
\* unless it is brought back or touched.
TerminalPurged ==
  \A m \in Ids :
    m \in aged /\ memory[m].status \in Terminal
      ~> ~(m \in aged /\ memory[m].status \in Terminal)
=============================================================================
