----------------------- MODULE MemoryLifecycleProofs -----------------------
(***************************************************************************)
(* Proofs about MemoryLifecycle, for any number of memories, revisions and *)
(* processes.                                                              *)
(***************************************************************************)
EXTENDS MemoryLifecycle, TLAPS

USE EvidenceAssumption, PagesAssumption, ClientsAssumption, IdsAssumption

-----------------------------------------------------------------------------
(* What a call in progress carries                                         *)

LEMMA CallFields ==
  ASSUME NEW c \in Call
  PROVE  /\ c.op = "edit" =>
              /\ c.id \in Ids /\ c.status \in Statuses /\ c.body \in Bodies
              /\ c.sources \in SUBSET Events /\ c.seen \in Row
         /\ c.op = "correct" => c.target \in Ids /\ c.body \in Bodies
         /\ c.op = "link" => c.id \in Ids /\ c.target \in Ids
         /\ c.op \in {"approve", "reject"} => c.id \in Ids
         /\ c.op \in {"replace", "settle"} =>
              /\ c = [op |-> c.op, id |-> c.id, target |-> c.target,
                      status |-> c.status]
              /\ c.id \in Ids /\ c.target \in Ids \cup {NoMemory}
              /\ c.status \in {"superseded", "disputed"}
         /\ c.op = "settle" => c.target \in Ids
         /\ c.op = "purge" => c.ids \in SUBSET Ids
         /\ c.op = "generate" => c.page \in Pages
                                 /\ c.cites \in SUBSET (Ids \X Events)
         /\ c.op \in {"publish", "stale", "refuse"} =>
              c.revision \in Revisions
<1>1. CASE c = Idle
  BY <1>1 DEF Idle
<1>2. CASE c # Idle
  BY <1>2 DEF Call
<1> QED BY <1>1, <1>2

LEMMA CallOf == ASSUME TypeOK, NEW p \in Processes PROVE call[p] \in Call
BY DEF TypeOK

LEMMA BeginType == ASSUME TypeOK, NEW p \in Processes, NEW c \in Call
                   PROVE  [call EXCEPT ![p] = c] \in [Processes -> Call]
BY DEF TypeOK

LEMMA EndType == ASSUME TypeOK, NEW p \in Processes, End(p)
                 PROVE  call' \in [Processes -> Call]
BY DEF TypeOK, End, Call

-----------------------------------------------------------------------------
(* Type correctness                                                        *)

LEMMA StaledType ==
  ASSUME TypeOK, NEW m
  PROVE  Staled(m) \in [Revisions -> [status : RevisionStatuses,
                                      cites : SUBSET Ids]]
BY DEF TypeOK, Staled, RevisionStatuses

LEMMA TransitionType ==
  ASSUME TypeOK, NEW m \in Ids, NEW s \in Statuses \ {"proposed"},
         NEW other \in Ids \cup {NoMemory}, Transition(m, s, other)
  PROVE  /\ memory' \in [Ids -> Row]
         /\ aged' \in SUBSET Ids
         /\ edges' \in SUBSET (Ids \X Ids \X {"supersedes", "disputes"})
         /\ conflicts' \in SUBSET (Ids \X Ids)
         /\ revision' \in [Revisions -> [status : RevisionStatuses,
                                         cites : SUBSET Ids]]
<1>1. memory' \in [Ids -> Row]
  BY DEF Transition, TypeOK, Row
<1>2. edges' \in SUBSET (Ids \X Ids \X {"supersedes", "disputes"})
  <2>1. CASE s \in DOMAIN Relation /\ other # NoMemory
    <3>1. Relation[s] \in {"supersedes", "disputes"}
      BY <2>1 DEF Relation
    <3> QED BY <2>1, <3>1 DEF Transition, TypeOK
  <2>2. CASE ~(s \in DOMAIN Relation /\ other # NoMemory)
    BY <2>2 DEF Transition, TypeOK
  <2> QED BY <2>1, <2>2
<1>3. revision' \in [Revisions -> [status : RevisionStatuses, cites : SUBSET Ids]]
  BY StaledType DEF Transition, TypeOK
<1> QED BY <1>1, <1>2, <1>3 DEF Transition, TypeOK

LEMMA EditorType ==
  ASSUME TypeOK, NEW p \in Editors, EditorStep(p) PROVE TypeOK'
<1>p. p \in Processes /\ call[p] \in Call
  BY CallOf DEF Processes
<1>1. ASSUME NEW m \in Ids, NEW s \in Drafts, NEW b \in Bodies,
             NEW es \in SUBSET Events, EditRead(p, m, s, b, es)
      PROVE  TypeOK'
  <2>1. [op |-> "edit", id |-> m, status |-> s, body |-> b, sources |-> es,
         seen |-> memory[m]] \in Call
    BY DEF Call, TypeOK, Statuses, Withdrawn
  <2>2. call' \in [Processes -> Call]
    BY <1>1, <1>p, <2>1, BeginType DEF EditRead, Begin
  <2> QED BY <1>1, <2>2 DEF EditRead, TypeOK
<1>2. CASE EditWrite(p)
  <2>1. /\ call[p].id \in Ids /\ call[p].status \in Statuses
        /\ call[p].body \in Bodies /\ call[p].sources \in SUBSET Events
    BY <1>2, <1>p, CallFields DEF EditWrite
  <2>2. memory' \in [Ids -> Row]
    BY <1>2, <2>1 DEF EditWrite, TypeOK, Row
  <2>3. revision' \in [Revisions -> [status : RevisionStatuses,
                                     cites : SUBSET Ids]]
    BY <1>2, StaledType DEF EditWrite, TypeOK
  <2>4. call' \in [Processes -> Call]
    BY <1>2, <1>p, EndType DEF EditWrite
  <2> QED BY <1>2, <2>2, <2>3, <2>4 DEF EditWrite, TypeOK
<1>3. ASSUME NEW m \in Ids, NEW b \in Bodies, CorrectRead(p, m, b)
      PROVE  TypeOK'
  <2>1. [op |-> "correct", target |-> m, body |-> b] \in Call
    BY DEF Call
  <2>2. call' \in [Processes -> Call]
    BY <1>3, <1>p, <2>1, BeginType DEF CorrectRead, Begin
  <2> QED BY <1>3, <2>2 DEF CorrectRead, TypeOK
<1>4. ASSUME NEW n \in Ids, NEW e \in Local, CorrectWrite(p, n, e)
      PROVE  TypeOK'
  <2>1. call[p].target \in Ids /\ call[p].body \in Bodies
    BY <1>4, <1>p, CallFields DEF CorrectWrite
  <2>2. memory' \in [Ids -> Row]
    BY <1>4, <2>1 DEF CorrectWrite, TypeOK, Row, Statuses
  <2>3. [op |-> "link", id |-> n, target |-> call[p].target] \in Call
    BY <2>1 DEF Call
  <2>4. call' \in [Processes -> Call]
    BY <1>4, <1>p, <2>3, BeginType DEF CorrectWrite
  <2> QED BY <1>4, <2>2, <2>4 DEF CorrectWrite, TypeOK
<1>5. CASE CorrectLink(p)
  <2>1. call[p].id \in Ids /\ call[p].target \in Ids
    BY <1>5, <1>p, CallFields DEF CorrectLink
  <2>2. call' \in [Processes -> Call]
    BY <1>5, <1>p, EndType DEF CorrectLink
  <2> QED BY <1>5, <2>1, <2>2 DEF CorrectLink, TypeOK
<1> QED BY <1>1, <1>2, <1>3, <1>4, <1>5 DEF EditorStep

LEMMA ReviewerType ==
  ASSUME TypeOK, NEW p \in Reviewers, ReviewerStep(p) PROVE TypeOK'
<1>p. p \in Processes /\ call[p] \in Call
  BY CallOf DEF Processes
<1>s. {"active", "rejected", "superseded", "disputed"}
        \subseteq Statuses \ {"proposed"}
  BY DEF Statuses, Withdrawn
<1>1. ASSUME NEW m \in Ids, ReviewRead(p, m) PROVE TypeOK'
  <2>1. PICK c \in Call : call' = [call EXCEPT ![p] = c]
    <3>1. ASSUME NEW op \in {"approve", "reject"},
                 Begin(p, [op |-> op, id |-> m])
          PROVE  \E c \in Call : call' = [call EXCEPT ![p] = c]
      <4>1. [op |-> op, id |-> m] \in Call
        BY DEF Call
      <4> QED BY <3>1, <4>1 DEF Begin
    <3>2. ASSUME NEW other \in Ids \cup {NoMemory}, NEW s \in DOMAIN Relation,
                 Begin(p, [op |-> "replace", id |-> m, target |-> other,
                           status |-> s])
          PROVE  \E c \in Call : call' = [call EXCEPT ![p] = c]
      <4>1. [op |-> "replace", id |-> m, target |-> other, status |-> s]
              \in Call
        BY DEF Call, Relation
      <4> QED BY <3>2, <4>1 DEF Begin
    <3> QED BY <1>1, <3>1, <3>2 DEF ReviewRead
  <2>2. call' \in [Processes -> Call]
    BY <1>p, <2>1, BeginType
  <2> QED BY <1>1, <2>2 DEF ReviewRead, TypeOK
<1>2. CASE ReviewTarget(p)
  <2>1. PICK c \in conflicts : call' = [call EXCEPT ![p].target = c[2]]
    BY <1>2 DEF ReviewTarget
  <2>2. c[2] \in Ids
    BY DEF TypeOK
  <2>3. [call[p] EXCEPT !.target = c[2]] \in Call
    <3>1. /\ call[p] = [op |-> call[p].op, id |-> call[p].id,
                        target |-> call[p].target, status |-> call[p].status]
          /\ call[p].op = "replace" /\ call[p].id \in Ids
          /\ call[p].status \in {"superseded", "disputed"}
      BY <1>2, <1>p, CallFields DEF ReviewTarget
    <3>2. [call[p] EXCEPT !.target = c[2]] =
            [op |-> "replace", id |-> call[p].id, target |-> c[2],
             status |-> call[p].status]
      BY <3>1
    <3> QED BY <2>2, <3>1, <3>2 DEF Call
  <2>4. call' \in [Processes -> Call]
    BY <1>p, <2>1, <2>3 DEF TypeOK
  <2> QED BY <1>2, <2>4 DEF ReviewTarget, TypeOK
<1>3. CASE ReviewApprove(p) \/ ReviewReject(p)
  <2>1. call[p].id \in Ids
    BY <1>3, <1>p, CallFields DEF ReviewApprove, ReviewReject
  <2>2. call' \in [Processes -> Call]
    BY <1>3, <1>p, EndType DEF ReviewApprove, ReviewReject
  <2> QED BY <1>3, <1>s, <2>1, <2>2, TransitionType
          DEF ReviewApprove, ReviewReject, TypeOK
<1>4. CASE ReviewReplace(p)
  <2>1. /\ call[p] = [op |-> "replace", id |-> call[p].id,
                      target |-> call[p].target, status |-> call[p].status]
        /\ call[p].id \in Ids /\ call[p].target \in Ids
        /\ call[p].status \in {"superseded", "disputed"}
    BY <1>4, <1>p, CallFields DEF ReviewReplace
  <2>2. [call[p] EXCEPT !.op = "settle"] =
          [op |-> "settle", id |-> call[p].id, target |-> call[p].target,
           status |-> call[p].status]
    BY <2>1
  <2>3. [call[p] EXCEPT !.op = "settle"] \in Call
    BY <2>1, <2>2 DEF Call
  <2>4. call' \in [Processes -> Call]
    BY <1>4, <1>p, <2>3 DEF ReviewReplace, TypeOK
  <2> QED BY <1>4, <1>s, <2>1, <2>4, TransitionType DEF ReviewReplace, TypeOK
<1>5. CASE ReviewSettle(p)
  <2>1. /\ call[p].id \in Ids
        /\ call[p].target \in Ids
        /\ call[p].status \in {"superseded", "disputed"}
    BY <1>5, <1>p, CallFields DEF ReviewSettle
  <2>2. call' \in [Processes -> Call]
    BY <1>5, <1>p, EndType DEF ReviewSettle
  <2> QED BY <1>5, <1>s, <2>1, <2>2, TransitionType DEF ReviewSettle, TypeOK
<1> QED BY <1>1, <1>2, <1>3, <1>4, <1>5 DEF ReviewerStep

LEMMA CuratorType ==
  ASSUME TypeOK, NEW p \in Curators, CuratorStep(p) PROVE TypeOK'
<1>p. p \in Processes /\ call[p] \in Call
  BY CallOf DEF Processes
<1>1. ASSUME NEW page \in Pages, NEW ms \in SUBSET Ids,
             GenerateRead(p, page, ms)
      PROVE  TypeOK'
  <2> DEFINE cites == {c \in ms \X Events : c[2] \in memory[c[1]].sources}
  <2>1. [op |-> "generate", page |-> page, cites |-> cites] \in Call
    BY DEF Call
  <2>2. call' \in [Processes -> Call]
    BY <1>1, <1>p, <2>1, BeginType DEF GenerateRead, Begin
  <2> QED BY <1>1, <2>2 DEF GenerateRead, TypeOK
<1>2. ASSUME NEW r \in Revisions, GenerateWrite(p, r) PROVE TypeOK'
  <2>1. call[p].cites \in SUBSET (Ids \X Events)
    BY <1>2, <1>p, CallFields DEF GenerateWrite
  <2>2. {c[1] : c \in call[p].cites} \in SUBSET Ids
    BY <2>1
  <2>3. revision' \in [Revisions -> [status : RevisionStatuses,
                                     cites : SUBSET Ids]]
    BY <1>2, <2>2 DEF GenerateWrite, TypeOK, RevisionStatuses
  <2>4. call' \in [Processes -> Call]
    BY <1>2, <1>p, EndType DEF GenerateWrite
  <2> QED BY <1>2, <2>3, <2>4 DEF GenerateWrite, TypeOK
<1>3. ASSUME NEW r \in Revisions, NEW op \in {"publish", "stale", "refuse"},
             ReviseRead(p, r, op)
      PROVE  TypeOK'
  <2>1. [op |-> op, revision |-> r] \in Call
    BY DEF Call
  <2>2. call' \in [Processes -> Call]
    BY <1>3, <1>p, <2>1, BeginType DEF ReviseRead, Begin
  <2> QED BY <1>3, <2>2 DEF ReviseRead, TypeOK
<1>4. CASE PublishWrite(p)
  <2>1. revision' \in [Revisions -> [status : RevisionStatuses,
                                     cites : SUBSET Ids]]
    <3> DEFINE Rows == [status : RevisionStatuses, cites : SUBSET Ids]
    <3>1. \A q \in Revisions : \A s \in RevisionStatuses :
            [revision[q] EXCEPT !.status = s] \in Rows
      BY DEF TypeOK
    <3>2. \A q \in Revisions :
            /\ [revision[q] EXCEPT !.status = "published"] \in Rows
            /\ [revision[q] EXCEPT !.status = "stale"] \in Rows
            /\ revision[q] \in Rows
      BY <3>1 DEF TypeOK, RevisionStatuses
    <3> HIDE DEF Rows
    <3>3. revision' \in [Revisions -> Rows]
      BY <1>4, <3>2 DEF PublishWrite
    <3> QED BY <3>3 DEF Rows
  <2>2. call' \in [Processes -> Call]
    BY <1>4, <1>p, EndType DEF PublishWrite
  <2> QED BY <1>4, <2>1, <2>2 DEF PublishWrite, TypeOK
<1>5. CASE ReviseWrite(p)
  <2>1. revision' \in [Revisions -> [status : RevisionStatuses,
                                     cites : SUBSET Ids]]
    <3>1. PICK s \in {"stale", "rejected"} :
            revision' = [revision EXCEPT ![call[p].revision].status = s]
      BY <1>5 DEF ReviseWrite
    <3>2. call[p].revision \in Revisions
      BY <1>5, <1>p, CallFields DEF ReviseWrite
    <3>3. [revision[call[p].revision] EXCEPT !.status = s]
            \in [status : RevisionStatuses, cites : SUBSET Ids]
      BY <3>2 DEF TypeOK, RevisionStatuses
    <3> QED BY <3>1, <3>3 DEF TypeOK
  <2>2. call' \in [Processes -> Call]
    BY <1>5, <1>p, EndType DEF ReviseWrite
  <2> QED BY <1>5, <2>1, <2>2 DEF ReviseWrite, TypeOK
<1> QED BY <1>1, <1>2, <1>3, <1>4, <1>5 DEF CuratorStep

LEMMA MaintainerType ==
  ASSUME TypeOK, NEW p \in Maintainers, MaintainerStep(p) PROVE TypeOK'
<1>p. p \in Processes /\ call[p] \in Call
  BY CallOf DEF Processes
<1>1. CASE PurgeRead(p)
  <2> DEFINE ids == {m \in aged : memory[m].status \in Terminal}
  <2>1. [op |-> "purge", ids |-> ids] \in Call
    BY DEF Call, TypeOK
  <2>2. call' \in [Processes -> Call]
    BY <1>1, <1>p, <2>1, BeginType DEF PurgeRead, Begin
  <2> QED BY <1>1, <2>2 DEF PurgeRead, TypeOK
<1>2. CASE PurgeWrite(p)
  <2>1. memory' \in [Ids -> Row]
    BY <1>2 DEF PurgeWrite, NoRow, TypeOK, Row
  <2>2. call' \in [Processes -> Call]
    BY <1>2, <1>p, EndType DEF PurgeWrite
  <2> QED BY <1>2, <2>1, <2>2 DEF PurgeWrite, TypeOK
<1> QED BY <1>1, <1>2 DEF MaintainerStep

LEMMA CloserType ==
  ASSUME TypeOK, NEW p \in Closers, CloserStep(p) PROVE TypeOK'
<1>1. PICK n \in Ids, b \in Bodies, es \in SUBSET Local,
           previous \in Ids \cup {NoMemory} : Close(n, b, es, previous)
  BY DEF CloserStep
<1>2. memory' \in [Ids -> Row]
  BY <1>1 DEF Close, TypeOK, Row, Statuses, Withdrawn
<1>3. edges' \in SUBSET (Ids \X Ids \X {"supersedes", "disputes"})
  BY <1>1 DEF Close, TypeOK
<1> QED BY <1>1, <1>2, <1>3 DEF Close, TypeOK

LEMMA TypeStep == TypeOK /\ [Next]_vars => TypeOK'
<1> SUFFICES ASSUME TypeOK, [Next]_vars PROVE TypeOK'
  OBVIOUS
<1>1. ASSUME NEW p \in Processes, Abandon(p) PROVE TypeOK'
  BY <1>1, EndType DEF Abandon, TypeOK
<1>2. ASSUME NEW m \in Ids, NEW s \in Targets,
             NEW other \in Ids \cup {NoMemory}, TransitionCall(m, s, other)
      PROVE  TypeOK'
  <2>1. s \in Statuses \ {"proposed"}
    BY DEF Statuses, Withdrawn
  <2> QED BY <1>2, <2>1, TransitionType DEF TransitionCall, TypeOK
<1>3. ASSUME NEW m \in Ids, Feedback(m) \/ Age(m) PROVE TypeOK'
  BY <1>3 DEF Feedback, Age, TypeOK
<1>4. CASE UNCHANGED vars
  BY <1>4 DEF vars, TypeOK
<1> QED BY <1>1, <1>2, <1>3, <1>4, EditorType, ReviewerType, CuratorType,
           MaintainerType, CloserType DEF Next

\* Every variable keeps its type.
THEOREM TypeCorrect == Spec => []TypeOK
<1>1. Init => TypeOK
  BY DEF Init, TypeOK, NoRow, Row, RevisionStatuses, Call
<1> QED BY <1>1, TypeStep, PTL DEF Spec

-----------------------------------------------------------------------------
(* Evidence                                                                *)

LEMMA TransitionKeepsEvidence ==
  ASSUME TypeOK, ActiveHasEvidence, NEW m \in Ids, NEW s, NEW other,
         Transition(m, s, other)
  PROVE  ActiveHasEvidence'
<1>1. \A n \in Ids : /\ memory'[n].sources = memory[n].sources
                     /\ n # m => memory'[n].status = memory[n].status
  BY DEF Transition, TypeOK, Row
<1>2. memory'[m].status = s
  BY DEF Transition, TypeOK, Row
<1>3. s = "active" => memory[m].sources # {}
  BY DEF Transition, ActivationAllowed
<1> QED BY <1>1, <1>2, <1>3 DEF ActiveHasEvidence

LEMMA EvidenceStep == TypeOK /\ ActiveHasEvidence /\ [Next]_vars
                        => ActiveHasEvidence'
<1> SUFFICES ASSUME TypeOK, ActiveHasEvidence, [Next]_vars
             PROVE  ActiveHasEvidence'
  OBVIOUS
<1>1. CASE UNCHANGED memory
  BY <1>1 DEF ActiveHasEvidence
<1>2. ASSUME NEW p \in Editors, EditWrite(p) PROVE ActiveHasEvidence'
  <2> DEFINE c == call[p]
  <2>1. memory' = [memory EXCEPT ![c.id] =
                     [status |-> c.status, body |-> c.body,
                      sources |-> @.sources \cup c.sources]]
    BY <1>2 DEF EditWrite
  <2>2. /\ c.sources \subseteq Local
        /\ c.status = "active" =>
             c.sources # {} \/ memory[c.id].sources \cap Local # {}
    BY <1>2 DEF EditWrite, ActivationAllowed
  <2>3. ASSUME NEW n \in Ids, n # c.id PROVE memory'[n] = memory[n]
    BY <2>1, <2>3 DEF TypeOK
  <2>4. ASSUME c.id \in Ids
        PROVE  /\ memory'[c.id].sources = memory[c.id].sources \cup c.sources
               /\ memory'[c.id].status = c.status
    BY <2>1, <2>4 DEF TypeOK
  <2> HIDE DEF c
  <2> QED BY <2>2, <2>3, <2>4 DEF ActiveHasEvidence
<1>3. ASSUME NEW p \in Editors, NEW n \in Ids, NEW e \in Local,
             CorrectWrite(p, n, e)
      PROVE  ActiveHasEvidence'
  BY <1>3 DEF CorrectWrite, ActiveHasEvidence, TypeOK
<1>4. ASSUME NEW p \in Reviewers,
             ReviewApprove(p) \/ ReviewReject(p) \/ ReviewReplace(p)
               \/ ReviewSettle(p)
      PROVE  ActiveHasEvidence'
  <2>1. call[p] \in Call
    BY CallOf DEF Processes
  <2>2. CASE ReviewSettle(p)
    <3>1. call[p].target \in Ids
      BY <2>1, <2>2, CallFields DEF ReviewSettle
    <3> QED BY <2>2, <3>1, TransitionKeepsEvidence DEF ReviewSettle
  <2>3. CASE ReviewApprove(p) \/ ReviewReject(p) \/ ReviewReplace(p)
    <3>1. call[p].id \in Ids
      BY <2>1, <2>3, CallFields
         DEF ReviewApprove, ReviewReject, ReviewReplace
    <3> QED BY <2>3, <3>1, TransitionKeepsEvidence
            DEF ReviewApprove, ReviewReject, ReviewReplace
  <2> QED BY <1>4, <2>2, <2>3
<1>5. ASSUME NEW p \in Closers, CloserStep(p) PROVE ActiveHasEvidence'
  <2>1. PICK n \in Ids, b \in Bodies, es \in SUBSET Local,
             previous \in Ids \cup {NoMemory} : Close(n, b, es, previous)
    BY <1>5 DEF CloserStep
  <2> QED BY <2>1 DEF Close, ActiveHasEvidence, TypeOK, Row
<1>6. ASSUME NEW p \in Maintainers, PurgeWrite(p) PROVE ActiveHasEvidence'
  BY <1>6 DEF PurgeWrite, NoRow, ActiveHasEvidence
<1>7. ASSUME NEW m \in Ids, NEW s \in Targets,
             NEW other \in Ids \cup {NoMemory}, TransitionCall(m, s, other)
      PROVE  ActiveHasEvidence'
  BY <1>7, TransitionKeepsEvidence DEF TransitionCall
<1>8. ASSUME NEW p \in Curators, CuratorStep(p) PROVE UNCHANGED memory
  BY <1>8 DEF CuratorStep, GenerateRead, GenerateWrite, ReviseRead,
              PublishWrite, ReviseWrite
<1> QED BY <1>1, <1>2, <1>3, <1>4, <1>5, <1>6, <1>7, <1>8
        DEF Next, vars, EditorStep, EditRead, CorrectRead, CorrectLink,
            ReviewerStep, ReviewRead, ReviewTarget, MaintainerStep, PurgeRead,
            Abandon, Feedback, Age

\* A memory is active only with a source event of its own project.
THEOREM ActiveIsEvidenced == Spec => []ActiveHasEvidence
<1>1. Init => ActiveHasEvidence
  BY DEF Init, ActiveHasEvidence, NoRow
<1> QED BY <1>1, EvidenceStep, TypeCorrect, PTL DEF Spec

-----------------------------------------------------------------------------
(* Wiki revisions                                                          *)

\* Only publishing makes a revision published.
LEMMA StaledPublishesNothing ==
  ASSUME TypeOK, NEW m, NEW r \in Revisions
  PROVE  /\ Staled(m)[r].status = "published" => revision[r].status = "published"
         /\ Staled(m)[r].cites = revision[r].cites
BY DEF Staled, TypeOK

\* A step that, for all the revisions, only makes published ones stale.
OnlyStaled ==
  \A r \in Revisions :
    \/ revision'[r] = revision[r]
    \/ /\ revision[r].status = "published"
       /\ revision'[r].status = "stale"
       /\ revision'[r].cites = revision[r].cites

LEMMA StaledOnly == ASSUME TypeOK, NEW m, revision' = Staled(m) PROVE OnlyStaled
BY DEF Staled, OnlyStaled, TypeOK

\* Curators alone write revisions themselves.
LEMMA RevisionMoves ==
  ASSUME TypeOK, [Next]_vars
  PROVE  \/ OnlyStaled
         \/ \E p \in Curators : \/ \E r \in Revisions : GenerateWrite(p, r)
                                \/ PublishWrite(p)
                                \/ ReviseWrite(p)
<1>1. ASSUME UNCHANGED revision PROVE OnlyStaled
  BY <1>1 DEF OnlyStaled
<1>2. ASSUME NEW m, NEW s, NEW other, Transition(m, s, other) PROVE OnlyStaled
  BY <1>1, <1>2, StaledOnly DEF Transition
<1>3. ASSUME NEW p \in Reviewers, ReviewerStep(p) PROVE OnlyStaled
  BY <1>1, <1>2, <1>3
     DEF ReviewerStep, ReviewRead, ReviewTarget, ReviewApprove, ReviewReject,
         ReviewReplace, ReviewSettle
<1>4. ASSUME NEW p \in Editors, EditorStep(p) PROVE OnlyStaled
  BY <1>1, <1>4, StaledOnly
     DEF EditorStep, EditRead, EditWrite, CorrectRead, CorrectWrite, CorrectLink
<1>5. ASSUME NEW p \in Closers, CloserStep(p) PROVE UNCHANGED revision
  BY <1>5 DEF CloserStep, Close
<1>6. ASSUME NEW p \in Maintainers, MaintainerStep(p) PROVE UNCHANGED revision
  BY <1>6 DEF MaintainerStep, PurgeRead, PurgeWrite
<1> QED BY <1>1, <1>2, <1>3, <1>4, <1>5, <1>6
        DEF Next, vars, CuratorStep, GenerateRead, ReviseRead, Abandon,
            TransitionCall, Feedback, Age

NothingPublished ==
  \A r \in Revisions :
    revision'[r].status = "published" => revision[r].status = "published"

LEMMA PublishedOnlyByPublishing ==
  ASSUME TypeOK, [Next]_vars
  PROVE  NothingPublished \/ \E p \in Curators : PublishWrite(p)
<1>1. ASSUME OnlyStaled PROVE NothingPublished
  BY <1>1 DEF OnlyStaled, NothingPublished
<1>2. ASSUME NEW p \in Curators, NEW r \in Revisions, GenerateWrite(p, r)
      PROVE  NothingPublished
  BY <1>2 DEF GenerateWrite, NothingPublished, TypeOK
<1>3. ASSUME NEW p \in Curators, ReviseWrite(p) PROVE NothingPublished
  <2>1. PICK s \in {"stale", "rejected"} :
          revision' = [revision EXCEPT ![call[p].revision].status = s]
    BY <1>3 DEF ReviseWrite
  <2> QED BY <2>1 DEF NothingPublished, TypeOK
<1> QED BY <1>1, <1>2, <1>3, RevisionMoves

LEMMA PublishedStep == TypeOK /\ OnePublishedPerPage /\ [Next]_vars
                         => OnePublishedPerPage'
<1> SUFFICES ASSUME TypeOK, OnePublishedPerPage, [Next]_vars
             PROVE  OnePublishedPerPage'
  OBVIOUS
<1>1. CASE NothingPublished
  BY <1>1 DEF NothingPublished, OnePublishedPerPage
<1>2. ASSUME NEW p \in Curators, PublishWrite(p) PROVE OnePublishedPerPage'
  <2> DEFINE r == call[p].revision
  <2>1. \A q \in Revisions :
          q # r /\ revision'[q].status = "published"
            => PageOf[q] # PageOf[r] /\ revision[q].status = "published"
    BY <1>2 DEF PublishWrite, TypeOK
  <2> QED BY <2>1 DEF OnePublishedPerPage
<1> QED BY <1>1, <1>2, PublishedOnlyByPublishing

\* A page has one published revision at most.
THEOREM PublishedIsUnique == Spec => []OnePublishedPerPage
<1>1. Init => OnePublishedPerPage
  BY DEF Init, OnePublishedPerPage
<1> QED BY <1>1, PublishedStep, TypeCorrect, PTL DEF Spec

-----------------------------------------------------------------------------
(* Citations                                                               *)

\* Sources belong to rows there are: a deletion takes them along.
SourcesOfRows == \A m \in Ids : memory[m].sources # {} => Exists(m)

CitationInv == SourcesOfRows /\ CitationsResolve

LEMMA TransitionKeepsRows ==
  ASSUME TypeOK, NEW m \in Ids, NEW s \in Statuses, NEW other,
         Transition(m, s, other)
  PROVE  \A n \in Ids : /\ memory'[n].sources = memory[n].sources
                        /\ Exists(n) => Exists(n)'
                        /\ ~Exists(n) => memory'[n] = memory[n]
BY DEF Transition, Exists, Present, TypeOK, Row

\* A step that keeps the rows and the citations keeps the invariant.
LEMMA CitationsKept ==
  ASSUME CitationInv,
         \A n \in Ids : /\ Exists(n) => Exists(n)'
                        /\ memory'[n].sources # memory[n].sources => Exists(n)',
         \A r \in Revisions : revision'[r].cites = revision[r].cites,
         TypeOK
  PROVE  CitationInv'
<1>1. SourcesOfRows'
  BY DEF CitationInv, SourcesOfRows
<1>2. CitationsResolve'
  BY DEF CitationInv, CitationsResolve, TypeOK
<1> QED BY <1>1, <1>2 DEF CitationInv

LEMMA TransitionKeepsCitations ==
  ASSUME TypeOK, CitationInv, NEW m \in Ids, NEW s \in Statuses, NEW other,
         Transition(m, s, other)
  PROVE  CitationInv'
<1>1. \A r \in Revisions : revision'[r].cites = revision[r].cites
  BY StaledPublishesNothing DEF Transition
<1> QED BY <1>1, TransitionKeepsRows, CitationsKept

LEMMA CitationStep == TypeOK /\ CitationInv /\ [Next]_vars => CitationInv'
<1> SUFFICES ASSUME TypeOK, CitationInv, [Next]_vars PROVE CitationInv'
  OBVIOUS
<1>1. CASE UNCHANGED <<memory, revision>>
  BY <1>1 DEF CitationInv, SourcesOfRows, CitationsResolve, Exists
<1>2. ASSUME NEW p \in Editors, EditWrite(p) PROVE CitationInv'
  <2> DEFINE c == call[p]
  <2>1. c.id \in Ids /\ c.status \in Statuses
    BY <1>2, CallOf, CallFields DEF EditWrite, Processes
  <2>2. memory' = [memory EXCEPT ![c.id] =
                     [status |-> c.status, body |-> c.body,
                      sources |-> @.sources \cup c.sources]]
    BY <1>2 DEF EditWrite
  <2>3. memory'[c.id].status = c.status
    BY <2>1, <2>2 DEF TypeOK
  <2>4. \A n \in Ids : n # c.id => memory'[n] = memory[n]
    BY <2>2 DEF TypeOK
  <2>5. \A r \in Revisions : revision'[r].cites = revision[r].cites
    BY <1>2, StaledPublishesNothing DEF EditWrite
  <2>6. \A n \in Ids :
          /\ Exists(n) => Exists(n)'
          /\ memory'[n].sources # memory[n].sources => Exists(n)'
    <3>1. memory'[c.id].status \in Statuses
      BY <2>1, <2>3
    <3> HIDE DEF c
    <3> QED BY <2>4, <3>1 DEF Exists, Present
  <2> QED BY <2>5, <2>6, CitationsKept
<1>3. ASSUME NEW p \in Editors, NEW n \in Ids, NEW e \in Local,
             CorrectWrite(p, n, e)
      PROVE  CitationInv'
  <2>1. /\ memory'[n].status = "proposed" /\ revision' = revision
        /\ \A m \in Ids : m # n => memory'[m] = memory[m]
    BY <1>3 DEF CorrectWrite, TypeOK
  <2>2. \A m \in Ids : m # n => (Exists(m)' <=> Exists(m))
    BY <2>1 DEF Exists
  <2>3. Exists(n)'
    BY <2>1 DEF Exists, Present, Statuses
  <2> QED BY <2>1, <2>2, <2>3, CitationsKept
<1>4. ASSUME NEW p \in Reviewers,
             ReviewApprove(p) \/ ReviewReject(p) \/ ReviewReplace(p)
               \/ ReviewSettle(p)
      PROVE  CitationInv'
  <2>1. call[p] \in Call
    BY CallOf DEF Processes
  <2>2. {"active", "rejected", "superseded", "disputed"} \subseteq Statuses
    BY DEF Statuses, Withdrawn
  <2>3. CASE ReviewSettle(p)
    <3>1. /\ call[p].target \in Ids
          /\ call[p].status \in {"superseded", "disputed"}
      BY <2>1, <2>3, CallFields DEF ReviewSettle
    <3> QED BY <2>2, <2>3, <3>1, TransitionKeepsCitations DEF ReviewSettle
  <2>4. CASE ReviewApprove(p) \/ ReviewReject(p) \/ ReviewReplace(p)
    <3>1. call[p].id \in Ids
      BY <2>1, <2>4, CallFields
         DEF ReviewApprove, ReviewReject, ReviewReplace
    <3> QED BY <2>2, <2>4, <3>1, TransitionKeepsCitations
            DEF ReviewApprove, ReviewReject, ReviewReplace
  <2> QED BY <1>4, <2>3, <2>4
<1>5. ASSUME NEW p \in Closers, CloserStep(p) PROVE CitationInv'
  <2>1. PICK n \in Ids, b \in Bodies, es \in SUBSET Local,
             previous \in Ids \cup {NoMemory} : Close(n, b, es, previous)
    BY <1>5 DEF CloserStep
  <2>2. \A m \in Ids :
          /\ Exists(m) => Exists(m)'
          /\ memory'[m].sources # memory[m].sources => Exists(m)'
    BY <2>1 DEF Close, Exists, Present, Statuses, Withdrawn, TypeOK, Row
  <2> QED BY <2>1, <2>2, CitationsKept DEF Close
<1>6. ASSUME NEW p \in Maintainers, PurgeWrite(p) PROVE CitationInv'
  <2>1. SourcesOfRows'
    BY <1>6 DEF PurgeWrite, NoRow, CitationInv, SourcesOfRows, Exists
  <2>2. \A r \in Revisions : \A m \in revision[r].cites :
          m \in Ids /\ m \notin call[p].ids
    BY <1>6 DEF PurgeWrite, Cited, CitationInv, CitationsResolve, TypeOK
  <2>3. CitationsResolve'
    BY <1>6, <2>2 DEF PurgeWrite, CitationInv, CitationsResolve, Exists
  <2> QED BY <2>1, <2>3 DEF CitationInv
<1>7. ASSUME NEW m \in Ids, NEW s \in Targets,
             NEW other \in Ids \cup {NoMemory}, TransitionCall(m, s, other)
      PROVE  CitationInv'
  <2>1. s \in Statuses
    BY DEF Statuses, Withdrawn
  <2> QED BY <1>7, <2>1, TransitionKeepsCitations DEF TransitionCall
<1>8. ASSUME NEW p \in Curators, NEW r \in Revisions, GenerateWrite(p, r)
      PROVE  CitationInv'
  <2>1. call[p].cites \in SUBSET (Ids \X Events)
    BY <1>8, CallOf, CallFields DEF GenerateWrite, Processes
  <2>2. \A c \in call[p].cites : Exists(c[1])
    BY <1>8, <2>1 DEF GenerateWrite, CitationInv, SourcesOfRows
  <2>3. /\ revision'[r].cites = {c[1] : c \in call[p].cites}
        /\ \A q \in Revisions : q # r => revision'[q] = revision[q]
        /\ memory' = memory
    BY <1>8 DEF GenerateWrite, TypeOK
  <2>4. CitationsResolve'
    BY <2>2, <2>3 DEF CitationInv, CitationsResolve, Exists
  <2> QED BY <2>3, <2>4 DEF CitationInv, SourcesOfRows, Exists
<1>9. ASSUME NEW p \in Curators, PublishWrite(p) \/ ReviseWrite(p)
      PROVE  CitationInv'
  <2>1. memory' = memory
    BY <1>9 DEF PublishWrite, ReviseWrite
  <2>2. \A r \in Revisions : revision'[r].cites = revision[r].cites
    BY <1>9 DEF PublishWrite, ReviseWrite, TypeOK
  <2> QED BY <2>1, <2>2, CitationsKept DEF Exists
<1> QED BY <1>1, <1>2, <1>3, <1>4, <1>5, <1>6, <1>7, <1>8, <1>9
        DEF Next, vars, EditorStep, EditRead, CorrectRead, CorrectLink,
            ReviewerStep, ReviewRead, ReviewTarget, MaintainerStep, PurgeRead,
            CuratorStep, GenerateRead, ReviseRead, Abandon, Feedback, Age

\* Every citation of a revision leads to a memory that exists.
THEOREM CitationsAlwaysResolve == Spec => []CitationsResolve
<1>1. Init => CitationInv
  BY DEF Init, CitationInv, SourcesOfRows, CitationsResolve, NoRow
<1>2. CitationInv => CitationsResolve
  BY DEF CitationInv
<1> QED BY <1>1, <1>2, CitationStep, TypeCorrect, PTL DEF Spec

-----------------------------------------------------------------------------
(* How calls begin                                                         *)

\* The calls whose guards rest on nothing they have read.
OtherOps == {"correct", "link", "approve", "reject", "replace", "settle",
             "purge", "generate"}

\* A step moves one call at most: it ends it, or it is a read that makes the
\* call an edit or the transition of a revision, or the call is another one.
LEMMA CallMoves ==
  ASSUME TypeOK, [Next]_vars
  PROVE  \/ UNCHANGED call
         \/ \E p \in Processes : End(p)
         \/ \E p \in Processes, c \in Call :
              call' = [call EXCEPT ![p] = c] /\ c.op \in OtherOps
         \/ \E p \in Editors, m \in Ids, s \in Drafts, b \in Bodies,
               es \in SUBSET Events : EditRead(p, m, s, b, es)
         \/ \E p \in Curators, r \in Revisions,
               op \in {"publish", "stale", "refuse"} : ReviseRead(p, r, op)
<1> DEFINE Others(p) == \E c \in Call : /\ call' = [call EXCEPT ![p] = c]
                                        /\ c.op \in OtherOps
<1>t. TypeOK'
  BY TypeStep
<1>c. ASSUME NEW p \in Processes, call'[p].op \in OtherOps, NEW c,
             call' = [call EXCEPT ![p] = c]
      PROVE  Others(p)
  BY <1>t, <1>c DEF TypeOK
<1>1. ASSUME NEW p \in Editors, EditorStep(p)
      PROVE  \/ End(p) \/ Others(p)
             \/ \E m \in Ids, s \in Drafts, b \in Bodies, es \in SUBSET Events :
                  EditRead(p, m, s, b, es)
  <2>1. ASSUME NEW m \in Ids, NEW b \in Bodies, CorrectRead(p, m, b)
        PROVE  Others(p)
    <3>1. [op |-> "correct", target |-> m, body |-> b] \in Call
      BY DEF Call
    <3> QED BY <2>1, <3>1 DEF CorrectRead, Begin, OtherOps
  <2>2. ASSUME NEW n \in Ids, NEW e \in Local, CorrectWrite(p, n, e)
        PROVE  Others(p)
    <3>1. call[p].target \in Ids
      BY <2>2, CallOf, CallFields DEF CorrectWrite, Processes
    <3>2. [op |-> "link", id |-> n, target |-> call[p].target] \in Call
      BY <3>1 DEF Call
    <3> QED BY <2>2, <3>2 DEF CorrectWrite, OtherOps
  <2> QED BY <1>1, <2>1, <2>2 DEF EditorStep, EditWrite, CorrectLink
<1>2. ASSUME NEW p \in Reviewers, ReviewerStep(p)
      PROVE  End(p) \/ Others(p)
  <2>p. p \in Processes /\ call[p] \in Call /\ call'[p] \in Call
    BY <1>t, CallOf DEF Processes, TypeOK
  <2>1. ASSUME NEW m \in Ids, ReviewRead(p, m) PROVE Others(p)
    <3>1. PICK c : c.op \in OtherOps /\ call' = [call EXCEPT ![p] = c]
      <4>1. ASSUME NEW op \in {"approve", "reject"},
                   Begin(p, [op |-> op, id |-> m])
            PROVE  \E c : c.op \in OtherOps /\ call' = [call EXCEPT ![p] = c]
        <5>1. [op |-> op, id |-> m].op \in OtherOps
          BY DEF OtherOps
        <5> QED BY <4>1, <5>1 DEF Begin
      <4>2. ASSUME NEW other, NEW s,
                   Begin(p, [op |-> "replace", id |-> m, target |-> other,
                             status |-> s])
            PROVE  \E c : c.op \in OtherOps /\ call' = [call EXCEPT ![p] = c]
        <5>1. [op |-> "replace", id |-> m, target |-> other,
               status |-> s].op \in OtherOps
          BY DEF OtherOps
        <5> QED BY <4>2, <5>1 DEF Begin
      <4> QED BY <2>1, <4>1, <4>2 DEF ReviewRead
    <3>2. call'[p] = c
      BY <2>p, <3>1 DEF TypeOK
    <3> QED BY <1>c, <2>p, <3>1, <3>2
  <2>2. CASE ReviewTarget(p) \/ ReviewReplace(p)
    <3>1. /\ call[p] = [op |-> "replace", id |-> call[p].id,
                        target |-> call[p].target, status |-> call[p].status]
      BY <2>2, <2>p, CallFields DEF ReviewTarget, ReviewReplace
    <3>2. PICK c : /\ call' = [call EXCEPT ![p] = c]
                   /\ c.op \in {"replace", "settle"}
      <4>1. CASE ReviewTarget(p)
        <5>1. PICK n : call' = [call EXCEPT ![p].target = n]
          BY <4>1 DEF ReviewTarget
        <5>2. [call[p] EXCEPT !.target = n].op = "replace"
          BY <3>1
        <5> QED BY <5>1, <5>2
      <4>2. CASE ReviewReplace(p)
        <5>1. [call[p] EXCEPT !.op = "settle"].op = "settle"
          BY <3>1
        <5> QED BY <4>2, <5>1 DEF ReviewReplace
      <4> QED BY <2>2, <4>1, <4>2
    <3>3. call'[p] = c
      BY <2>p, <3>2 DEF TypeOK
    <3> QED BY <1>c, <2>p, <3>2, <3>3 DEF OtherOps
  <2> QED BY <1>2, <2>1, <2>2
          DEF ReviewerStep, ReviewApprove, ReviewReject, ReviewSettle
<1>3. ASSUME NEW p \in Curators, CuratorStep(p)
      PROVE  \/ End(p) \/ Others(p)
             \/ \E r \in Revisions, op \in {"publish", "stale", "refuse"} :
                  ReviseRead(p, r, op)
  <2>1. ASSUME NEW page \in Pages, NEW ms \in SUBSET Ids,
               GenerateRead(p, page, ms)
        PROVE  Others(p)
    <3> DEFINE cites == {c \in ms \X Events : c[2] \in memory[c[1]].sources}
    <3>1. [op |-> "generate", page |-> page, cites |-> cites] \in Call
      BY DEF Call
    <3> QED BY <2>1, <3>1 DEF GenerateRead, Begin, OtherOps
  <2> QED BY <1>3, <2>1
          DEF CuratorStep, GenerateWrite, PublishWrite, ReviseWrite
<1>4. ASSUME NEW p \in Maintainers, MaintainerStep(p)
      PROVE  End(p) \/ Others(p)
  <2>1. CASE PurgeRead(p)
    <3> DEFINE ids == {m \in aged : memory[m].status \in Terminal}
    <3>1. [op |-> "purge", ids |-> ids] \in Call
      BY DEF Call, TypeOK
    <3> QED BY <2>1, <3>1 DEF PurgeRead, Begin, OtherOps
  <2> QED BY <1>4, <2>1 DEF MaintainerStep, PurgeWrite
<1>5. ASSUME NEW p \in Processes, Abandon(p) PROVE End(p)
  BY <1>5 DEF Abandon
<1>6. ASSUME \/ \E p \in Closers : CloserStep(p)
             \/ \E m, s, other : TransitionCall(m, s, other)
             \/ \E m : Feedback(m) \/ Age(m)
      PROVE  UNCHANGED call
  BY <1>6 DEF CloserStep, Close, TransitionCall, Feedback, Age
<1>7. /\ Editors \subseteq Processes /\ Reviewers \subseteq Processes
      /\ Curators \subseteq Processes /\ Maintainers \subseteq Processes
  BY DEF Processes
<1> HIDE DEF Others
<1>8. \/ UNCHANGED call
      \/ \E p \in Processes : End(p) \/ Others(p)
      \/ \E p \in Editors, m \in Ids, s \in Drafts, b \in Bodies,
            es \in SUBSET Events : EditRead(p, m, s, b, es)
      \/ \E p \in Curators, r \in Revisions,
            op \in {"publish", "stale", "refuse"} : ReviseRead(p, r, op)
  BY <1>1, <1>2, <1>3, <1>4, <1>5, <1>6, <1>7 DEF Next, vars
<1> QED BY <1>8 DEF Others

\* A call that is an edit or the transition of a revision after a step is the
\* one it was, or has just read.
LEMMA CallUnlessMoved ==
  ASSUME TypeOK, NEW p \in Processes, NEW q \in Processes, NEW c,
         call' = [call EXCEPT ![q] = c]
  PROVE  call'[p] = IF p = q THEN c ELSE call[p]
BY DEF TypeOK

LEMMA EditCallFrom ==
  ASSUME TypeOK, [Next]_vars, NEW p \in Processes, call'[p].op = "edit"
  PROVE  \/ call'[p] = call[p]
         \/ \E m \in Ids, s \in Drafts, b \in Bodies, es \in SUBSET Events :
              EditRead(p, m, s, b, es)
<1>1. ASSUME NEW q \in Processes, NEW c, c.op # "edit",
             call' = [call EXCEPT ![q] = c]
      PROVE  call'[p] = call[p]
  BY <1>1, CallUnlessMoved
<1>2. ASSUME NEW q \in Processes, End(q) PROVE call'[p] = call[p]
  BY <1>1, <1>2 DEF End, Idle
<1>3. ASSUME NEW q \in Processes, NEW r, NEW op \in {"publish", "stale", "refuse"},
             ReviseRead(q, r, op)
      PROVE  call'[p] = call[p]
  BY <1>1, <1>3 DEF ReviseRead, Begin
<1>4. ASSUME NEW q \in Processes, NEW m \in Ids, NEW s \in Drafts, NEW b \in Bodies,
             NEW es \in SUBSET Events, EditRead(q, m, s, b, es), q # p
      PROVE  call'[p] = call[p]
  BY <1>4, CallUnlessMoved DEF EditRead, Begin
<1>5. ASSUME NEW q \in Processes, NEW c, c.op \in OtherOps,
             call' = [call EXCEPT ![q] = c]
      PROVE  call'[p] = call[p]
  BY <1>1, <1>5 DEF OtherOps
<1> QED BY <1>2, <1>3, <1>4, <1>5, CallMoves DEF Processes

LEMMA ReviseCallFrom ==
  ASSUME TypeOK, [Next]_vars, NEW p \in Processes,
         call'[p].op \in {"publish", "stale", "refuse"}
  PROVE  \/ call'[p] = call[p]
         \/ \E r \in Revisions, op \in {"publish", "stale", "refuse"} :
              ReviseRead(p, r, op)
BY CallMoves DEF TypeOK, End, Idle, OtherOps, ReviseRead, Begin, EditRead

-----------------------------------------------------------------------------
(* Replacements                                                            *)

\* Clients that withdraw memories in favour of others by reviews and
\* checkpoints alone, and keep all terminal ones: upsert_memory may set any
\* status, memory_transition may leave the replacement out, and a purge takes
\* a replacement's edges along.
WithdrawByReview ==
  /\ Drafts \cap DOMAIN Relation = {}
  /\ Targets \cap DOMAIN Relation = {}
  /\ Maintainers = {}

LEMMA TransitionLinks ==
  ASSUME TypeOK, ReplacementLinked, NEW m \in Ids, NEW s \in Statuses, NEW other,
         Transition(m, s, other),
         s \in DOMAIN Relation => other \in Ids
  PROVE  ReplacementLinked'
<1>1. \A n \in Ids : memory'[n].status = IF n = m THEN s ELSE memory[n].status
  BY DEF Transition, TypeOK, Row
<1>2. edges \subseteq edges'
  BY DEF Transition
<1>3. s \in DOMAIN Relation => <<other, m, Relation[s]>> \in edges'
  BY IdsAssumption DEF Transition
<1> QED BY <1>1, <1>2, <1>3 DEF ReplacementLinked

\* A step that neither brings a memory into such a status nor takes an edge.
LEMMA LinksKept ==
  ASSUME ReplacementLinked, edges \subseteq edges',
         \A m \in Ids : memory'[m].status \in DOMAIN Relation =>
                          memory'[m].status = memory[m].status
  PROVE  ReplacementLinked'
BY DEF ReplacementLinked

\* What upsert_memory is asked to write, and over what.
EditsAsAsked ==
  \A p \in Editors : call[p].op = "edit" =>
    /\ call[p].status \in Drafts
    /\ Present(call[p].seen) => Overwrite

LinkInv == ReplacementLinked /\ EditsAsAsked

LEMMA EditsAskedStep == TypeOK /\ EditsAsAsked /\ [Next]_vars => EditsAsAsked'
<1> SUFFICES ASSUME TypeOK, EditsAsAsked, [Next]_vars,
                    NEW p \in Editors, call'[p].op = "edit"
             PROVE  /\ call'[p].status \in Drafts
                    /\ Present(call'[p].seen) => Overwrite
  BY DEF EditsAsAsked, Present
<1>1. p \in Processes
  BY DEF Processes
<1>2. ASSUME NEW m \in Ids, NEW s \in Drafts, NEW b \in Bodies,
             NEW es \in SUBSET Events, EditRead(p, m, s, b, es)
      PROVE  /\ call'[p].status \in Drafts
             /\ Present(call'[p].seen) => Overwrite
  <2>1. call'[p].status = s /\ call'[p].seen = memory[m]
    BY <1>1, <1>2 DEF EditRead, Begin, TypeOK
  <2> QED BY <1>2, <2>1 DEF EditRead, Present, Statuses, Withdrawn
<1> QED BY <1>1, <1>2, EditCallFrom DEF EditsAsAsked

LEMMA LinkStep ==
  ASSUME WithdrawByReview
  PROVE  TypeOK /\ LinkInv /\ [Next]_vars => LinkInv'
<1> SUFFICES ASSUME TypeOK, LinkInv, [Next]_vars PROVE ReplacementLinked'
  BY EditsAskedStep DEF LinkInv
<1>i. ReplacementLinked /\ EditsAsAsked
  BY DEF LinkInv
<1>1. CASE UNCHANGED <<memory, edges>>
  BY <1>1, <1>i DEF ReplacementLinked
<1>2. ASSUME NEW p \in Editors, EditWrite(p) PROVE ReplacementLinked'
  <2> DEFINE c == call[p]
  <2>1. c.id \in Ids /\ c.status \notin DOMAIN Relation
    BY <1>2, <1>i, CallOf, CallFields
       DEF EditWrite, Processes, EditsAsAsked, WithdrawByReview
  <2>2. /\ memory'[c.id].status = c.status
        /\ \A m \in Ids : m # c.id => memory'[m] = memory[m]
        /\ edges' = edges
    BY <1>2, <2>1 DEF EditWrite, TypeOK
  <2> HIDE DEF c
  <2> QED BY <1>i, <2>1, <2>2, LinksKept
<1>3. ASSUME NEW p \in Editors, NEW n \in Ids, NEW e \in Local,
             CorrectWrite(p, n, e)
      PROVE  ReplacementLinked'
  <2>1. \A m \in Ids : memory'[m].status =
          IF m = n THEN "proposed" ELSE memory[m].status
    BY <1>3 DEF CorrectWrite, TypeOK
  <2> QED BY <1>3, <1>i, <2>1, LinksKept DEF CorrectWrite, Relation
<1>4. ASSUME NEW p \in Reviewers,
             ReviewApprove(p) \/ ReviewReject(p) \/ ReviewReplace(p)
               \/ ReviewSettle(p)
      PROVE  ReplacementLinked'
  <2>1. call[p] \in Call
    BY CallOf DEF Processes
  <2>2. {"active", "rejected", "superseded", "disputed"} \subseteq Statuses
    BY DEF Statuses, Withdrawn
  <2>3. CASE ReviewSettle(p)
    <3>1. /\ call[p].target \in Ids /\ call[p].id \in Ids
          /\ call[p].status \in {"superseded", "disputed"}
      BY <2>1, <2>3, CallFields DEF ReviewSettle
    <3> QED BY <1>i, <2>2, <2>3, <3>1, TransitionLinks DEF ReviewSettle
  <2>4. CASE ReviewApprove(p) \/ ReviewReject(p) \/ ReviewReplace(p)
    <3>1. call[p].id \in Ids
      BY <2>1, <2>4, CallFields
         DEF ReviewApprove, ReviewReject, ReviewReplace
    <3>2. "active" \notin DOMAIN Relation /\ "rejected" \notin DOMAIN Relation
      BY DEF Relation
    <3> QED BY <1>i, <2>2, <2>4, <3>1, <3>2, TransitionLinks
            DEF ReviewApprove, ReviewReject, ReviewReplace
  <2> QED BY <1>4, <2>3, <2>4
<1>5. ASSUME NEW p \in Closers, CloserStep(p) PROVE ReplacementLinked'
  <2>1. PICK n \in Ids, b \in Bodies, es \in SUBSET Local,
             previous \in Ids \cup {NoMemory} : Close(n, b, es, previous)
    BY <1>5 DEF CloserStep
  <2>2. /\ edges \subseteq edges'
        /\ previous \in Ids => <<n, previous, "supersedes">> \in edges'
        /\ \A m \in Ids : memory'[m].status =
             IF m = n THEN "active" ELSE IF m = previous THEN "superseded"
             ELSE memory[m].status
    BY <2>1, IdsAssumption DEF Close, TypeOK, Row
  <2> QED BY <1>i, <2>2 DEF ReplacementLinked, Relation
<1>6. ASSUME NEW m \in Ids, NEW s \in Targets,
             NEW other \in Ids \cup {NoMemory}, TransitionCall(m, s, other)
      PROVE  ReplacementLinked'
  <2>1. s \in Statuses /\ s \notin DOMAIN Relation
    BY DEF Statuses, Withdrawn, WithdrawByReview
  <2> QED BY <1>6, <1>i, <2>1, TransitionLinks DEF TransitionCall
<1>7. ASSUME NEW p \in Curators, CuratorStep(p) PROVE UNCHANGED <<memory, edges>>
  BY <1>7 DEF CuratorStep, GenerateRead, GenerateWrite, ReviseRead,
              PublishWrite, ReviseWrite
<1> QED BY <1>1, <1>2, <1>3, <1>4, <1>5, <1>6, <1>7
        DEF Next, vars, EditorStep, EditRead, CorrectRead, CorrectLink,
            ReviewerStep, ReviewRead, ReviewTarget, WithdrawByReview,
            Abandon, Feedback, Age

\* A memory that gave way in a review or to a newer handoff has the edge of
\* the memory it gave way to, in every state, for any number of reviewers that
\* race and may die between the two transactions of a review.
THEOREM ReplacementsAreLinked ==
  ASSUME WithdrawByReview PROVE Spec => []ReplacementLinked
<1>1. Init => LinkInv
  BY DEF Init, LinkInv, ReplacementLinked, EditsAsAsked, NoRow, Relation, Idle,
         Processes
<1>2. TypeOK /\ LinkInv /\ [Next]_vars => LinkInv'
  BY LinkStep
<1>3. LinkInv => ReplacementLinked
  BY DEF LinkInv
<1> QED BY <1>1, <1>2, <1>3, TypeCorrect, PTL DEF Spec

-----------------------------------------------------------------------------
(* The revisions of a step                                                 *)

\* What the transition of a revision has read is still so when it is written:
\* of one curator alone, since others only make published revisions stale.
ReviseReadsHold ==
  \A p \in Curators :
    /\ call[p].op \in {"publish", "refuse"} =>
         revision[call[p].revision].status = "proposed"
    /\ call[p].op = "stale" =>
         revision[call[p].revision].status \in {"published", "stale"}

LEMMA ReviseReadsStep ==
  ASSUME \A p, q \in Curators : p = q
  PROVE  TypeOK /\ ReviseReadsHold /\ [Next]_vars => ReviseReadsHold'
<1> SUFFICES ASSUME TypeOK, ReviseReadsHold, [Next]_vars, NEW p \in Curators,
                    call'[p].op \in {"publish", "stale", "refuse"}
             PROVE  /\ call'[p].op \in {"publish", "refuse"} =>
                         revision'[call'[p].revision].status = "proposed"
                    /\ call'[p].op = "stale" =>
                         revision'[call'[p].revision].status
                           \in {"published", "stale"}
  BY DEF ReviseReadsHold
<1>p. p \in Processes /\ call'[p] \in Call
  BY TypeStep DEF Processes, TypeOK
<1>1. ASSUME NEW r \in Revisions, NEW op \in {"publish", "stale", "refuse"},
             ReviseRead(p, r, op)
      PROVE  /\ call'[p].op = op /\ call'[p].revision = r
             /\ revision' = revision /\ op \in Allowed(revision[r].status)
  BY <1>1, <1>p DEF ReviseRead, Begin, TypeOK
<1>2. ASSUME NEW r \in Revisions, NEW op \in Allowed(revision[r].status)
      PROVE  /\ op \in {"publish", "refuse"} => revision[r].status = "proposed"
             /\ op = "stale" => revision[r].status = "published"
  BY <1>2 DEF Allowed
<1>3. CASE call'[p] = call[p]
  <2> DEFINE r == call[p].revision
  <2>1. r \in Revisions
    BY <1>3, <1>p, CallOf, CallFields
  <2>2. ASSUME NEW q \in Curators PROVE ~PublishWrite(q) /\ ~ReviseWrite(q)
    BY <1>3, <1>p DEF PublishWrite, ReviseWrite, End, Idle, TypeOK
  <2>3. revision'[r] = revision[r] \/ OnlyStaled
    <3>1. ASSUME NEW q \in Curators, NEW n \in Revisions, GenerateWrite(q, n)
          PROVE  revision'[r] = revision[r]
      <4>1. q \in Processes /\ p = q
        BY DEF Processes
      <4>2. call'[p] = Idle
        BY <3>1, <4>1, <1>p DEF GenerateWrite, End, TypeOK
      <4> QED BY <4>2 DEF Idle
    <3> QED BY <3>1, <2>2, RevisionMoves
  <2>4. \/ revision'[r].status = revision[r].status
        \/ /\ revision[r].status = "published"
           /\ revision'[r].status = "stale"
    BY <2>1, <2>3 DEF OnlyStaled, TypeOK
  <2> HIDE DEF r
  <2>5. /\ call[p].op \in {"publish", "refuse"} => revision[r].status = "proposed"
        /\ call[p].op = "stale" => revision[r].status \in {"published", "stale"}
    BY DEF r, ReviseReadsHold
  <2>6. /\ call[p].op \in {"publish", "refuse"} => revision'[r].status = "proposed"
        /\ call[p].op = "stale" => revision'[r].status \in {"published", "stale"}
    BY <2>4, <2>5
  <2>7. call'[p].op = call[p].op /\ call'[p].revision = r
    BY <1>3 DEF r
  <2> QED BY <2>6, <2>7
<1>4. ASSUME NEW r \in Revisions, NEW op \in {"publish", "stale", "refuse"},
             ReviseRead(p, r, op)
      PROVE  /\ call'[p].op \in {"publish", "refuse"} =>
                  revision'[call'[p].revision].status = "proposed"
             /\ call'[p].op = "stale" =>
                  revision'[call'[p].revision].status \in {"published", "stale"}
  BY <1>1, <1>2, <1>4
<1> QED BY <1>3, <1>4, <1>p, ReviseCallFrom

RevisionsMove ==
  \A r \in Revisions :
    <<revision[r].status, revision'[r].status>> \in
      {<<s, s>> : s \in RevisionStatuses} \cup
      {<<"none", "proposed">>, <<"proposed", "published">>,
       <<"proposed", "rejected">>, <<"published", "stale">>}

\* With one curator, whoever else stales revisions meanwhile, a revision moves
\* forward only.  (Two make the race of the run revision_race.)
THEOREM RevisionsOnlyMoveForward ==
  ASSUME \A p, q \in Curators : p = q
  PROVE  Spec => RevisionsMoveForward
<1>1. Init => ReviseReadsHold
  BY DEF Init, ReviseReadsHold, Idle, Processes
<1>2. TypeOK /\ ReviseReadsHold /\ [Next]_vars => ReviseReadsHold'
  BY ReviseReadsStep
<1>3. TypeOK /\ ReviseReadsHold /\ [Next]_vars => [RevisionsMove]_vars
  <2> SUFFICES ASSUME TypeOK, ReviseReadsHold, [Next]_vars,
                      NEW r \in Revisions
               PROVE  <<revision[r].status, revision'[r].status>> \in
                        {<<s, s>> : s \in RevisionStatuses} \cup
                        {<<"none", "proposed">>, <<"proposed", "published">>,
                         <<"proposed", "rejected">>, <<"published", "stale">>}
    BY DEF RevisionsMove
  <2>t. revision[r].status \in RevisionStatuses
    BY DEF TypeOK
  <2>1. ASSUME NEW p \in Curators, NEW n \in Revisions, GenerateWrite(p, n)
        PROVE  \/ revision'[r].status = revision[r].status
               \/ revision[r].status = "none" /\ revision'[r].status = "proposed"
    BY <2>1 DEF GenerateWrite, TypeOK
  <2>2. ASSUME NEW p \in Curators, PublishWrite(p)
        PROVE  \/ revision'[r].status = revision[r].status
               \/ /\ revision[r].status = "proposed"
                  /\ revision'[r].status = "published"
               \/ /\ revision[r].status = "published"
                  /\ revision'[r].status = "stale"
    BY <2>2 DEF PublishWrite, ReviseReadsHold, TypeOK
  <2>3. ASSUME NEW p \in Curators, ReviseWrite(p)
        PROVE  \/ revision'[r].status = revision[r].status
               \/ /\ revision[r].status = "proposed"
                  /\ revision'[r].status = "rejected"
               \/ /\ revision[r].status = "published"
                  /\ revision'[r].status = "stale"
    BY <2>3 DEF ReviseWrite, ReviseReadsHold, TypeOK
  <2>4. \/ revision'[r].status = revision[r].status
        \/ revision[r].status = "none" /\ revision'[r].status = "proposed"
        \/ revision[r].status = "proposed" /\ revision'[r].status = "published"
        \/ revision[r].status = "proposed" /\ revision'[r].status = "rejected"
        \/ revision[r].status = "published" /\ revision'[r].status = "stale"
    BY <2>1, <2>2, <2>3, RevisionMoves DEF OnlyStaled
  <2> QED BY <2>t, <2>4
<1>4. Spec => [][RevisionsMove]_vars
  BY <1>1, <1>2, <1>3, TypeCorrect, PTL DEF Spec
<1> QED BY <1>4 DEF RevisionsMove, RevisionsMoveForward

-----------------------------------------------------------------------------
(* Published revisions and what they cite                                  *)

\* What upsert_memory has read of a memory is still so when it writes, but for
\* the status, or the memory is gone: of one editor alone, since nobody else
\* writes the texts of a memory there is, or of editors that only insert.
EditReadsHold ==
  \A p \in Editors :
    call[p].op = "edit" /\ Present(call[p].seen) =>
      \/ memory[call[p].id].status = "purged"
      \/ /\ Present(memory[call[p].id])
         /\ memory[call[p].id].body = call[p].seen.body

\* A step that keeps the texts of the memories it does not delete, and brings
\* no deleted one back.
TextsKept ==
  \A m \in Ids : memory[m].status # "unborn" =>
    \/ memory'[m].status = "purged"
    \/ /\ Present(memory[m]) /\ Present(memory'[m])
       /\ memory'[m].body = memory[m].body

LEMMA TextsMoves ==
  ASSUME TypeOK, [Next]_vars
  PROVE  TextsKept \/ \E p \in Editors : EditWrite(p)
<1>1. ASSUME UNCHANGED memory PROVE TextsKept
  BY <1>1 DEF TextsKept, TypeOK, Row, Present
<1>2. ASSUME NEW m \in Ids, NEW s \in Statuses, NEW other,
             Transition(m, s, other)
      PROVE  TextsKept
  <2>1. \A n \in Ids : memory'[n].body = memory[n].body
    BY <1>2 DEF Transition, TypeOK, Row
  <2>2. \A n \in Ids : /\ Present(memory[n]) => Present(memory'[n])
                       /\ ~Present(memory[n]) => memory'[n] = memory[n]
    BY <1>2, TransitionKeepsRows DEF Exists
  <2> QED BY <2>1, <2>2 DEF TextsKept, TypeOK, Row, Present
<1>3. ASSUME NEW p \in Reviewers, ReviewerStep(p) PROVE TextsKept
  <2>1. call[p] \in Call
    BY CallOf DEF Processes
  <2>2. {"active", "rejected", "superseded", "disputed"} \subseteq Statuses
    BY DEF Statuses, Withdrawn
  <2>3. CASE ReviewSettle(p)
    BY <1>2, <2>1, <2>2, <2>3, CallFields DEF ReviewSettle
  <2>4. CASE ReviewApprove(p) \/ ReviewReject(p) \/ ReviewReplace(p)
    <3>1. call[p].id \in Ids
      BY <2>1, <2>4, CallFields DEF ReviewApprove, ReviewReject, ReviewReplace
    <3> QED BY <1>2, <2>2, <2>4, <3>1
            DEF ReviewApprove, ReviewReject, ReviewReplace
  <2> QED BY <1>1, <1>3, <2>3, <2>4 DEF ReviewerStep, ReviewRead, ReviewTarget
<1>4. ASSUME NEW m \in Ids, NEW s \in Targets, NEW other, TransitionCall(m, s, other)
      PROVE  TextsKept
  <2>1. s \in Statuses
    BY DEF Statuses, Withdrawn
  <2> QED BY <1>2, <1>4, <2>1 DEF TransitionCall
<1>5. ASSUME NEW p \in Editors, NEW n \in Ids, NEW e \in Local,
             CorrectWrite(p, n, e)
      PROVE  TextsKept
  <2>1. /\ memory[n].status = "unborn"
        /\ \A m \in Ids : m # n => memory'[m] = memory[m]
    BY <1>5 DEF CorrectWrite, TypeOK
  <2> QED BY <2>1 DEF TextsKept, TypeOK, Row, Present
<1>6. ASSUME NEW p \in Closers, CloserStep(p) PROVE TextsKept
  <2>1. PICK n \in Ids, b \in Bodies, es \in SUBSET Local,
             previous \in Ids \cup {NoMemory} : Close(n, b, es, previous)
    BY <1>6 DEF CloserStep
  <2>2. memory[n].status = "unborn"
    BY <2>1 DEF Close
  <2>3. \A m \in Ids : m # n =>
          \/ memory'[m] = memory[m]
          \/ /\ memory'[m].body = memory[m].body
             /\ memory[m].status = "active" /\ memory'[m].status = "superseded"
    BY <2>1 DEF Close, TypeOK, Row
  <2> QED BY <2>2, <2>3
          DEF TextsKept, TypeOK, Row, Present, Statuses, Withdrawn
<1>7. ASSUME NEW p \in Maintainers, MaintainerStep(p) PROVE TextsKept
  <2>1. CASE PurgeWrite(p)
    <3>1. \A m \in Ids : memory'[m] = memory[m] \/ memory'[m].status = "purged"
      BY <2>1 DEF PurgeWrite, NoRow
    <3> QED BY <3>1 DEF TextsKept, TypeOK, Row, Present
  <2> QED BY <1>1, <1>7, <2>1 DEF MaintainerStep, PurgeRead
<1>8. ASSUME NEW p \in Curators, CuratorStep(p) PROVE UNCHANGED memory
  BY <1>8 DEF CuratorStep, GenerateRead, GenerateWrite, ReviseRead,
              PublishWrite, ReviseWrite
<1> QED BY <1>1, <1>3, <1>4, <1>5, <1>6, <1>7, <1>8
        DEF Next, vars, EditorStep, EditRead, CorrectRead, CorrectLink,
            Abandon, Feedback, Age

LEMMA EditReadsStep ==
  ASSUME Overwrite => \A p, q \in Editors : p = q
  PROVE  TypeOK /\ EditsAsAsked /\ EditReadsHold /\ [Next]_vars => EditReadsHold'
<1> SUFFICES ASSUME TypeOK, EditsAsAsked, EditReadsHold, [Next]_vars, NEW p \in Editors,
                    call'[p].op = "edit", Present(call'[p].seen)
             PROVE  \/ memory'[call'[p].id].status = "purged"
                    \/ /\ Present(memory'[call'[p].id])
                       /\ memory'[call'[p].id].body = call'[p].seen.body
  BY DEF EditReadsHold, Present
<1>p. p \in Processes /\ call'[p] \in Call
  BY TypeStep DEF Processes, TypeOK
<1>1. ASSUME NEW m \in Ids, NEW s \in Drafts, NEW b \in Bodies,
             NEW es \in SUBSET Events, EditRead(p, m, s, b, es)
      PROVE  /\ Present(memory'[call'[p].id])
             /\ memory'[call'[p].id].body = call'[p].seen.body
  <2>1. /\ call'[p].id = m /\ call'[p].seen = memory[m]
        /\ memory' = memory
    BY <1>1, <1>p DEF EditRead, Begin, TypeOK
  <2> QED BY <2>1
<1>2. CASE call'[p] = call[p]
  <2> DEFINE m == call[p].id
  <2>1. m \in Ids /\ call[p].op = "edit" /\ Present(call[p].seen)
    BY <1>2, <1>p, CallFields
  <2>2. \/ memory[m].status = "purged"
        \/ Present(memory[m]) /\ memory[m].body = call[p].seen.body
    BY <2>1 DEF EditReadsHold
  <2>3. ASSUME NEW q \in Editors, EditWrite(q) PROVE FALSE
    <3>1. p = q
      BY <2>1 DEF EditsAsAsked
    <3>2. call'[p] = Idle
      BY <2>3, <1>p, <3>1 DEF EditWrite, End, TypeOK
    <3> QED BY <3>2, <2>1, <1>2 DEF Idle
  <2>4. TextsKept
    BY <2>3, TextsMoves
  <2>5. "purged" \notin Statuses /\ "unborn" \notin Statuses
    BY DEF Statuses, Withdrawn
  <2>6. \/ memory'[m].status = "purged"
        \/ Present(memory'[m]) /\ memory'[m].body = call[p].seen.body
    <3> HIDE DEF m
    <3> QED BY <2>1, <2>2, <2>4, <2>5 DEF TextsKept, Present
  <2> QED BY <1>2, <2>6
<1> QED BY <1>1, <1>2, <1>p, EditCallFrom

\* Clients that withdraw by memory_transition and reviews: upsert_memory is
\* asked for no such status, and no handoff is replaced, since neither stales
\* what cites the memory once it has changed meanwhile, or at all; and there is
\* one editor, if existing memories are edited.
WithdrawByTransition ==
  /\ Overwrite => \A p, q \in Editors : p = q
  /\ Drafts \cap Withdrawn = {}
  /\ Closers = {}

WithdrawalStales ==
  \A r \in Revisions : \A m \in revision[r].cites :
    /\ revision[r].status = "published"
    /\ revision'[r].status = "published"
    => /\ memory'[m].body = memory[m].body
       /\ memory'[m].status \in Withdrawn => memory'[m].status = memory[m].status

\* Staling leaves no citation of the memory published.
LEMMA StaledCitesNot ==
  ASSUME TypeOK, NEW m, NEW r \in Revisions, m \in revision[r].cites,
         revision[r].status = "published", revision' = Staled(m)
  PROVE  revision'[r].status # "published"
BY DEF Staled, TypeOK

LEMMA WithdrawalStep ==
  ASSUME WithdrawByTransition
  PROVE  TypeOK /\ CitationInv /\ EditsAsAsked /\ EditReadsHold /\ [Next]_vars
           => WithdrawalStales
<1> SUFFICES ASSUME TypeOK, CitationInv, EditsAsAsked, EditReadsHold, [Next]_vars,
                    NEW r \in Revisions, NEW m \in revision[r].cites,
                    revision[r].status = "published",
                    revision'[r].status = "published"
             PROVE  /\ memory'[m].body = memory[m].body
                    /\ memory'[m].status \in Withdrawn =>
                         memory'[m].status = memory[m].status
  BY DEF WithdrawalStales
<1> DEFINE Goal == /\ memory'[m].body = memory[m].body
                   /\ memory'[m].status \in Withdrawn =>
                        memory'[m].status = memory[m].status
<1>m. m \in Ids /\ Exists(m)
  BY DEF TypeOK, CitationInv, CitationsResolve
<1>1. CASE UNCHANGED memory
  BY <1>1
<1>2. ASSUME NEW n \in Ids, NEW s \in Statuses, NEW other, Transition(n, s, other)
      PROVE  Goal
  <2>1. /\ memory'[m].body = memory[m].body
        /\ memory'[m].status = IF m = n THEN s ELSE memory[m].status
    BY <1>2, <1>m DEF Transition, TypeOK, Row
  <2>2. m = n => s \notin Withdrawn
    BY <1>2, StaledCitesNot DEF Transition
  <2> QED BY <2>1, <2>2
<1>3. ASSUME NEW p \in Editors, EditWrite(p) PROVE Goal
  <2> DEFINE c == call[p]
  <2>1. c.id \in Ids /\ c.status \notin Withdrawn /\ c.op = "edit"
    BY <1>3, CallOf, CallFields
       DEF EditWrite, Processes, EditsAsAsked, WithdrawByTransition
  <2>2. /\ memory'[c.id].status = c.status /\ memory'[c.id].body = c.body
        /\ \A n \in Ids : n # c.id => memory'[n] = memory[n]
    BY <1>3, <2>1 DEF EditWrite, TypeOK
  <2>3. ASSUME m = c.id PROVE memory[m].body = c.body
    <3>1. Present(c.seen)
      BY <1>3, <1>m, <2>3 DEF EditWrite
    <3>2. memory[m].body = c.seen.body
      BY <1>m, <2>1, <2>3, <3>1
         DEF EditReadsHold, Exists, Present, Statuses, Withdrawn
    <3>3. ~Material(c)
      BY <1>3, <2>3, <3>1, StaledCitesNot DEF EditWrite
    <3> QED BY <3>2, <3>3 DEF Material
  <2> HIDE DEF c
  <2> QED BY <1>m, <2>1, <2>2, <2>3
<1>4. ASSUME NEW p \in Editors, NEW n \in Ids, NEW e \in Local,
             CorrectWrite(p, n, e)
      PROVE  Goal
  <2>1. m # n
    BY <1>4, <1>m DEF CorrectWrite, Exists, Present, Statuses, Withdrawn
  <2> QED BY <1>4, <1>m, <2>1 DEF CorrectWrite, TypeOK
<1>5. ASSUME NEW p \in Reviewers, ReviewerStep(p) PROVE Goal
  <2>1. call[p] \in Call
    BY CallOf DEF Processes
  <2>2. {"active", "rejected", "superseded", "disputed"} \subseteq Statuses
    BY DEF Statuses, Withdrawn
  <2>3. CASE ReviewSettle(p)
    BY <1>2, <2>1, <2>2, <2>3, CallFields DEF ReviewSettle
  <2>4. CASE ReviewApprove(p) \/ ReviewReject(p) \/ ReviewReplace(p)
    <3>1. call[p].id \in Ids
      BY <2>1, <2>4, CallFields DEF ReviewApprove, ReviewReject, ReviewReplace
    <3> QED BY <1>2, <2>2, <2>4, <3>1
            DEF ReviewApprove, ReviewReject, ReviewReplace
  <2> QED BY <1>1, <1>5, <2>3, <2>4 DEF ReviewerStep, ReviewRead, ReviewTarget
<1>6. ASSUME NEW p \in Maintainers, MaintainerStep(p) PROVE Goal
  <2>1. CASE PurgeWrite(p)
    BY <1>m, <2>1 DEF PurgeWrite, Cited
  <2> QED BY <1>1, <1>6, <2>1 DEF MaintainerStep, PurgeRead
<1>7. ASSUME NEW n \in Ids, NEW s \in Targets, NEW other, TransitionCall(n, s, other)
      PROVE  Goal
  <2>1. s \in Statuses
    BY DEF Statuses, Withdrawn
  <2> QED BY <1>2, <1>7, <2>1 DEF TransitionCall
<1>8. ASSUME NEW p \in Curators, CuratorStep(p) PROVE UNCHANGED memory
  BY <1>8 DEF CuratorStep, GenerateRead, GenerateWrite, ReviseRead,
              PublishWrite, ReviseWrite
<1> QED BY <1>1, <1>3, <1>4, <1>5, <1>6, <1>7, <1>8
        DEF Next, vars, EditorStep, EditRead, CorrectRead, CorrectLink,
            WithdrawByTransition, Abandon, Feedback, Age

\* No revision stays published over a step that changes the text of a memory
\* it cites or withdraws it, although upsert_memory decides what to stale from
\* a row it read before.
THEOREM WithdrawalsStaleTheWiki ==
  ASSUME WithdrawByTransition PROVE Spec => WithdrawalStalesWiki
<1>1. Init => CitationInv /\ EditsAsAsked /\ EditReadsHold
  BY DEF Init, CitationInv, SourcesOfRows, CitationsResolve, NoRow, EditsAsAsked,
         EditReadsHold, Idle, Processes
<1>2. TypeOK /\ EditsAsAsked /\ EditReadsHold /\ [Next]_vars => EditReadsHold'
  BY EditReadsStep DEF WithdrawByTransition
<1>3. TypeOK /\ CitationInv /\ EditsAsAsked /\ EditReadsHold /\ [Next]_vars
        => [WithdrawalStales]_vars
  BY WithdrawalStep
<1>4. Spec => [][WithdrawalStales]_vars
  BY <1>1, <1>2, <1>3, CitationStep, EditsAskedStep, TypeCorrect, PTL DEF Spec
<1> QED BY <1>4 DEF WithdrawalStales, WithdrawalStalesWiki
=============================================================================
