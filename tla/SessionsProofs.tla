---------------------------- MODULE SessionsProofs ----------------------------
(***************************************************************************)
(* Proofs about Sessions, for any number of processes, sessions and events.*)
(***************************************************************************)
EXTENDS Sessions, TLAPS

-----------------------------------------------------------------------------
(* Types                                                                   *)

Keys == [name : {"state"} \cup SessionIds \cup ClientKeys, goal : Goals \cup {NoGoal},
         covers : SUBSET Nat]

RequestSet == [mode : {"interim", "final"}, session : SessionIds, goal : Goals,
               usage : Usages \cup {NoUsage}, previous : Nat \cup {NoEvent}]

States == [goal : Goals, covers : SUBSET Nat]

\* A recovery state never covers more than its cursor.
Within(state, upto) == \A k \in state.covers : k <= upto

Entries ==
  [kind : {"decision", "output"}, session : SessionIds]
  \cup {e \in [kind : {"checkpoint"}, session : SessionIds, usage : Usages \cup {NoUsage},
               upto : Nat, state : States] : Within(e.state, e.upto)}

Evaluations ==
  [op : {"evaluate"}, session : SessionIds, goal : Goals]
  \cup [op : {"weigh"}, session : SessionIds, goal : Goals, latest : Nat \cup {NoEvent}]
  \cup [op : {"decide"}, session : SessionIds, goal : Goals, latest : Nat \cup {NoEvent},
        cursor : Nat]

Creations ==
  [op : {"lookup", "check", "cursor"}, hook : BOOLEAN, key : Keys, request : RequestSet]
  \cup {w \in [op : {"commit"}, hook : BOOLEAN, key : Keys, request : RequestSet, upto : Nat,
               state : States] : Within(w.state, w.upto)}

Endings ==
  [op : {"end"}, session : SessionIds]
  \cup [op : {"extract"}, session : SessionIds, after : Nat]
  \cup [op : {"propose"}, session : SessionIds, event : Nat]

Works == {Resting} \cup Evaluations \cup Creations \cup Endings

SessionType ==
  /\ session \in [SessionIds -> {"none", "open", "ended"}]
  /\ log \in Seq(Entries)
  /\ work \in [Agents -> Works]

\* What a process has read of the log is still there.
ReadsInLog ==
  \A p \in Agents :
    /\ work[p].op \in {"weigh", "decide"} => work[p].latest \in Checkpoints \cup {NoEvent}
    /\ work[p].op = "decide" => work[p].cursor <= LogEnd

QuietInLog ==
  /\ \A q \in quiet : q.latest \in Checkpoints /\ q.cursor \in Nat /\ q.cursor <= LogEnd
  /\ QuietMeansCovered

\* Handoffs are events of the log or the older memory.
HandoffsInLog ==
  /\ DOMAIN handoff \subseteq 0..LogEnd
  /\ replaced \subseteq (DOMAIN handoff) \X (DOMAIN handoff)
  /\ HandoffReplacedOnce

SessionInv ==
  SessionType /\ ReadsInLog /\ QuietInLog /\ HandoffsInLog /\ OneCandidatePerEvent

LEMMA WorkFields ==
  ASSUME NEW w \in Works
  PROVE  /\ w.op \in {"evaluate", "weigh", "decide"} => w.session \in SessionIds /\ w.goal \in Goals
         /\ w.op \in {"weigh", "decide"} => w.latest \in Nat \cup {NoEvent}
         /\ w.op = "decide" => w.cursor \in Nat
         /\ w.op \in {"lookup", "check", "cursor"} =>
              w \in [op : {"lookup", "check", "cursor"}, hook : BOOLEAN, key : Keys,
                     request : RequestSet]
         /\ w.op \in {"lookup", "check", "cursor", "commit"} =>
              w.hook \in BOOLEAN /\ w.key \in Keys /\ w.request \in RequestSet
         /\ w.op = "commit" => w.upto \in Nat /\ w.state \in States /\ Within(w.state, w.upto)
         /\ w.op \in {"end", "extract", "propose"} => w.session \in SessionIds
         /\ w.op = "extract" => w.after \in Nat
         /\ w.op = "propose" => w.event \in Nat
<1>1. CASE w = Resting     BY <1>1 DEF Resting
<1>2. CASE w \in Evaluations BY <1>2 DEF Evaluations
<1>3. CASE w \in Creations BY <1>3 DEF Creations
<1>4. CASE w \in Endings   BY <1>4 DEF Endings
<1> QED BY <1>1, <1>2, <1>3, <1>4 DEF Works

LEMMA WorkOf == ASSUME SessionType, NEW p \in Agents PROVE work[p] \in Works
BY DEF SessionType

\* A process goes on to a call of its type and the others stay.
LEMMA WorkSet ==
  ASSUME SessionType, NEW p \in Agents, NEW w \in Works, work' = [work EXCEPT ![p] = w]
  PROVE  /\ work' \in [Agents -> Works] /\ work'[p] = w
         /\ \A q \in Agents : q # p => work'[q] = work[q]
BY DEF SessionType

\* Calls that have read nothing of the log.
LEMMA ReadsKept ==
  ASSUME SessionInv, NEW p \in Agents, NEW w \in Works, w.op \notin {"weigh", "decide"},
         work' = [work EXCEPT ![p] = w], UNCHANGED log
  PROVE  ReadsInLog'
<1>1. /\ work'[p] = w /\ \A q \in Agents : q # p => work'[q] = work[q]
  BY WorkSet DEF SessionInv
<1>2. UNCHANGED <<Checkpoints, LogEnd>>
  BY DEF Checkpoints, Numbers, LogEnd
<1>3. ASSUME NEW q \in Agents
      PROVE  /\ work'[q].op \in {"weigh", "decide"} =>
                  work'[q].latest \in Checkpoints \cup {NoEvent}
             /\ work'[q].op = "decide" => work'[q].cursor <= LogEnd
  <2>1. CASE q = p
    BY <2>1, <1>1
  <2>2. CASE q # p
    BY <2>2, <1>1 DEF SessionInv, ReadsInLog
  <2> QED BY <2>1, <2>2
<1> QED BY <1>2, <1>3 DEF ReadsInLog

\* An event is appended: nothing that was read of the log is lost.
LEMMA LogGrows ==
  ASSUME SessionInv, NEW e \in Entries, log' = Append(log, e)
  PROVE  /\ log' \in Seq(Entries) /\ LogEnd' = LogEnd + 1 /\ LogEnd \in Nat
         /\ \A n \in 1..LogEnd : log'[n] = log[n]
         /\ Checkpoints \subseteq Checkpoints'
         /\ Checkpoints \subseteq 1..LogEnd
<1>1. /\ log' \in Seq(Entries) /\ LogEnd' = LogEnd + 1 /\ LogEnd \in Nat
      /\ \A n \in 1..LogEnd : log'[n] = log[n]
  BY DEF SessionInv, SessionType, LogEnd
<1> QED BY <1>1 DEF Checkpoints, Numbers, LogEnd

LEMMA QuietKept ==
  ASSUME SessionInv, NEW e \in Entries, log' = Append(log, e), UNCHANGED quiet
  PROVE  QuietInLog'
<1>1. /\ LogEnd' = LogEnd + 1 /\ LogEnd \in Nat
      /\ \A n \in 1..LogEnd : log'[n] = log[n]
      /\ Checkpoints \subseteq Checkpoints' /\ Checkpoints \subseteq 1..LogEnd
  BY LogGrows
<1>2. ASSUME NEW q \in quiet
      PROVE  /\ q.latest \in Checkpoints' /\ q.cursor \in Nat /\ q.cursor <= LogEnd'
             /\ q.latest # NoEvent /\ log'[q.latest].state.goal = q.goal
             /\ \A n \in 1..q.cursor : Durable(log'[n]) => n <= log'[q.latest].upto
  <2>1. /\ q.latest \in Checkpoints /\ q.cursor \in Nat /\ q.cursor <= LogEnd
        /\ q.latest # NoEvent /\ log[q.latest].state.goal = q.goal
        /\ \A n \in 1..q.cursor : Durable(log[n]) => n <= log[q.latest].upto
    BY DEF SessionInv, QuietInLog, QuietMeansCovered
  <2>2. log'[q.latest] = log[q.latest]
    BY <1>1, <2>1
  <2>3. ASSUME NEW n \in 1..q.cursor PROVE log'[n] = log[n]
    <3>1. n \in Nat /\ 1 <= n /\ n <= LogEnd
      BY <1>1, <2>1
    <3>2. n \in 1..LogEnd
      BY <3>1, <1>1
    <3> QED BY <3>2, <1>1
  <2>4. \A n \in 1..q.cursor : Durable(log'[n]) => n <= log'[q.latest].upto
    BY <2>1, <2>2, <2>3
  <2>5. q.cursor <= LogEnd'
    BY <1>1, <2>1
  <2> QED BY <1>1, <2>1, <2>2, <2>4, <2>5
<1> QED BY <1>2 DEF QuietInLog, QuietMeansCovered, Durable

LEMMA ReadsKeptAppending ==
  ASSUME SessionInv, NEW e \in Entries, log' = Append(log, e),
         \A q \in Agents : work'[q] = work[q] \/ work'[q].op \notin {"weigh", "decide"}
  PROVE  ReadsInLog'
<1>1. /\ LogEnd' = LogEnd + 1 /\ LogEnd \in Nat /\ Checkpoints \subseteq Checkpoints'
  BY LogGrows
<1>2. ASSUME NEW q \in Agents
      PROVE  /\ work'[q].op \in {"weigh", "decide"} =>
                  work'[q].latest \in Checkpoints' \cup {NoEvent}
             /\ work'[q].op = "decide" => work'[q].cursor <= LogEnd'
  <2>1. CASE work'[q] = work[q]
    <3>1. work[q].op = "decide" => work[q].cursor \in Nat
      BY WorkOf, WorkFields DEF SessionInv
    <3> QED BY <2>1, <3>1, <1>1 DEF SessionInv, ReadsInLog
  <2>2. CASE work'[q].op \notin {"weigh", "decide"}
    BY <2>2
  <2> QED BY <2>1, <2>2
<1> QED BY <1>2 DEF ReadsInLog

LEMMA HandoffsKept ==
  ASSUME SessionInv, UNCHANGED <<handoff, replaced>>,
         UNCHANGED log \/ \E e \in Entries : log' = Append(log, e)
  PROVE  HandoffsInLog'
<1>1. LogEnd \in Nat /\ LogEnd' \in Nat /\ LogEnd <= LogEnd'
  <2>1. LogEnd \in Nat
    BY DEF SessionInv, SessionType, LogEnd
  <2>2. CASE UNCHANGED log
    BY <2>1, <2>2 DEF LogEnd
  <2>3. CASE \E e \in Entries : log' = Append(log, e)
    BY <2>1, <2>3, LogGrows
  <2> QED BY <2>2, <2>3
<1>2. \A n \in 0..LogEnd : n \in 0..LogEnd'
  BY <1>1
<1> QED BY <1>2 DEF SessionInv, HandoffsInLog, HandoffReplacedOnce

\* A call goes on or ends and reads nothing of the log.
LEMMA CallMoves ==
  ASSUME SessionInv, NEW p \in Agents, NEW w \in Works, w.op \notin {"weigh", "decide"},
         work' = [work EXCEPT ![p] = w],
         session' \in [SessionIds -> {"none", "open", "ended"}],
         UNCHANGED <<log, handoff, replaced, candidates, quiet>>
  PROVE  SessionInv'
<1>1. SessionType'
  BY WorkSet DEF SessionInv, SessionType
<1>2. ReadsInLog'
  BY ReadsKept
<1>3. QuietInLog'
  BY DEF SessionInv, QuietInLog, QuietMeansCovered, Checkpoints, Numbers, LogEnd, Durable
<1>4. HandoffsInLog' /\ OneCandidatePerEvent'
  BY HandoffsKept DEF SessionInv, OneCandidatePerEvent
<1> QED BY <1>1, <1>2, <1>3, <1>4 DEF SessionInv

LEMMA RestingWork == Resting \in Works /\ Resting.op \notin {"weigh", "decide"}
BY DEF Works, Resting

LEMMA AfterwardsWork ==
  ASSUME SessionInv, NEW p \in Agents, work[p].op \in {"lookup", "commit"}
  PROVE  Afterwards(p) \in Works /\ Afterwards(p).op \notin {"weigh", "decide"}
<1>1. work[p].request \in RequestSet
  BY WorkOf, WorkFields DEF SessionInv
<1>2. work[p].request.session \in SessionIds
  BY <1>1 DEF RequestSet
<1>3. [op |-> "end", session |-> work[p].request.session] \in Works
  BY <1>2 DEF Works, Endings
<1> QED BY <1>3, RestingWork DEF Afterwards

LEMMA EndedType ==
  ASSUME SessionType, NEW x \in SessionIds
  PROVE  Ended(x) \in [SessionIds -> {"none", "open", "ended"}]
BY DEF SessionType, Ended

LEMMA SessionStart == SessionInit => SessionInv
<1> SUFFICES ASSUME SessionInit PROVE SessionInv
  OBVIOUS
<1>1. SessionType
  BY RestingWork DEF SessionInit, SessionType
<1>2. ReadsInLog
  BY DEF SessionInit, ReadsInLog, Resting
<1>3. QuietInLog /\ OneCandidatePerEvent
  BY DEF SessionInit, QuietInLog, QuietMeansCovered, OneCandidatePerEvent
<1>4. HandoffsInLog
  <2>1. LogEnd = 0
    BY DEF SessionInit, LogEnd
  <2> QED BY <2>1 DEF SessionInit, HandoffsInLog, HandoffReplacedOnce
<1> QED BY <1>1, <1>2, <1>3, <1>4 DEF SessionInv

-----------------------------------------------------------------------------
(* The steps                                                               *)

LEMMA StartSessionKeeps ==
  ASSUME SessionInv, NEW x \in SessionIds, StartSession(x) PROVE SessionInv'
<1>1. SessionType'
  BY DEF StartSession, SessionInv, SessionType
<1>2. ReadsInLog' /\ QuietInLog'
  BY DEF StartSession, SessionInv, ReadsInLog, QuietInLog, QuietMeansCovered, Checkpoints,
         Numbers, LogEnd, Durable
<1>3. HandoffsInLog' /\ OneCandidatePerEvent'
  BY HandoffsKept DEF StartSession, SessionInv, OneCandidatePerEvent
<1> QED BY <1>1, <1>2, <1>3 DEF SessionInv

LEMMA RecordDecisionKeeps ==
  ASSUME SessionInv, NEW x \in SessionIds, RecordDecision(x) PROVE SessionInv'
<1> DEFINE e == [kind |-> "decision", session |-> x]
<1>1. e \in Entries
  BY DEF Entries
<1>2. log' = Append(log, e) /\ UNCHANGED <<session, handoff, replaced, candidates, quiet, work>>
  BY DEF RecordDecision
<1> HIDE DEF e
<1>3. SessionType'
  BY <1>1, <1>2, LogGrows DEF SessionInv, SessionType
<1>4. ReadsInLog' /\ QuietInLog' /\ HandoffsInLog'
  BY <1>1, <1>2, ReadsKeptAppending, QuietKept, HandoffsKept
<1>5. OneCandidatePerEvent'
  BY <1>2 DEF SessionInv, OneCandidatePerEvent
<1> QED BY <1>3, <1>4, <1>5 DEF SessionInv

\* What the hook and a client start with.
LEMMA FirstWork ==
  ASSUME NEW hook \in BOOLEAN, NEW name \in SessionIds \cup ClientKeys, NEW x \in SessionIds,
         NEW goal \in Goals, NEW previous \in Nat \cup {NoEvent}
  PROVE  /\ [op |-> "lookup", hook |-> hook, key |-> NamedKey(name),
             request |-> [mode |-> "final", session |-> x, goal |-> goal,
                          usage |-> NoUsage, previous |-> previous]] \in Works
         /\ [op |-> "evaluate", session |-> x, goal |-> goal] \in Works
<1>1. NamedKey(name) \in Keys
  BY DEF NamedKey, Key, Keys
<1>2. [mode |-> "final", session |-> x, goal |-> goal, usage |-> NoUsage, previous |-> previous]
        \in RequestSet
  BY DEF RequestSet
<1>3. [op |-> "evaluate", session |-> x, goal |-> goal] \in Works
  BY DEF Works, Evaluations
<1> QED BY <1>1, <1>2, <1>3 DEF Works, Creations

LEMMA PreviousNumber ==
  ASSUME SessionInv, NEW previous \in Handoffs PROVE previous \in Nat \cup {NoEvent}
<1>1. LogEnd \in Nat
  BY DEF SessionInv, SessionType, LogEnd
<1> QED BY <1>1 DEF SessionInv, HandoffsInLog, Handoffs

LEMMA HookEndKeeps ==
  ASSUME SessionInv, NEW p \in Agents, NEW x \in SessionIds, NEW goal \in Goals,
         NEW mode \in HookModes, NEW previous \in Handoffs, HookEnd(p, x, goal, mode, previous)
  PROVE  SessionInv'
<1>1. PICK w \in Works : /\ work' = [work EXCEPT ![p] = w]
                         /\ w.op \notin {"weigh", "decide"}
  <2>1. CASE mode = "final"
    <3> DEFINE w == [op |-> "lookup", hook |-> TRUE, key |-> NamedKey(x),
                     request |-> [mode |-> "final", session |-> x, goal |-> goal,
                                  usage |-> NoUsage, previous |-> previous]]
    <3>1. w \in Works
      BY FirstWork, PreviousNumber
    <3>2. work' = [work EXCEPT ![p] = w]
      BY <2>1 DEF HookEnd, Start
    <3>3. w.op \notin {"weigh", "decide"}
      OBVIOUS
    <3> HIDE DEF w
    <3> QED BY <3>1, <3>2, <3>3
  <2>2. CASE mode # "final"
    BY <2>2, FirstWork, PreviousNumber DEF HookEnd, Start
  <2> QED BY <2>1, <2>2
<1>2. UNCHANGED <<session, handoff, replaced, candidates, quiet>>
  BY DEF HookEnd
<1>3. session' \in [SessionIds -> {"none", "open", "ended"}]
  BY <1>2 DEF SessionInv, SessionType
<1>4. CASE log' = log
  BY <1>1, <1>2, <1>3, <1>4, CallMoves
<1>5. CASE log' # log
  <2> DEFINE e == [kind |-> "output", session |-> x]
  <2>1. e \in Entries
    BY DEF Entries
  <2>2. log' = Append(log, e)
    BY <1>5 DEF HookEnd
  <2> HIDE DEF e
  <2>3. SessionType'
    BY <1>1, <1>3, <2>1, <2>2, LogGrows, WorkSet DEF SessionInv, SessionType
  <2>4. \A q \in Agents : work'[q] = work[q] \/ work'[q].op \notin {"weigh", "decide"}
    BY <1>1, WorkSet DEF SessionInv
  <2>5. ReadsInLog' /\ QuietInLog' /\ HandoffsInLog'
    BY <1>2, <2>1, <2>2, <2>4, ReadsKeptAppending, QuietKept, HandoffsKept
  <2>6. OneCandidatePerEvent'
    BY <1>2 DEF SessionInv, OneCandidatePerEvent
  <2> QED BY <2>3, <2>5, <2>6 DEF SessionInv
<1> QED BY <1>4, <1>5

LEMMA ClientFinalKeeps ==
  ASSUME SessionInv, NEW p \in Agents, NEW x \in SessionIds, NEW key \in ClientKeys,
         NEW goal \in Goals, NEW previous \in Handoffs, ClientFinal(p, x, key, goal, previous)
  PROVE  SessionInv'
<1> DEFINE w == [op |-> "lookup", hook |-> FALSE, key |-> NamedKey(key),
                 request |-> [mode |-> "final", session |-> x, goal |-> goal,
                              usage |-> NoUsage, previous |-> previous]]
<1>1. w \in Works /\ w.op \notin {"weigh", "decide"}
  <2>1. w \in Works
    BY FirstWork, PreviousNumber
  <2> QED BY <2>1
<1>3. work' = [work EXCEPT ![p] = w] /\ UNCHANGED <<log, handoff, replaced, candidates, quiet>>
  BY DEF ClientFinal, Start
<1>2. session' \in [SessionIds -> {"none", "open", "ended"}]
  BY DEF ClientFinal, SessionInv, SessionType
<1> HIDE DEF w
<1> QED BY <1>1, <1>2, <1>3, CallMoves

LEMMA EndTxKeeps ==
  ASSUME SessionInv, NEW p \in Agents, EndTx(p) PROVE SessionInv'
<1> DEFINE w == [op |-> "extract", session |-> work[p].session, after |-> 0]
<1>1. work[p].session \in SessionIds
  BY WorkOf, WorkFields DEF EndTx, SessionInv
<1>2. w \in Works /\ w.op \notin {"weigh", "decide"}
  BY <1>1 DEF Works, Endings
<1>3. /\ work' = [work EXCEPT ![p] = w] /\ session' = Ended(work[p].session)
      /\ UNCHANGED <<log, handoff, replaced, candidates, quiet>>
  BY DEF EndTx, Continue
<1> HIDE DEF w
<1> QED BY <1>1, <1>2, <1>3, EndedType, CallMoves DEF SessionInv

LEMMA DieKeeps == ASSUME SessionInv, NEW p \in Agents, Die(p) PROVE SessionInv'
<1>1. /\ work' = [work EXCEPT ![p] = Resting]
      /\ UNCHANGED <<session, log, handoff, replaced, candidates, quiet>>
  BY DEF Die, Leave, Continue
<1>2. session' \in [SessionIds -> {"none", "open", "ended"}]
  BY <1>1 DEF SessionInv, SessionType
<1> QED BY <1>1, <1>2, RestingWork, CallMoves

\* The latest checkpoint and the cursor are those of the log as it is.
LEMMA EvaluateReadKeeps ==
  ASSUME SessionInv, NEW p \in Agents, EvaluateReadLatest(p) \/ EvaluateReadCursor(p)
  PROVE  SessionInv'
<1>1. UNCHANGED <<session, log, handoff, replaced, candidates, quiet>>
  BY DEF EvaluateReadLatest, EvaluateReadCursor
<1>2. work[p].session \in SessionIds /\ work[p].goal \in Goals
  BY WorkOf, WorkFields DEF EvaluateReadLatest, EvaluateReadCursor, SessionInv
<1>3. LogEnd \in Nat /\ Checkpoints \subseteq Nat
  BY DEF SessionInv, SessionType, LogEnd, Checkpoints, Numbers
<1>4. PICK w \in Works :
        /\ work' = [work EXCEPT ![p] = w]
        /\ w.op \in {"weigh", "decide"} => w.latest \in Checkpoints \cup {NoEvent}
        /\ w.op = "decide" => w.cursor <= LogEnd
  <2>1. CASE EvaluateReadLatest(p)
    <3>1. PICK latest \in LatestCheckpoints :
            work' = [work EXCEPT ![p] = [op |-> "weigh", session |-> work[p].session,
                                         goal |-> work[p].goal, latest |-> latest]]
      BY <2>1 DEF EvaluateReadLatest, Continue
    <3>2. latest \in Checkpoints \cup {NoEvent}
      BY DEF LatestCheckpoints
    <3> DEFINE w == [op |-> "weigh", session |-> work[p].session,
                     goal |-> work[p].goal, latest |-> latest]
    <3>3. w \in Works /\ w.op = "weigh" /\ w.latest = latest
      BY <1>2, <1>3, <3>2 DEF Works, Evaluations
    <3> HIDE DEF w
    <3>4. work' = [work EXCEPT ![p] = w]
      BY <3>1 DEF w
    <3> QED BY <3>2, <3>3, <3>4
  <2>2. CASE EvaluateReadCursor(p)
    <3> DEFINE w == [op |-> "decide", session |-> work[p].session,
                     goal |-> work[p].goal, latest |-> work[p].latest, cursor |-> LogEnd]
    <3>1. work[p].latest \in Checkpoints \cup {NoEvent}
      BY <2>2 DEF EvaluateReadCursor, SessionInv, ReadsInLog
    <3>2. w \in Works /\ w.op = "decide" /\ w.latest = work[p].latest /\ w.cursor = LogEnd
      BY <1>2, <1>3, <3>1 DEF Works, Evaluations
    <3>3. work' = [work EXCEPT ![p] = w]
      BY <2>2 DEF EvaluateReadCursor, Continue
    <3> HIDE DEF w
    <3>4. w.cursor <= LogEnd /\ w.latest \in Checkpoints \cup {NoEvent}
      BY <1>3, <3>1, <3>2
    <3> QED BY <3>2, <3>3, <3>4
  <2> QED BY <2>1, <2>2
<1>5. SessionType'
  BY <1>1, <1>4, WorkSet DEF SessionInv, SessionType
<1>6. ReadsInLog'
  <2>1. ASSUME NEW q \in Agents
        PROVE  /\ work'[q].op \in {"weigh", "decide"} =>
                    work'[q].latest \in Checkpoints \cup {NoEvent}
               /\ work'[q].op = "decide" => work'[q].cursor <= LogEnd
    <3>1. CASE q = p
      BY <3>1, <1>4, WorkSet DEF SessionInv
    <3>2. CASE q # p
      <4>1. work'[q] = work[q]
        BY <3>2, <1>4, WorkSet DEF SessionInv
      <4> QED BY <4>1 DEF SessionInv, ReadsInLog
    <3> QED BY <3>1, <3>2
  <2> QED BY <2>1, <1>1 DEF ReadsInLog, Checkpoints, Numbers, LogEnd
<1>7. QuietInLog'
  BY <1>1 DEF SessionInv, QuietInLog, QuietMeansCovered, Checkpoints, Numbers, LogEnd, Durable
<1>8. HandoffsInLog' /\ OneCandidatePerEvent'
  BY <1>1, HandoffsKept DEF SessionInv, OneCandidatePerEvent
<1> QED BY <1>5, <1>6, <1>7, <1>8 DEF SessionInv

LEMMA UnchangedIsNotChanged ==
  ASSUME NEW usage, NEW changed \in BOOLEAN, NEW age, NEW prior,
         Suppression(usage, changed, age, prior) = "unchanged"
  PROVE  ~changed
<1> SUFFICES ASSUME changed PROVE FALSE
  OBVIOUS
<1> DEFINE near == usage < (IF prior + 1 > 10 THEN 10 ELSE prior + 1)
           steady == age # "young" /\ usage # NoUsage /\ usage < 9 /\ prior # NoUsage /\ near
<1>1. CASE age = "young"
  BY <1>1 DEF Suppression
<1>2. CASE age # "young" /\ steady
  BY <1>2 DEF Suppression
<1>3. CASE age # "young" /\ ~steady
  BY <1>3 DEF Suppression
<1> QED BY <1>1, <1>2, <1>3

\* An evaluation that answers "unchanged" compared the recovery state of its
\* cursor with that of the checkpoint, which is within the checkpoint's own.
LEMMA EvaluateDecideKeeps ==
  ASSUME SessionInv, NEW p \in Agents, NEW usage \in Usages \cup {NoUsage},
         NEW repository \in BOOLEAN, NEW many \in BOOLEAN, NEW elapsed \in BOOLEAN,
         NEW age, NEW force \in BOOLEAN,
         EvaluateDecide(p, usage, repository, many, elapsed, age, force)
  PROVE  SessionInv'
<1> DEFINE w == work[p]
           state == RecoveryState(w.goal, w.cursor)
           changed == w.latest = NoEvent \/ log[w.latest].state # state
           q == [goal |-> w.goal, latest |-> w.latest, cursor |-> w.cursor]
<1>1. /\ w.op = "decide" /\ w.session \in SessionIds /\ w.goal \in Goals /\ w.cursor \in Nat
      /\ w.latest \in Checkpoints \cup {NoEvent} /\ w.cursor <= LogEnd
  BY WorkOf, WorkFields DEF EvaluateDecide, SessionInv, ReadsInLog
<1>2. UNCHANGED <<session, log, handoff, replaced, candidates>>
  BY DEF EvaluateDecide
<1>3. state.goal = w.goal /\ state.covers = {n \in Numbers : n <= w.cursor /\ Durable(log[n])}
      /\ state \in States
  BY <1>1 DEF RecoveryState, States, Numbers
<1>4. PICK v \in Works : work' = [work EXCEPT ![p] = v] /\ v.op \notin {"weigh", "decide"}
  <2> DEFINE look == [op |-> "lookup", hook |-> TRUE,
                      key |-> Key("state", state.goal, state.covers),
                      request |-> [mode |-> "interim", session |-> w.session, goal |-> w.goal,
                                   usage |-> usage, previous |-> NoEvent]]
             stop == [op |-> "end", session |-> w.session]
  <2>1. look \in Works /\ stop \in Works
    <3>1. Key("state", state.goal, state.covers) \in Keys
      <4>1. state.goal \in Goals /\ state.covers \in SUBSET Nat
        BY <1>3 DEF States
      <4> HIDE DEF state
      <4> QED BY <4>1 DEF Key, Keys
    <3>2. [mode |-> "interim", session |-> w.session, goal |-> w.goal, usage |-> usage,
           previous |-> NoEvent] \in RequestSet
      BY <1>1 DEF RequestSet
    <3>3. look \in Works
      <4> HIDE DEF state, w
      <4> QED BY <3>1, <3>2 DEF Works, Creations
    <3>4. stop \in Works
      BY <1>1 DEF Works, Endings
    <3> QED BY <3>3, <3>4
  <2>2. work' = [work EXCEPT ![p] = look] \/ work' = [work EXCEPT ![p] = stop]
    BY DEF EvaluateDecide, Continue
  <2>3. look.op \notin {"weigh", "decide"} /\ stop.op \notin {"weigh", "decide"}
    OBVIOUS
  <2> HIDE DEF look, stop
  <2> QED BY <2>1, <2>2, <2>3
<1>5. SessionType'
  BY <1>2, <1>4, WorkSet DEF SessionInv, SessionType
<1>6. ReadsInLog'
  BY <1>2, <1>4, ReadsKept
<1>7. ASSUME quiet' # quiet
      PROVE  /\ quiet' = quiet \cup {q}
             /\ q.latest \in Checkpoints /\ q.cursor \in Nat /\ q.cursor <= LogEnd
             /\ q.latest # NoEvent /\ log[q.latest].state.goal = q.goal
             /\ \A n \in 1..q.cursor : Durable(log[n]) => n <= log[q.latest].upto
  <2>1. /\ quiet' = quiet \cup {q}
        /\ Suppression(usage, changed, age,
                       IF w.latest = NoEvent THEN NoUsage ELSE log[w.latest].usage) = "unchanged"
    BY <1>7 DEF EvaluateDecide
  <2>2. changed \in BOOLEAN
    OBVIOUS
  <2>3. ~changed
    <3> HIDE DEF changed
    <3> QED BY <2>1, <2>2, UnchangedIsNotChanged
  <2>4. w.latest # NoEvent /\ w.latest \in Checkpoints /\ log[w.latest].state = state
    BY <1>1, <2>3
  <2>5. log[w.latest] \in Entries /\ log[w.latest].kind = "checkpoint"
    BY <2>4 DEF Checkpoints, Numbers, SessionInv, SessionType
  <2>6. Within(log[w.latest].state, log[w.latest].upto)
    BY <2>5 DEF Entries
  <2>7. ASSUME NEW n \in 1..w.cursor, Durable(log[n]) PROVE n <= log[w.latest].upto
    <3>1. n \in Numbers /\ n <= w.cursor
      <4>1. LogEnd \in Nat /\ n \in Nat /\ 1 <= n /\ n <= w.cursor
        BY <1>1, <2>7 DEF SessionInv, SessionType, LogEnd
      <4>2. n <= LogEnd
        BY <4>1, <1>1
      <4> QED BY <4>1, <4>2 DEF Numbers, LogEnd
    <3>2. n \in state.covers
      BY <3>1, <2>7, <1>3
    <3> QED BY <3>2, <2>4, <2>6 DEF Within
  <2> QED BY <1>1, <1>3, <2>1, <2>4, <2>7
<1>8. QuietInLog'
  <2>1. ASSUME NEW r \in quiet'
        PROVE  /\ r.latest \in Checkpoints /\ r.cursor \in Nat /\ r.cursor <= LogEnd
               /\ r.latest # NoEvent /\ log[r.latest].state.goal = r.goal
               /\ \A n \in 1..r.cursor : Durable(log[n]) => n <= log[r.latest].upto
    <3>1. CASE r \in quiet
      BY <3>1 DEF SessionInv, QuietInLog, QuietMeansCovered
    <3>2. CASE r \notin quiet
      <4>1. quiet' # quiet /\ r = q
        <5>1. quiet' # quiet
          BY <3>2
        <5> HIDE DEF q
        <5> QED BY <5>1, <1>7, <3>2
      <4> HIDE DEF q
      <4> QED BY <4>1, <1>7
    <3> QED BY <3>1, <3>2
  <2> QED BY <2>1, <1>2
          DEF QuietInLog, QuietMeansCovered, Checkpoints, Numbers, LogEnd, Durable
<1>9. HandoffsInLog' /\ OneCandidatePerEvent'
  BY <1>2, HandoffsKept DEF SessionInv, OneCandidatePerEvent
<1> QED BY <1>5, <1>6, <1>8, <1>9 DEF SessionInv

LEMMA CheckpointLookupKeeps ==
  ASSUME SessionInv, NEW p \in Agents, CheckpointLookup(p) \/ CheckpointReadSession(p)
  PROVE  SessionInv'
<1>1. /\ UNCHANGED <<session, log, handoff, replaced, candidates, quiet>>
      /\ session' \in [SessionIds -> {"none", "open", "ended"}]
  BY DEF CheckpointLookup, CheckpointReadSession, SessionInv, SessionType
<1>2. work[p].op \in {"lookup", "check"}
  BY DEF CheckpointLookup, CheckpointReadSession
<1>3. work[p] \in [op : {"lookup", "check", "cursor"}, hook : BOOLEAN, key : Keys,
                   request : RequestSet]
  BY <1>2, WorkOf, WorkFields DEF SessionInv
<1>4. ASSUME NEW op \in {"check", "cursor"}
      PROVE  /\ [work[p] EXCEPT !.op = op] \in Works
             /\ [work[p] EXCEPT !.op = op].op \notin {"weigh", "decide"}
  BY <1>3 DEF Works, Creations
<1>5. \/ work' = [work EXCEPT ![p] = [work[p] EXCEPT !.op = "check"]]
      \/ work' = [work EXCEPT ![p] = [work[p] EXCEPT !.op = "cursor"]]
      \/ work[p].op = "lookup" /\ work' = [work EXCEPT ![p] = Afterwards(p)]
      \/ work' = [work EXCEPT ![p] = Resting]
  <2>1. CASE CheckpointLookup(p)
    <3>1. CASE KeyRows(work[p].key) = {}
      BY <2>1, <3>1 DEF CheckpointLookup, Continue
    <3>2. CASE KeyRows(work[p].key) # {}
               /\ \E row \in KeyRows(work[p].key) : row.request = work[p].request
      BY <2>1, <3>2 DEF CheckpointLookup, Continue
    <3>3. CASE KeyRows(work[p].key) # {}
               /\ ~\E row \in KeyRows(work[p].key) : row.request = work[p].request
      BY <2>1, <3>3 DEF CheckpointLookup, Continue, Leave
    <3> QED BY <3>1, <3>2, <3>3
  <2>2. CASE CheckpointReadSession(p)
    BY <2>2 DEF CheckpointReadSession, Continue, Leave
  <2> QED BY <2>1, <2>2
<1>6. PICK w \in Works : work' = [work EXCEPT ![p] = w] /\ w.op \notin {"weigh", "decide"}
  BY <1>4, <1>5, AfterwardsWork, RestingWork
<1> QED BY <1>1, <1>6, CallMoves

LEMMA CheckpointReadCursorKeeps ==
  ASSUME SessionInv, NEW p \in Agents, NEW upto \in 0..MaxLog, CheckpointReadCursor(p, upto)
  PROVE  SessionInv'
<1> DEFINE state == RecoveryState(work[p].request.goal, upto)
           w == [op |-> "commit", hook |-> work[p].hook, key |-> work[p].key,
                 request |-> work[p].request, upto |-> upto, state |-> state]
<1>1. work[p].hook \in BOOLEAN /\ work[p].key \in Keys /\ work[p].request \in RequestSet
  BY WorkOf, WorkFields DEF CheckpointReadCursor, SessionInv
<1>2. upto \in Nat
  BY SessionsAssumption
<1>3. state \in States /\ Within(state, upto)
  BY <1>1, <1>2 DEF RecoveryState, States, Within, Numbers, RequestSet
<1>4. w \in Works /\ w.op \notin {"weigh", "decide"}
  <2> HIDE DEF state
  <2> QED BY <1>1, <1>2, <1>3 DEF Works, Creations
<1>5. /\ work' = [work EXCEPT ![p] = w]
      /\ UNCHANGED <<session, log, handoff, replaced, candidates, quiet>>
      /\ session' \in [SessionIds -> {"none", "open", "ended"}]
  BY DEF CheckpointReadCursor, Continue, SessionInv, SessionType
<1> HIDE DEF w
<1> QED BY <1>4, <1>5, CallMoves

\* The handoff of a final checkpoint takes the place of one that is active,
\* which nothing replaced so far, and is itself a new event.
LEMMA CheckpointTxKeeps ==
  ASSUME SessionInv, NEW p \in Agents, CheckpointTx(p)
  PROVE  SessionInv'
<1> DEFINE w == work[p]
           n == LogEnd + 1
           r == w.request
           e == [kind |-> "checkpoint", session |-> r.session, usage |-> r.usage,
                 upto |-> w.upto, state |-> w.state]
<1>1. /\ w.op = "commit" /\ r \in RequestSet /\ w.upto \in Nat /\ w.state \in States
      /\ Within(w.state, w.upto)
  BY WorkOf, WorkFields DEF CheckpointTx, SessionInv
<1>2. e \in Entries
  BY <1>1 DEF Entries, RequestSet
<1>3. /\ log' = Append(log, e) /\ work' = [work EXCEPT ![p] = Afterwards(p)]
      /\ UNCHANGED <<candidates, quiet>>
  BY DEF CheckpointTx, Continue
<1>4. Afterwards(p) \in Works /\ Afterwards(p).op \notin {"weigh", "decide"}
  BY <1>1, AfterwardsWork
<1>5. session' \in [SessionIds -> {"none", "open", "ended"}]
  <2>1. r.session \in SessionIds
    BY <1>1 DEF RequestSet
  <2>2. Ended(r.session) \in [SessionIds -> {"none", "open", "ended"}]
    BY <2>1, EndedType DEF SessionInv
  <2>3. session' = Ended(r.session) \/ session' = session
    BY DEF CheckpointTx
  <2> QED BY <2>2, <2>3 DEF SessionInv, SessionType
<1>6. /\ log' \in Seq(Entries) /\ LogEnd' = LogEnd + 1 /\ LogEnd \in Nat
  <2> HIDE DEF e
  <2> QED BY <1>2, <1>3, LogGrows
<1>7. SessionType'
  BY <1>3, <1>4, <1>5, <1>6, WorkSet DEF SessionInv, SessionType
<1>8. ReadsInLog' /\ QuietInLog'
  <2>1. \A q \in Agents : work'[q] = work[q] \/ work'[q].op \notin {"weigh", "decide"}
    BY <1>3, <1>4, WorkSet DEF SessionInv
  <2> HIDE DEF e
  <2> QED BY <2>1, <1>2, <1>3, ReadsKeptAppending, QuietKept
<1>9. HandoffsInLog'
  <2>1. CASE r.mode # "final"
    <3>1. UNCHANGED <<handoff, replaced>>
      BY <2>1 DEF CheckpointTx
    <3> HIDE DEF e
    <3> QED BY <3>1, <1>2, <1>3, HandoffsKept
  <2>2. CASE r.mode = "final"
    <3>1. /\ MayReplace(r.previous)
          /\ handoff' = [m \in DOMAIN handoff \cup {n} |->
                           IF m = n THEN "active"
                           ELSE IF m = r.previous THEN "superseded" ELSE handoff[m]]
          /\ replaced' = replaced \cup (IF r.previous = NoEvent THEN {} ELSE {<<n, r.previous>>})
      BY <2>2 DEF CheckpointTx
    <3>2. /\ DOMAIN handoff \subseteq 0..LogEnd
          /\ replaced \subseteq (DOMAIN handoff) \X (DOMAIN handoff)
          /\ \A a, b \in replaced : a[2] = b[2] => a = b
          /\ \A m \in DOMAIN handoff :
               handoff[m] = "active" <=> ~\E x \in replaced : x[2] = m
      BY DEF SessionInv, HandoffsInLog, HandoffReplacedOnce
    <3>3. n \notin DOMAIN handoff /\ NoEvent \notin Nat /\ DOMAIN handoff \subseteq Nat /\ n \in Nat
      BY <1>6, <3>2, SessionsAssumption
    <3>4. DOMAIN handoff' = DOMAIN handoff \cup {n}
      BY <3>1
    <3>5. DOMAIN handoff' \subseteq 0..LogEnd'
      BY <1>6, <3>2, <3>4
    <3>6. CASE r.previous = NoEvent
      <4>1. replaced' = replaced
        BY <3>1, <3>6
      <4>2. \A m \in DOMAIN handoff : handoff'[m] = handoff[m]
        BY <3>1, <3>3, <3>6
      <4>3. handoff'[n] = "active" /\ ~\E x \in replaced : x[2] = n
        BY <3>1, <3>2, <3>3
      <4>4. replaced' \subseteq (DOMAIN handoff') \X (DOMAIN handoff')
        BY <4>1, <3>2, <3>4
      <4>5. HandoffReplacedOnce'
        BY <4>1, <4>2, <4>3, <3>2, <3>4 DEF HandoffReplacedOnce
      <4> QED BY <4>4, <4>5, <3>5 DEF HandoffsInLog
    <3>7. CASE r.previous # NoEvent
      <4>1. r.previous \in DOMAIN handoff /\ handoff[r.previous] = "active"
        BY <3>1, <3>7 DEF MayReplace
      <4>2. \A x \in replaced : x[2] # r.previous
        BY <4>1, <3>2
      <4>3. replaced' = replaced \cup {<<n, r.previous>>}
        BY <3>1, <3>7
      <4>4. /\ \A m \in DOMAIN handoff : m # r.previous => handoff'[m] = handoff[m]
            /\ handoff'[r.previous] = "superseded" /\ handoff'[n] = "active"
        BY <3>1, <3>3, <4>1
      <4>5. replaced' \subseteq (DOMAIN handoff') \X (DOMAIN handoff')
        BY <4>1, <4>3, <3>2, <3>4
      <4>6. \A a, b \in replaced' : a[2] = b[2] => a = b
        BY <4>2, <4>3, <3>2
      <4>7. ASSUME NEW m \in DOMAIN handoff'
            PROVE  handoff'[m] = "active" <=> ~\E x \in replaced' : x[2] = m
        <5>1. CASE m = n
          <6>1. \A x \in replaced' : x[2] # n
            BY <3>2, <3>3, <4>1, <4>3
          <6> QED BY <5>1, <6>1, <4>4
        <5>2. CASE m = r.previous
          <6>1. <<n, r.previous>> \in replaced' /\ <<n, r.previous>>[2] = m
            BY <4>3, <5>2
          <6> QED BY <5>2, <6>1, <4>4
        <5>3. CASE m # n /\ m # r.previous
          <6>1. m \in DOMAIN handoff /\ handoff'[m] = handoff[m]
            BY <5>3, <4>7, <3>4, <4>4
          <6>2. (\E x \in replaced' : x[2] = m) <=> (\E x \in replaced : x[2] = m)
            BY <5>3, <4>3
          <6> QED BY <6>1, <6>2, <3>2
        <5> QED BY <5>1, <5>2, <5>3
      <4> QED BY <4>5, <4>6, <4>7, <3>5 DEF HandoffsInLog, HandoffReplacedOnce
    <3> QED BY <3>6, <3>7
  <2> QED BY <2>1, <2>2
<1>10. OneCandidatePerEvent'
  BY <1>3 DEF SessionInv, OneCandidatePerEvent
<1> QED BY <1>7, <1>8, <1>9, <1>10 DEF SessionInv

LEMMA CheckpointRepeatKeeps ==
  ASSUME SessionInv, NEW p \in Agents, CheckpointRepeat(p) PROVE SessionInv'
<1>1. /\ UNCHANGED <<session, log, handoff, replaced, candidates, quiet>>
      /\ session' \in [SessionIds -> {"none", "open", "ended"}]
      /\ work[p].op = "commit"
      /\ \/ work' = [work EXCEPT ![p] = Afterwards(p)]
         \/ work' = [work EXCEPT ![p] = Resting]
  BY DEF CheckpointRepeat, Continue, Leave, SessionInv, SessionType
<1>2. PICK w \in Works : work' = [work EXCEPT ![p] = w] /\ w.op \notin {"weigh", "decide"}
  BY <1>1, AfterwardsWork, RestingWork
<1> QED BY <1>1, <1>2, CallMoves

LEMMA ExtractReadKeeps ==
  ASSUME SessionInv, NEW p \in Agents, NEW n \in 1..MaxLog, ExtractRead(p, n)
  PROVE  SessionInv'
<1>1. /\ UNCHANGED <<session, log, handoff, replaced, candidates, quiet>>
      /\ session' \in [SessionIds -> {"none", "open", "ended"}]
      /\ work[p].op = "extract"
  BY DEF ExtractRead, SessionInv, SessionType
<1>2. /\ work[p] \in [op : {"extract"}, session : SessionIds, after : Nat]
      /\ n \in Nat
  <2>1. work[p] \in Works
    BY WorkOf DEF SessionInv
  <2> QED BY <2>1, <1>1, SessionsAssumption DEF Works, Resting, Evaluations, Creations, Endings
<1>3. PICK w \in Works : work' = [work EXCEPT ![p] = w] /\ w.op \notin {"weigh", "decide"}
  <2> DEFINE skip == [work[p] EXCEPT !.after = n]
             propose == [op |-> "propose", session |-> work[p].session, event |-> n]
  <2>1. work' = [work EXCEPT ![p] = skip] \/ work' = [work EXCEPT ![p] = propose]
    BY DEF ExtractRead, Continue
  <2>2. skip \in Works /\ propose \in Works
    BY <1>2 DEF Works, Endings
  <2>3. skip.op \notin {"weigh", "decide"} /\ propose.op \notin {"weigh", "decide"}
    BY <1>2
  <2> HIDE DEF skip, propose
  <2> QED BY <2>1, <2>2, <2>3
<1> QED BY <1>1, <1>3, CallMoves

\* The key of the event lets a second candidate find the first.
LEMMA ExtractWriteKeeps ==
  ASSUME SessionInv, NEW p \in Agents, ExtractWrite(p) PROVE SessionInv'
<1> DEFINE w == [op |-> "extract", session |-> work[p].session, after |-> work[p].event]
<1>1. work[p].session \in SessionIds /\ work[p].event \in Nat
  BY WorkOf, WorkFields DEF ExtractWrite, SessionInv
<1>2. w \in Works /\ w.op \notin {"weigh", "decide"}
  BY <1>1 DEF Works, Endings
<1>3. /\ work' = [work EXCEPT ![p] = w] /\ candidates' = Proposed(work[p].event)
      /\ UNCHANGED <<session, log, handoff, replaced, quiet>>
  BY DEF ExtractWrite, Continue
<1> HIDE DEF w
<1>4. SessionType'
  BY <1>2, <1>3, WorkSet DEF SessionInv, SessionType
<1>5. ReadsInLog' /\ QuietInLog' /\ HandoffsInLog'
  <2>1. QuietInLog'
    BY <1>3 DEF SessionInv, QuietInLog, QuietMeansCovered, Checkpoints, Numbers, LogEnd, Durable
  <2> QED BY <1>2, <1>3, <2>1, ReadsKept, HandoffsKept
<1>6. OneCandidatePerEvent'
  BY <1>3 DEF Proposed, Sourced, SessionInv, OneCandidatePerEvent
<1> QED BY <1>4, <1>5, <1>6 DEF SessionInv

LEMMA ExtractEndKeeps ==
  ASSUME SessionInv, NEW p \in Agents, ExtractEnd(p) PROVE SessionInv'
<1>1. /\ work' = [work EXCEPT ![p] = Resting]
      /\ UNCHANGED <<session, log, handoff, replaced, candidates, quiet>>
      /\ session' \in [SessionIds -> {"none", "open", "ended"}]
  BY DEF ExtractEnd, Leave, Continue, SessionInv, SessionType
<1> QED BY <1>1, RestingWork, CallMoves

LEMMA SessionStep == SessionInv /\ [SessionNext]_sessionVars => SessionInv'
<1> SUFFICES ASSUME SessionInv, [SessionNext]_sessionVars PROVE SessionInv'
  OBVIOUS
<1>1. ASSUME NEW x \in SessionIds, StartSession(x) \/ RecordDecision(x) PROVE SessionInv'
  BY <1>1, StartSessionKeeps, RecordDecisionKeeps
<1>2. ASSUME NEW p \in Agents, NEW x \in SessionIds, NEW g \in Goals, NEW previous \in Handoffs,
             NEW mode \in HookModes, HookEnd(p, x, g, mode, previous)
      PROVE  SessionInv'
  BY <1>2, HookEndKeeps
<1>3. ASSUME NEW p \in Agents, NEW x \in SessionIds, NEW g \in Goals, NEW previous \in Handoffs,
             NEW key \in ClientKeys, ClientFinal(p, x, key, g, previous)
      PROVE  SessionInv'
  BY <1>3, ClientFinalKeeps
<1>4. ASSUME NEW p \in Agents, EndTx(p) \/ Die(p) PROVE SessionInv'
  BY <1>4, EndTxKeeps, DieKeeps
<1>5. ASSUME NEW p \in Agents, EvaluateReadLatest(p) \/ EvaluateReadCursor(p) PROVE SessionInv'
  BY <1>5, EvaluateReadKeeps
<1>6. ASSUME NEW p \in Agents, NEW usage \in Usages \cup {NoUsage},
             NEW age \in {"none", "young", "ripe", "old"}, NEW repository \in BOOLEAN,
             NEW many \in BOOLEAN, NEW elapsed \in BOOLEAN, NEW force \in BOOLEAN,
             EvaluateDecide(p, usage, repository, many, elapsed, age, force)
      PROVE  SessionInv'
  BY <1>6, EvaluateDecideKeeps
<1>7. ASSUME NEW p \in Agents, CheckpointLookup(p) \/ CheckpointReadSession(p) PROVE SessionInv'
  BY <1>7, CheckpointLookupKeeps
<1>8. ASSUME NEW p \in Agents, NEW upto \in 0..MaxLog, CheckpointReadCursor(p, upto)
      PROVE  SessionInv'
  BY <1>8, CheckpointReadCursorKeeps
<1>9. ASSUME NEW p \in Agents, CheckpointTx(p) \/ CheckpointRepeat(p) PROVE SessionInv'
  BY <1>9, CheckpointTxKeeps, CheckpointRepeatKeeps
<1>10. ASSUME NEW p \in Agents, NEW n \in 1..MaxLog, ExtractRead(p, n) PROVE SessionInv'
  BY <1>10, ExtractReadKeeps
<1>11. ASSUME NEW p \in Agents, ExtractWrite(p) \/ ExtractEnd(p) PROVE SessionInv'
  BY <1>11, ExtractWriteKeeps, ExtractEndKeeps
<1>12. CASE UNCHANGED sessionVars
  <2>1. UNCHANGED <<session, log, handoff, replaced, candidates, quiet, work>>
    BY <1>12 DEF sessionVars
  <2>2. QuietInLog' /\ ReadsInLog'
    BY <2>1 DEF SessionInv, QuietInLog, QuietMeansCovered, ReadsInLog, Checkpoints, Numbers,
                LogEnd, Durable
  <2>3. SessionType' /\ OneCandidatePerEvent' /\ HandoffsInLog'
    BY <2>1, HandoffsKept DEF SessionInv, SessionType, OneCandidatePerEvent
  <2> QED BY <2>2, <2>3 DEF SessionInv
<1> QED BY <1>1, <1>2, <1>3, <1>4, <1>5, <1>6, <1>7, <1>8, <1>9, <1>10, <1>11, <1>12
        DEF SessionNext

THEOREM SessionInvariant == SessionSpec => []SessionInv
BY SessionStart, SessionStep, PTL DEF SessionSpec

\* evaluate_checkpoint never suppresses a trigger as unchanged while the
\* checkpoint it looked at leaves out a durable event up to its cursor.
THEOREM QuietIsCovered == SessionSpec => []QuietMeansCovered
<1>1. SessionInv => QuietMeansCovered
  BY DEF SessionInv, QuietInLog
<1> QED BY <1>1, SessionInvariant, PTL

\* create_checkpoint replaces a handoff once and withdraws what it replaces,
\* for any number of final checkpoints that name one predecessor.
THEOREM HandoffsFormChains == SessionSpec => []HandoffReplacedOnce
<1>1. SessionInv => HandoffReplacedOnce
  BY DEF SessionInv, HandoffsInLog
<1> QED BY <1>1, SessionInvariant, PTL

\* extract_session_candidates makes one candidate of an event, for any number
\* of processes that end one session.
THEOREM CandidatesAreUnique == SessionSpec => []OneCandidatePerEvent
<1>1. SessionInv => OneCandidatePerEvent
  BY DEF SessionInv
<1> QED BY <1>1, SessionInvariant, PTL
=============================================================================
