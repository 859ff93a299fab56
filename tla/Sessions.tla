------------------------------ MODULE Sessions ------------------------------
(***************************************************************************)
(* The sessions of one project and its recovery checkpoints: start_session *)
(* and end_session (persistence/project_evidence.py), create_checkpoint    *)
(* and evaluate_checkpoint (persistence/checkpoint.py, with                *)
(* checkpoint_policy.py), the SessionEnd hook that calls them (hooks.py)   *)
(* and the extraction of candidates from the events of an ended session    *)
(* (persistence/review.py).                                                *)
(*                                                                         *)
(* The log is that of EventStream, with what checkpoints add to it.  Its   *)
(* rows are immutable, so a recovery hash over the events up to a cursor   *)
(* is the goal with the set of their numbers.  Definitions are prefixed,   *)
(* because instances compose this module with others.                      *)
(***************************************************************************)
EXTENDS Naturals, Sequences, FiniteSets

CONSTANTS
  Agents,       \* processes: hooks and clients
  SessionIds,   \* external ids of client sessions
  HookModes,    \* the modes of checkpoint hooks are asked for
  ClientKeys,   \* idempotency keys clients choose for final checkpoints
  Goals,        \* goal, completed work, next step, blockers and repository
  NoGoal,       \* the goal in a key that does not depend on one
  Usages,       \* levels of context usage clients report, in tenths
  NoUsage,      \* context usage left out
  NoEvent,      \* no checkpoint, or no previous handoff
  MaxLog,       \* bound on the events recorded
  Lag,          \* how far behind the cursor is that clients give, at most
  MaxCalls      \* bound on the hooks and clients run

ASSUME SessionsAssumption ==
  /\ MaxLog \in Nat /\ MaxCalls \in Nat /\ Lag \in Nat
  /\ Usages \subseteq 0..10 /\ NoUsage \notin Nat /\ NoEvent \notin Nat
  /\ NoGoal \notin Goals /\ HookModes \subseteq {"interim", "final"}
  /\ "state" \notin SessionIds \cup ClientKeys
  /\ SessionIds \cap ClientKeys = {}

VARIABLES
  session,    \* rows of sessions by external id
  log,        \* rows of events
  ckeys,      \* rows of idempotency_keys of create_checkpoint
  handoff,    \* status of the handoffs of final checkpoints, by event, and
              \* of an older active memory, 0
  replaced,   \* rows of edges between them: new, old
  candidates, \* rows of memories extraction made, each with its source
  quiet,      \* history: evaluations answered "unchanged_recovery_state"
  work,       \* the call in progress of each process
  calls       \* how many were made

sessionVars == <<session, log, ckeys, handoff, replaced, candidates, quiet, work,
                calls>>

-----------------------------------------------------------------------------
(* State                                                                   *)

Resting == [op |-> "rest"]
Durable(event) == event.kind # "checkpoint"
Numbers == 1..Len(log)
LogEnd == Len(log)

\* A key is drawn from the recovery state, or named by the hook after the
\* session or by a client.
Key(name, goal, covers) == [name |-> name, goal |-> goal, covers |-> covers]
NamedKey(name) == Key(name, NoGoal, {})

\* Fault in RecoveryState: the hash leaves the events out.
RecoveryStateOfGoal(goal, cursor) == [goal |-> goal, covers |-> {}]

\* recovery_hash: the goal and the durable events up to the cursor.
RecoveryState(goal, cursor) ==
  [goal |-> goal, covers |-> {n \in Numbers : n <= cursor /\ Durable(log[n])}]

Checkpoints == {n \in Numbers : log[n].kind = "checkpoint"}
LatestCheckpoints ==
  IF Checkpoints = {} THEN {NoEvent}
  ELSE {n \in Checkpoints : \A other \in Checkpoints : other <= n}

SessionInit ==
  /\ session = [x \in SessionIds |-> "none"]
  /\ log = <<>> /\ ckeys = {} /\ handoff = [n \in {0} |-> "active"] /\ replaced = {}
  /\ candidates = {} /\ quiet = {}
  /\ work = [p \in Agents |-> Resting] /\ calls = 0

Start(p, w) ==
  /\ work[p] = Resting /\ calls < MaxCalls
  /\ work' = [work EXCEPT ![p] = w] /\ calls' = calls + 1
Continue(p, w) == work' = [work EXCEPT ![p] = w] /\ UNCHANGED calls
Leave(p) == Continue(p, Resting)

\* A call may raise or its process die between any two steps; only
\* histories remember what was read.
Die(p) ==
  /\ work[p] # Resting
  /\ Leave(p)
  /\ UNCHANGED <<session, log, ckeys, handoff, replaced, candidates, quiet>>

-----------------------------------------------------------------------------
(* Sessions                                                                *)

\* start_session returns the row there is for the external id and otherwise
\* inserts one.  Of two processes that find none, the unique key lets one
\* insert and refuses the other, which changes nothing.
StartSession(x) ==
  /\ session[x] = "none"
  /\ session' = [session EXCEPT ![x] = "open"]
  /\ UNCHANGED <<log, ckeys, handoff, replaced, candidates, quiet, work, calls>>

\* record_event asks nothing of the session it files the event under.
RecordDecision(x) ==
  /\ session[x] # "none" /\ LogEnd < MaxLog
  /\ log' = Append(log, [kind |-> "decision", session |-> x])
  /\ UNCHANGED <<session, ckeys, handoff, replaced, candidates, quiet, work, calls>>

\* The SessionEnd hook finds the session and records the last output, if
\* there is one, under a key of the session, once.
HookEnd(p, x, goal, mode, previous) ==
  LET output == [kind |-> "output", session |-> x] IN
  /\ session[x] # "none"
  /\ \/ log' = log
     \/ /\ LogEnd < MaxLog /\ \A n \in Numbers : log[n] # output
        /\ log' = Append(log, output)
  /\ Start(p, IF mode = "final"
              THEN [op |-> "lookup", hook |-> TRUE, key |-> NamedKey(x),
                    request |-> [mode |-> "final", session |-> x, goal |-> goal,
                                 usage |-> NoUsage, previous |-> previous]]
              ELSE [op |-> "evaluate", session |-> x, goal |-> goal])
  /\ UNCHANGED <<session, ckeys, handoff, replaced, candidates, quiet>>

\* A client calls create_checkpoint with a key of its own.
ClientFinal(p, x, key, goal, previous) ==
  /\ session[x] # "none"
  /\ Start(p, [op |-> "lookup", hook |-> FALSE, key |-> NamedKey(key),
               request |-> [mode |-> "final", session |-> x, goal |-> goal,
                            usage |-> NoUsage, previous |-> previous]])
  /\ UNCHANGED <<session, log, ckeys, handoff, replaced, candidates, quiet>>

Ended(x) == [session EXCEPT ![x] = "ended"]

\* end_session: one transaction that ends the session, again if need be;
\* the candidates are extracted after it.
EndTx(p) ==
  /\ work[p].op = "end"
  /\ session' = Ended(work[p].session)
  /\ Continue(p, [op |-> "extract", session |-> work[p].session, after |-> 0])
  /\ UNCHANGED <<log, ckeys, handoff, replaced, candidates, quiet>>

-----------------------------------------------------------------------------
(* Evaluation                                                              *)

\* evaluate_checkpoint_policy, with thresholds in tenths.  Elapsed time, the
\* age of the last checkpoint and the event count are what they are compared
\* to: "young" is within the cooldown, "old" beyond the maximum age.
Triggered(usage, material, repository, many, elapsed, age) ==
  IF usage # NoUsage THEN usage >= 9 \/ (usage >= 7 /\ material)
  ELSE elapsed \/ many \/ repository \/ (age = "old" /\ material)

Suppression(usage, changed, age, prior) ==
  CASE ~changed -> "unchanged"
    [] changed /\ age = "young" -> "cooldown"
    [] changed /\ age # "young" /\ usage # NoUsage /\ usage < 9
         /\ prior # NoUsage /\ usage < (IF prior + 1 > 10 THEN 10 ELSE prior + 1)
         -> "hysteresis"
    [] OTHER -> "none"

\* evaluate_checkpoint reads the latest checkpoint, then the cursor ...
EvaluateReadLatest(p) ==
  /\ work[p].op = "evaluate"
  /\ \E latest \in LatestCheckpoints :
       Continue(p, [op |-> "weigh", session |-> work[p].session,
                    goal |-> work[p].goal, latest |-> latest])
  /\ UNCHANGED <<session, log, ckeys, handoff, replaced, candidates, quiet>>

EvaluateReadCursor(p) ==
  /\ work[p].op = "weigh"
  /\ Continue(p, [op |-> "decide", session |-> work[p].session,
                  goal |-> work[p].goal, latest |-> work[p].latest,
                  cursor |-> LogEnd])
  /\ UNCHANGED <<session, log, ckeys, handoff, replaced, candidates, quiet>>

DurableSince(latest) ==
  {n \in Numbers : Durable(log[n]) /\ (latest = NoEvent \/ n > latest)}

\* ... then counts the durable events since that checkpoint, and compares
\* the recovery state at the cursor with the one the checkpoint recorded.
\* The hook goes on to a checkpoint under a key made from the state, or to
\* the end of the session; it may also be told to checkpoint regardless.
EvaluateDecide(p, usage, repository, many, elapsed, age, force) ==
  LET w        == work[p]
      prior    == IF w.latest = NoEvent THEN NoUsage ELSE log[w.latest].usage
      state    == RecoveryState(w.goal, w.cursor)
      changed  == w.latest = NoEvent \/ log[w.latest].state # state
      material == repository \/ DurableSince(w.latest) # {}
      trigger  == Triggered(usage, material, repository, many, elapsed, age)
      reason   == Suppression(usage, changed, age, prior)
      should   == trigger /\ reason = "none"
  IN /\ w.op = "decide"
     /\ age = "none" <=> w.latest = NoEvent
     /\ many => DurableSince(w.latest) # {}
     /\ quiet' = IF trigger /\ reason = "unchanged"
                 THEN quiet \cup {[goal |-> w.goal, latest |-> w.latest,
                                   cursor |-> w.cursor]}
                 ELSE quiet
     /\ Continue(p,
          IF should \/ force
          THEN [op |-> "lookup", hook |-> TRUE,
                key |-> Key("state", state.goal, state.covers),
                request |-> [mode |-> "interim", session |-> w.session,
                             goal |-> w.goal, usage |-> usage,
                             previous |-> NoEvent]]
          ELSE [op |-> "end", session |-> w.session])
     /\ UNCHANGED <<session, log, ckeys, handoff, replaced, candidates>>

-----------------------------------------------------------------------------
(* Checkpoints                                                             *)

\* What follows a checkpoint: the hook ends the session of an interim one.
Afterwards(p) ==
  IF work[p].hook /\ work[p].request.mode = "interim"
  THEN [op |-> "end", session |-> work[p].request.session] ELSE Resting

KeyRows(key) == {row \in ckeys : row.key = key}

\* create_checkpoint looks its key up: a row answers an equal request and
\* refuses any other.
CheckpointLookup(p) ==
  LET w == work[p]
      rows == KeyRows(w.key)
  IN /\ w.op = "lookup"
     /\ CASE rows = {} -> Continue(p, [w EXCEPT !.op = "check"])
          [] \E row \in rows : row.request = w.request -> Continue(p, Afterwards(p))
          [] OTHER -> Leave(p)
     /\ UNCHANGED <<session, log, ckeys, handoff, replaced, candidates, quiet>>

\* It then asks whether the session is active.
CheckpointReadSession(p) ==
  /\ work[p].op = "check"
  /\ IF session[work[p].request.session] = "open"
     THEN Continue(p, [work[p] EXCEPT !.op = "cursor"]) ELSE Leave(p)
  /\ UNCHANGED <<session, log, ckeys, handoff, replaced, candidates, quiet>>

\* It reads the cursor, and computes the recovery hash up to the cursor the
\* client gives, by default that one.
CheckpointReadCursor(p, upto) ==
  /\ work[p].op = "cursor" /\ upto <= LogEnd /\ LogEnd <= upto + Lag
  /\ Continue(p, [op |-> "commit", hook |-> work[p].hook, key |-> work[p].key,
                  request |-> work[p].request, upto |-> upto,
                  state |-> RecoveryState(work[p].request.goal, upto)])
  /\ UNCHANGED <<session, log, ckeys, handoff, replaced, candidates, quiet>>

\* Fault in MayReplace: whether the previous handoff is active is not asked
\* again in the transaction.
MayReplaceAny(previous) == previous = NoEvent \/ previous \in DOMAIN handoff

\* The memory a final checkpoint names as the previous handoff has to be
\* active.
MayReplace(previous) ==
  previous = NoEvent \/ (previous \in DOMAIN handoff /\ handoff[previous] = "active")

\* The key is looked up again in the transaction, and is a primary key.
KeyTaken(key) == KeyRows(key) # {}

\* The transaction appends the checkpoint; a final one publishes its handoff
\* in the place of the previous one and ends the session.
CheckpointTx(p) ==
  LET w == work[p]
      n == LogEnd + 1
      r == w.request
  IN /\ w.op = "commit"
     /\ ~KeyTaken(w.key)
     /\ r.mode = "final" => MayReplace(r.previous)
     /\ LogEnd < MaxLog
     /\ log' = Append(log, [kind |-> "checkpoint", session |-> r.session,
                            usage |-> r.usage, upto |-> w.upto, state |-> w.state])
     /\ ckeys' = ckeys \cup {[key |-> w.key, request |-> r, event |-> n]}
     /\ IF r.mode = "final"
        THEN /\ handoff' = [m \in DOMAIN handoff \cup {n} |->
                              IF m = n THEN "active"
                              ELSE IF m = r.previous THEN "superseded" ELSE handoff[m]]
             /\ replaced' = replaced \cup
                  (IF r.previous = NoEvent THEN {} ELSE {<<n, r.previous>>})
             /\ session' = Ended(r.session)
        ELSE UNCHANGED <<handoff, replaced, session>>
     /\ Continue(p, Afterwards(p))
     /\ UNCHANGED <<candidates, quiet>>

\* The transaction finds the key taken: an equal request gets its answer.
CheckpointRepeat(p) ==
  LET w == work[p] IN
  /\ w.op = "commit" /\ KeyTaken(w.key)
  /\ IF \E row \in KeyRows(w.key) : row.request = w.request
     THEN Continue(p, Afterwards(p)) ELSE Leave(p)
  /\ UNCHANGED <<session, log, ckeys, handoff, replaced, candidates, quiet>>

-----------------------------------------------------------------------------
(* Extraction                                                              *)

Sourced(n) == \E c \in candidates : c.event = n

\* extract_session_candidates walks the promotable events of the session and
\* skips those that are a source already.
ExtractRead(p, n) ==
  LET w == work[p]
      Promotable(m) == log[m] = [kind |-> "decision", session |-> w.session]
  IN /\ w.op = "extract"
     /\ n \in Numbers /\ n > w.after /\ Promotable(n)
     /\ \A m \in Numbers : m > w.after /\ m < n => ~Promotable(m)
     /\ Continue(p, IF Sourced(n) THEN [w EXCEPT !.after = n]
                    ELSE [op |-> "propose", session |-> w.session, event |-> n])
     /\ UNCHANGED <<session, log, ckeys, handoff, replaced, candidates, quiet>>

\* Fault in Proposed: candidates have no key of their event.
ProposedUnkeyed(n) == candidates \cup {[event |-> n, memory |-> Cardinality(candidates) + 1]}

\* upsert_memory under the key of the event: a second one finds the first.
Proposed(n) ==
  IF Sourced(n) THEN candidates
  ELSE candidates \cup {[event |-> n, memory |-> Cardinality(candidates) + 1]}

ExtractWrite(p) ==
  /\ work[p].op = "propose"
  /\ candidates' = Proposed(work[p].event)
  /\ Continue(p, [op |-> "extract", session |-> work[p].session,
                  after |-> work[p].event])
  /\ UNCHANGED <<session, log, ckeys, handoff, replaced, quiet>>

ExtractEnd(p) ==
  /\ work[p].op = "extract"
  /\ \A n \in Numbers : n > work[p].after =>
       log[n] # [kind |-> "decision", session |-> work[p].session]
  /\ Leave(p)
  /\ UNCHANGED <<session, log, ckeys, handoff, replaced, candidates, quiet>>

-----------------------------------------------------------------------------
Handoffs == DOMAIN handoff \cup {NoEvent}

SessionNext ==
  \/ \E x \in SessionIds : StartSession(x) \/ RecordDecision(x)
  \/ \E p \in Agents, x \in SessionIds, g \in Goals, previous \in Handoffs :
       \/ \E mode \in HookModes : HookEnd(p, x, g, mode, previous)
       \/ \E key \in ClientKeys : ClientFinal(p, x, key, g, previous)
  \/ \E p \in Agents :
       \/ EndTx(p) \/ Die(p)
       \/ EvaluateReadLatest(p) \/ EvaluateReadCursor(p)
       \/ \E usage \in Usages \cup {NoUsage}, age \in {"none", "young", "ripe", "old"},
             repository, many, elapsed, force \in BOOLEAN :
            EvaluateDecide(p, usage, repository, many, elapsed, age, force)
       \/ CheckpointLookup(p) \/ CheckpointReadSession(p)
       \/ \E upto \in 0..MaxLog : CheckpointReadCursor(p, upto)
       \/ CheckpointTx(p) \/ CheckpointRepeat(p)
       \/ \E n \in 1..MaxLog : ExtractRead(p, n)
       \/ ExtractWrite(p) \/ ExtractEnd(p)

SessionSpec == SessionInit /\ [][SessionNext]_sessionVars

-----------------------------------------------------------------------------
(* Properties                                                              *)

\* An evaluation that suppresses a trigger because nothing changed is right:
\* the latest checkpoint it looked at covers, for the same goal, every
\* durable event up to the cursor it answered with, whatever was recorded
\* or checkpointed between its reads.
QuietMeansCovered ==
  \A q \in quiet :
    /\ q.latest # NoEvent
    /\ log[q.latest].state.goal = q.goal
    /\ \A n \in 1..q.cursor : Durable(log[n]) => n <= log[q.latest].upto

\* Handoffs form chains: one memory takes the place of another at most once,
\* and what it replaced is not active, even when several final checkpoints
\* name the same previous handoff at the same time.
HandoffReplacedOnce ==
  /\ \A a, b \in replaced : a[2] = b[2] => a = b
  /\ \A n \in DOMAIN handoff :
       handoff[n] = "active" <=> ~\E e \in replaced : e[2] = n

\* The extraction at a session's end makes one candidate of an event, also
\* when two processes end the session.
OneCandidatePerEvent ==
  \A c, d \in candidates : c.event = d.event => c = d
=============================================================================
