---------------------------- MODULE EventStream ----------------------------
(***************************************************************************)
(* The event stream of one project and its durable consumer receipts:      *)
(* record_event, poll_events, acknowledge_events and read_events_since of  *)
(* persistence/project_evidence.py, and the cursor that get_context hands  *)
(* to a client that keeps its own (context_assembly.py), be it at a        *)
(* bootstrap, which starts at the newest events (mcp.py).                  *)
(*                                                                         *)
(* Several operating-system processes share one SQLite file.  A statement  *)
(* outside MemoryStore.tx() reads a snapshot of its own; a tx() block is   *)
(* serialised with every other one.  Hence each operation is cut into one  *)
(* action per read outside a transaction and one per transaction, and      *)
(* anything may happen in between, the death of the process included.      *)
(***************************************************************************)
EXTENDS Integers, FiniteSets

CONSTANTS
  Writers,    \* processes calling record_event
  Pollers,    \* processes calling poll_events, each for one stream
  Followers,  \* clients that keep their own cursor for get_context
  Streams,    \* receipt streams: consumer, kinds filter, scope filter
  StreamOf,   \* the stream each poller and follower reads
  Keys,       \* idempotency keys
  NoKey,      \* a call without an idempotency key
  Requests,   \* record_event arguments: kind, scope, and whether it expires
  NoScope,    \* scope_id is NULL
  Limit,      \* the page limit of a poll
  Disciplined,\* clients acknowledge only cursors they were handed
  MaxEvents   \* bound: events recorded

ASSUME StreamsAssumption ==
  /\ StreamOf \in [Pollers \cup Followers -> Streams]
ASSUME KeysAssumption == NoKey \notin Keys
ASSUME NumbersAssumption ==
  /\ Limit \in Nat \ {0}
  /\ MaxEvents \in Nat
  /\ Disciplined \in BOOLEAN

VARIABLES
  nextSeq,   \* project_event_cursors.next_seq
  events,    \* rows of events
  expired,   \* event_seq of the messages whose expires_at has passed
  idem,      \* rows of idempotency_keys for record_event
  receipts,  \* rows of event_receipts
  writer,    \* the call in progress of each writer
  poll,      \* the call in progress of each poller
  follow,    \* the cursor held, and the call in progress, of each follower
  served,    \* history: events in pages of committed polls, per stream
  received,  \* history: events in responses that reached a client
  told,      \* history: next_cursor values that reached a client
  shown      \* history: what each follower was shown, and where that begins

logVars == <<nextSeq, events, expired, idem>>
clientVars == <<received, told>>
vars == <<nextSeq, events, expired, idem, receipts, writer, poll, follow,
          served, received, told, shown>>

-----------------------------------------------------------------------------
(* Reading: read_events_since.                                             *)

Message == "message"

\* kinds IN (...) when kinds are given, and the caller's scope or no scope.
Matches(s, r) ==
  /\ s.kinds = {} \/ r.kind \in s.kinds
  /\ s.scope = NoScope \/ r.scope \in {s.scope, NoScope}

HighWater == nextSeq - 1

Selected(s, cursor, snapshot) ==
  {e \in events : /\ cursor < e.seq /\ e.seq <= snapshot
                  /\ Matches(s, e.request)}

\* ORDER BY event_seq LIMIT n.
FirstOf(rows, n) ==
  {e \in rows : Cardinality({d \in rows : d.seq < e.seq}) < n}

\* Fault in NextCursors: the cursor moves to the high water even though more
\* rows remain.
NextCursorsIgnoringMore(rows, page, snapshot) == {snapshot}

\* A row beyond the limit means has_more: the cursor is then the last row's,
\* else the high-water mark read before the rows.
NextCursors(rows, page, snapshot) ==
  IF page = rows THEN {snapshot}
  ELSE {n \in {e.seq : e \in page} : \A e \in page : e.seq <= n}

\* Expired messages are dropped after paging.
Visible(page) == {e.seq : e \in page} \ expired

-----------------------------------------------------------------------------
(* State                                                                   *)

Event == [seq : Nat \ {0}, request : Requests, key : Keys \cup {NoKey}]
IdemRow == [key : Keys, request : Requests, seq : Nat]
Receipt == [exists : BOOLEAN, acked : Nat, delivered : Nat]

IdleWriter == [pc |-> "idle"]
WriterState ==
       {IdleWriter}
  \cup [pc : {"tx"}, key : Keys \cup {NoKey}, request : Requests]
  \cup [pc : {"answer"}, key : Keys \cup {NoKey}, request : Requests,
        seq : Nat]

IdlePoll == [pc |-> "idle"]
PollState ==
       {IdlePoll}
  \cup [pc : {"snapshot"}, cursor : Nat]
  \cup [pc : {"rows"}, cursor : Nat, snapshot : Nat]
  \cup [pc : {"tx", "answer"}, cursor : Nat, next : Nat, page : SUBSET Nat]

\* held is the cursor the client keeps, cursor the one the call reads after;
\* known are the events a bootstrap leaves out, and tail that it is one.
FollowState ==
       [pc : {"idle"}, held : Nat]
  \cup [pc : {"tail"}, held : Nat, cursor : Nat, known : SUBSET Nat]
  \cup [pc : {"rows"}, held : Nat, cursor : Nat, known : SUBSET Nat,
        tail : BOOLEAN, snapshot : Nat]

\* The events rendered; and of the last bootstrap the events left out as
\* known, the cursor it read after, and what it rendered if not all.
Shown == [events : SUBSET Nat, known : SUBSET Nat, after : Nat,
          cut : SUBSET Nat]

TypeOK ==
  /\ nextSeq \in Nat \ {0}
  /\ events \in SUBSET Event
  /\ expired \in SUBSET Nat
  /\ idem \in SUBSET IdemRow
  /\ receipts \in [Streams -> Receipt]
  /\ writer \in [Writers -> WriterState]
  /\ poll \in [Pollers -> PollState]
  /\ follow \in [Followers -> FollowState]
  /\ served \in [Streams -> SUBSET Nat]
  /\ received \in [Streams -> SUBSET Nat]
  /\ told \in [Streams -> SUBSET Nat]
  /\ shown \in [Followers -> Shown]

\* Fault in FirstSeq: a cursor row created with 0.
FirstSeqZero == 0

\* project_event_cursor_create: the cursor row of a new project.
FirstSeq == 1

Init ==
  /\ nextSeq = FirstSeq
  /\ events = {} /\ expired = {} /\ idem = {}
  /\ receipts = [s \in Streams |->
                   [exists |-> FALSE, acked |-> 0, delivered |-> 0]]
  /\ writer = [w \in Writers |-> IdleWriter]
  /\ poll = [p \in Pollers |-> IdlePoll]
  /\ follow = [f \in Followers |-> [pc |-> "idle", held |-> 0]]
  /\ served = [s \in Streams |-> {}]
  /\ received = [s \in Streams |-> {}]
  /\ told = [s \in Streams |-> {}]
  /\ shown = [f \in Followers |->
                [events |-> {}, known |-> {}, after |-> 0, cut |-> {}]]

-----------------------------------------------------------------------------
(* record_event                                                            *)

\* Fault in KeyFree: idempotency_keys without its primary key.
KeyFreeUnconstrained(k) == TRUE

\* The primary key (operation, key) of idempotency_keys would not be violated.
KeyFree(k) == \A row \in idem : row.key # k

\* Fault in Replays: the stored response is returned for any request.
ReplaysAnyRequest(row, k, r) == row.key = k

\* The stored row answers this call: same key, same request hash.
Replays(row, k, r) == row.key = k /\ row.request = r

\* _idem, outside the transaction: an unused key goes on, a used one answers
\* with the stored response, one stored for another request is a ValueError.
RecordCall(w, k, r) ==
  /\ writer[w].pc = "idle"
  /\ \/ /\ KeyFree(k)
        /\ writer' = [writer EXCEPT ![w] =
                        [pc |-> "tx", key |-> k, request |-> r]]
     \/ \E row \in idem :
          /\ Replays(row, k, r)
          /\ writer' = [writer EXCEPT ![w] =
                          [pc |-> "answer", key |-> k, request |-> r,
                           seq |-> row.seq]]
  /\ UNCHANGED <<logVars, receipts, poll, follow, served, clientVars, shown>>

\* The transaction: the sequence number, the event and the idempotency row
\* are committed together.
RecordTx(w) ==
  LET k == writer[w].key
      r == writer[w].request
  IN  /\ writer[w].pc = "tx"
      /\ nextSeq <= MaxEvents
      /\ KeyFree(k)
      /\ nextSeq' = nextSeq + 1
      /\ events' = events \cup {[seq |-> nextSeq, request |-> r, key |-> k]}
      /\ idem' = IF k = NoKey THEN idem
                 ELSE idem \cup {[key |-> k, request |-> r, seq |-> nextSeq]}
      /\ writer' = [writer EXCEPT ![w] = [pc |-> "answer", key |-> k,
                                          request |-> r, seq |-> nextSeq]]
      /\ UNCHANGED <<expired, receipts, poll, follow, served, clientVars,
                     shown>>

\* Fault in RecordConflict: the sequence was allocated in a transaction of its
\* own, which the ROLLBACK does not undo.
RecordConflictKeepsSeq(w) ==
  /\ writer[w].pc = "tx"
  /\ ~KeyFree(writer[w].key)
  /\ nextSeq <= MaxEvents /\ nextSeq' = nextSeq + 1
  /\ writer' = [writer EXCEPT ![w] = IdleWriter]
  /\ UNCHANGED <<events, expired, idem, receipts, poll, follow, served,
                 clientVars, shown>>

\* Another writer stored the key since the check: IntegrityError, ROLLBACK.
RecordConflict(w) ==
  /\ writer[w].pc = "tx"
  /\ ~KeyFree(writer[w].key)
  /\ writer' = [writer EXCEPT ![w] = IdleWriter]
  /\ UNCHANGED <<logVars, receipts, poll, follow, served, clientVars, shown>>

\* The call ends: the answer arrives, or the process dies or fails before its
\* transaction, or after it with the answer lost.
RecordEnd(w) ==
  /\ writer[w].pc # "idle"
  /\ writer' = [writer EXCEPT ![w] = IdleWriter]
  /\ UNCHANGED <<logVars, receipts, poll, follow, served, clientVars, shown>>

\* A message reaches its expires_at.
Expire(e) ==
  /\ e.request.kind = Message /\ e.request.expires
  /\ e.seq \notin expired
  /\ expired' = expired \cup {e.seq}
  /\ UNCHANGED <<nextSeq, events, idem, receipts, writer, poll, follow,
                 served, clientVars, shown>>

-----------------------------------------------------------------------------
(* poll_events and acknowledge_events                                      *)

PollReadReceipt(p) ==
  /\ poll[p].pc = "idle"
  /\ poll' = [poll EXCEPT ![p] = [pc |-> "snapshot",
                                  cursor |-> receipts[StreamOf[p]].acked]]
  /\ UNCHANGED <<logVars, receipts, writer, follow, served, clientVars, shown>>

PollReadSnapshot(p) ==
  /\ poll[p].pc = "snapshot"
  /\ poll' = [poll EXCEPT ![p] = [pc |-> "rows", cursor |-> poll[p].cursor,
                                  snapshot |-> HighWater]]
  /\ UNCHANGED <<logVars, receipts, writer, follow, served, clientVars, shown>>

PollReadRows(p) ==
  LET rows == Selected(StreamOf[p], poll[p].cursor, poll[p].snapshot)
      page == FirstOf(rows, Limit)
  IN  /\ poll[p].pc = "rows"
      /\ \E next \in NextCursors(rows, page, poll[p].snapshot) :
           poll' = [poll EXCEPT ![p] =
                      [pc |-> "tx", cursor |-> poll[p].cursor,
                       next |-> next, page |-> Visible(page)]]
      /\ UNCHANGED <<logVars, receipts, writer, follow, served, clientVars,
                     shown>>

Larger(a, b) == IF a >= b THEN a ELSE b

\* Fault in Delivered: polling acknowledges what it delivers.
DeliveredAcknowledges(receipt, cursor, next) ==
  [exists |-> TRUE,
   acked |-> Larger(receipt.acked, Larger(cursor, next)),
   delivered |-> Larger(receipt.delivered, Larger(cursor, next))]

\* INSERT ... ON CONFLICT DO UPDATE SET delivered_cursor=max(...).
Delivered(receipt, cursor, next) ==
  IF receipt.exists
  THEN [receipt EXCEPT !.delivered = Larger(@, Larger(cursor, next))]
  ELSE [exists |-> TRUE, acked |-> cursor, delivered |-> Larger(cursor, next)]

PollTx(p) ==
  LET s == StreamOf[p]
  IN  /\ poll[p].pc = "tx"
      /\ receipts' = [receipts EXCEPT ![s] =
                        Delivered(@, poll[p].cursor, poll[p].next)]
      /\ served' = [served EXCEPT ![s] = @ \cup poll[p].page]
      /\ poll' = [poll EXCEPT ![p].pc = "answer"]
      /\ UNCHANGED <<logVars, writer, follow, clientVars, shown>>

PollAnswer(p) ==
  LET s == StreamOf[p]
  IN  /\ poll[p].pc = "answer"
      /\ received' = [received EXCEPT ![s] = @ \cup poll[p].page]
      /\ told' = [told EXCEPT ![s] = @ \cup {poll[p].next}]
      /\ poll' = [poll EXCEPT ![p] = IdlePoll]
      /\ UNCHANGED <<logVars, receipts, writer, follow, served, shown>>

\* The process dies or the call fails: nothing, or the committed receipt
\* without its answer, remains.
PollCrash(p) ==
  /\ poll[p].pc # "idle"
  /\ poll' = [poll EXCEPT ![p] = IdlePoll]
  /\ UNCHANGED <<logVars, receipts, writer, follow, served, clientVars, shown>>

\* The cursors a client may pass: any, or, when it is disciplined, those it
\* was handed, late and repeated calls included.
AckInputs(s) == IF Disciplined THEN told[s] ELSE 0..MaxEvents

\* Fault in MayAcknowledge: a cursor may move back.
MayAcknowledgeBackwards(receipt, cursor) ==
  receipt.exists /\ cursor <= receipt.delivered

\* Fault in MayAcknowledge: no check against the delivered cursor.
MayAcknowledgeUndelivered(receipt, cursor) ==
  receipt.exists /\ receipt.acked <= cursor

\* Fault in MayAcknowledge: the delivered cursor itself is refused.
MayAcknowledgeStrictly(receipt, cursor) ==
  receipt.exists /\ receipt.acked <= cursor /\ cursor < receipt.delivered

MayAcknowledge(receipt, cursor) ==
  /\ receipt.exists
  /\ receipt.acked <= cursor
  /\ cursor <= receipt.delivered

Acknowledge(s, cursor) ==
  /\ MayAcknowledge(receipts[s], cursor)
  /\ receipts' = [receipts EXCEPT ![s].acked = cursor]
  /\ UNCHANGED <<logVars, writer, poll, follow, served, clientVars, shown>>

-----------------------------------------------------------------------------
(* get_context with an event_cursor                                        *)

\* cursor_for_recent_events: the cursor before the last events of the stream,
\* as many as a page has, or 0.
TailCursors(s) ==
  LET all == {e \in events : Matches(s, e.request)}
  IN  IF Cardinality(all) < Limit THEN {0}
      ELSE {e.seq - 1 : e \in {d \in all :
              Cardinality({c \in all : d.seq < c.seq}) = Limit - 1}}

\* context_bootstrap without a cursor: it leaves out the events that are the
\* sources of memories it has found, and reads the newest.
BootstrapReadTail(f, known) ==
  /\ follow[f].pc = "idle"
  /\ \E cursor \in TailCursors(StreamOf[f]) :
       follow' = [follow EXCEPT ![f] = [pc |-> "tail", held |-> follow[f].held,
                                        cursor |-> cursor, known |-> known]]
  /\ UNCHANGED <<logVars, receipts, writer, poll, served, clientVars, shown>>

\* It then calls get_context after that cursor ...
BootstrapReadSnapshot(f) ==
  /\ follow[f].pc = "tail"
  /\ follow' = [follow EXCEPT ![f] =
                  [pc |-> "rows", held |-> follow[f].held,
                   cursor |-> follow[f].cursor, known |-> follow[f].known,
                   tail |-> TRUE, snapshot |-> HighWater]]
  /\ UNCHANGED <<logVars, receipts, writer, poll, served, clientVars, shown>>

\* ... as a client does later with the cursor it holds.
FollowReadSnapshot(f) ==
  /\ follow[f].pc = "idle"
  /\ follow' = [follow EXCEPT ![f] =
                  [pc |-> "rows", held |-> follow[f].held,
                   cursor |-> follow[f].held, known |-> {},
                   tail |-> FALSE, snapshot |-> HighWater]]
  /\ UNCHANGED <<logVars, receipts, writer, poll, served, clientVars, shown>>

\* ORDER BY event_seq DESC LIMIT n.
LastOf(rows, n) ==
  {e \in rows : Cardinality({d \in rows : e.seq < d.seq}) < n}

\* Fault in Rendered: any call renders the newest.
RenderedLast(call, visible, room) == LastOf(visible, room)

\* The budget has room for some of the page: a bootstrap renders the newest
\* (prefer_latest_events), any other call the oldest.  One cut short counts.
Rendered(call, visible, room) ==
  IF call.tail THEN LastOf(visible, room) ELSE FirstOf(visible, room)

\* Fault in FollowNext: the cursor moves past events the budget left out.
FollowNextUncut(rows, page, visible, rendered, f) ==
  NextCursors(rows, page, follow[f].snapshot)

\* When some are left out the cursor is that of the newest rendered, behind
\* which a bootstrap leaves older ones.
FollowNext(rows, page, visible, rendered, f) ==
  IF rendered = visible THEN NextCursors(rows, page, follow[f].snapshot)
  ELSE IF rendered = {} THEN {follow[f].cursor}
  ELSE {n \in {e.seq : e \in rendered} : \A e \in rendered : e.seq <= n}

\* The history after an answer: a bootstrap begins it anew.
ShownNow(f, visible, rendered) ==
  LET all == shown[f].events \cup {e.seq : e \in rendered}
  IN  IF follow[f].tail
      THEN [events |-> all, known |-> follow[f].known,
            after |-> follow[f].cursor,
            cut |-> IF rendered = visible THEN {} ELSE {e.seq : e \in rendered}]
      ELSE [shown[f] EXCEPT !.events = all]

FollowAnswer(f, room) ==
  LET call == follow[f]
      rows == Selected(StreamOf[f], call.cursor, call.snapshot)
      page == FirstOf(rows, Limit)
      visible == {e \in page : e.seq \notin expired \cup call.known}
      rendered == Rendered(call, visible, room)
  IN  /\ call.pc = "rows"
      /\ \E next \in FollowNext(rows, page, visible, rendered, f) :
           follow' = [follow EXCEPT ![f] = [pc |-> "idle", held |-> next]]
      /\ shown' = [shown EXCEPT ![f] = ShownNow(f, visible, rendered)]
      /\ UNCHANGED <<logVars, receipts, writer, poll, served, clientVars>>

\* The answer is lost, or it is that of a bootstrap that needed no events: the
\* client has the cursor it held.
FollowCrash(f) ==
  /\ follow[f].pc # "idle"
  /\ follow' = [follow EXCEPT ![f] = [pc |-> "idle",
                                      held |-> follow[f].held]]
  /\ UNCHANGED <<logVars, receipts, writer, poll, served, clientVars, shown>>

-----------------------------------------------------------------------------
WriterStep(w) ==
  \/ \E k \in Keys \cup {NoKey}, r \in Requests : RecordCall(w, k, r)
  \/ RecordTx(w)
  \/ RecordConflict(w)
  \/ RecordEnd(w)

PollerStep(p) ==
  \/ PollReadReceipt(p)
  \/ PollReadSnapshot(p)
  \/ PollReadRows(p)
  \/ PollTx(p)
  \/ PollAnswer(p)
  \/ PollCrash(p)

FollowerStep(f) ==
  \/ \E known \in SUBSET {e.seq : e \in events} : BootstrapReadTail(f, known)
  \/ BootstrapReadSnapshot(f)
  \/ FollowReadSnapshot(f)
  \/ \E room \in 0..Limit : FollowAnswer(f, room)
  \/ FollowCrash(f)

Next ==
  \/ \E w \in Writers : WriterStep(w)
  \/ \E e \in events : Expire(e)
  \/ \E p \in Pollers : PollerStep(p)
  \/ \E s \in Streams : \E c \in AckInputs(s) : Acknowledge(s, c)
  \/ \E f \in Followers : FollowerStep(f)

Spec == Init /\ [][Next]_vars

\* A consumer keeps polling although single calls may fail, and acknowledges
\* what it was handed.
Fairness ==
  /\ \A p \in Pollers :
       /\ SF_vars(PollReadReceipt(p)) /\ SF_vars(PollReadSnapshot(p))
       /\ SF_vars(PollReadRows(p)) /\ SF_vars(PollTx(p))
       /\ SF_vars(PollAnswer(p))
  /\ \A s \in Streams :
       WF_vars(\E c \in told[s] : c > receipts[s].acked /\ Acknowledge(s, c))

FairSpec == Spec /\ Fairness

-----------------------------------------------------------------------------
(* What must hold                                                          *)

\* record_event allocates event_seq in the transaction that inserts the row:
\* the project's events are numbered 1, 2, ... without a gap or a duplicate,
\* whatever failed or was rolled back in between.
LogGapless ==
  /\ {e.seq : e \in events} = 1..HighWater
  /\ \A d, e \in events : d.seq = e.seq => d = e

Pending(s, n) == {e \in events : Matches(s, e.request) /\ e.seq <= n}

\* poll_events: the delivered cursor of a stream never covers a matching event
\* that was not in the page of some committed poll, unless it has expired.
NoEventSkipped ==
  \A s \in Streams : \A e \in Pending(s, receipts[s].delivered) :
    e.seq \in served[s] \cup expired

\* acknowledge_events: an event below the acknowledged cursor has reached a
\* client (which acknowledges cursors it was handed), although answers get
\* lost, pages overlap and late acknowledgements arrive.
AckedWasReceived ==
  Disciplined =>
    \A s \in Streams : \A e \in Pending(s, receipts[s].acked) :
      e.seq \in received[s] \cup expired

\* The receipt of a stream is ordered: acknowledged, delivered, high water.
ReceiptsOrdered ==
  \A s \in Streams :
    /\ receipts[s].acked <= receipts[s].delivered
    /\ receipts[s].delivered <= HighWater

\* record_event under one idempotency key takes effect at most once, however
\* the calls race, and the stored response is that of the recorded event.
OneEventPerKey ==
  /\ \A d, e \in events : d.key = e.key /\ d.key # NoKey => d = e
  /\ \A row \in idem :
       [seq |-> row.seq, request |-> row.request, key |-> row.key] \in events
  /\ \A e \in events : e.key # NoKey => \E row \in idem : row.seq = e.seq

\* A writer is answered with the event its own request created or, on a
\* replay, the one the same request created before.
AnswerIsTheEvent ==
  \A w \in Writers : writer[w].pc = "answer" =>
    [seq |-> writer[w].seq, request |-> writer[w].request,
     key |-> writer[w].key] \in events

\* Where a follower's reading begins: behind the cursor of its last bootstrap,
\* and if that was cut, at the oldest event it rendered.
Begun(f, n) ==
  /\ shown[f].after < n
  /\ shown[f].cut # {} => \E m \in shown[f].cut : m <= n

\* get_context: a client that follows next_event_cursor has been shown every
\* matching event below its cursor from where its reading begins, although
\* budgets cut pages short from either end; but for events that expired, and
\* those a bootstrap left out as the sources of memories.
FollowerMissesNothing ==
  \A f \in Followers : \A e \in Pending(StreamOf[f], follow[f].held) :
    Begun(f, e.seq) => e.seq \in shown[f].events \cup shown[f].known \cup expired

\* Neither cursor of a receipt ever moves back, although a poll writes what it
\* computed from a receipt it read long before.
CursorsNeverRetreat ==
  [][\A s \in Streams : /\ receipts[s].acked <= receipts'[s].acked
                        /\ receipts[s].delivered <= receipts'[s].delivered]_vars

\* A consumer that keeps polling and acknowledging receives every matching
\* event in the end, page after page, unless the event expires.
EventuallyReceived ==
  \A p \in Pollers : \A n \in 1..MaxEvents :
    (\E e \in Pending(StreamOf[p], n) : e.seq = n)
      ~> (n \in received[StreamOf[p]] \cup expired)

\* The whole behaviour, seen through the receipts, is that of EventDelivery:
\* interleaved polls, crashes, retries and rollbacks add nothing to it.
Promised ==
  INSTANCE EventDelivery WITH
    log <- events, gone <- expired,
    delivered <- [s \in Streams |-> receipts[s].delivered],
    acked <- [s \in Streams |-> receipts[s].acked],
    handed <- served, Wanted <- Matches

DeliversAsPromised == Promised!Promise
=============================================================================
