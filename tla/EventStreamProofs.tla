------------------------- MODULE EventStreamProofs -------------------------
(***************************************************************************)
(* Proofs about EventStream, for any number of processes, streams, keys    *)
(* and events.                                                             *)
(***************************************************************************)
EXTENDS EventStream, FiniteSetTheorems, TLAPS

USE DEF clientVars, logVars

-----------------------------------------------------------------------------
(* Type correctness                                                        *)

LEMMA LargerIsNat == ASSUME NEW a \in Nat, NEW b \in Nat
                     PROVE  Larger(a, b) \in Nat
BY DEF Larger

LEMMA TypeOfWriterStep ==
  ASSUME TypeOK, NEW w \in Writers, WriterStep(w) PROVE TypeOK'
<1> USE NumbersAssumption
<1>1. ASSUME NEW k \in Keys \cup {NoKey}, NEW r \in Requests, RecordCall(w, k, r)
      PROVE  TypeOK'
  <2>1. writer' \in [Writers -> WriterState]
    <3>1. CASE KeyFree(k) /\ writer' = [writer EXCEPT ![w] =
                        [pc |-> "tx", key |-> k, request |-> r]]
      BY <3>1 DEF TypeOK, WriterState
    <3>2. ASSUME NEW row \in idem,
                 writer' = [writer EXCEPT ![w] =
                          [pc |-> "answer", key |-> k, request |-> r,
                           seq |-> row.seq]]
          PROVE  writer' \in [Writers -> WriterState]
      <4>1. row.seq \in Nat
        BY DEF TypeOK, IdemRow
      <4>2. [pc |-> "answer", key |-> k, request |-> r, seq |-> row.seq]
              \in WriterState
        BY <4>1 DEF WriterState
      <4> QED BY <3>2, <4>2 DEF TypeOK
    <3> QED BY <1>1, <3>1, <3>2 DEF RecordCall
  <2> QED BY <1>1, <2>1 DEF RecordCall, TypeOK
<1>2. CASE RecordTx(w)
  <2>1. /\ writer[w].key \in Keys \cup {NoKey}
        /\ writer[w].request \in Requests
    BY <1>2 DEF RecordTx, TypeOK, WriterState, IdleWriter
  <2>2. nextSeq' \in Nat \ {0} /\ events' \in SUBSET Event
    BY <1>2, <2>1 DEF RecordTx, TypeOK, Event
  <2>3. idem' \in SUBSET IdemRow
    BY <1>2, <2>1 DEF RecordTx, TypeOK, IdemRow
  <2>4. [pc |-> "answer", key |-> writer[w].key, request |-> writer[w].request,
         seq |-> nextSeq] \in WriterState
    BY <2>1 DEF WriterState, TypeOK
  <2>5. writer' \in [Writers -> WriterState]
    BY <1>2, <2>4 DEF RecordTx, TypeOK
  <2> QED BY <1>2, <2>2, <2>3, <2>5 DEF RecordTx, TypeOK
<1>3. CASE RecordConflict(w) \/ RecordEnd(w)
  BY <1>3 DEF RecordConflict, RecordEnd, TypeOK, WriterState
<1> QED BY <1>1, <1>2, <1>3 DEF WriterStep

LEMMA TypeOfPollerStep ==
  ASSUME TypeOK, NEW p \in Pollers, PollerStep(p) PROVE TypeOK'
<1> USE NumbersAssumption, StreamsAssumption
<1> DEFINE s == StreamOf[p]
<1>s. s \in Streams
  OBVIOUS
<1>r. receipts[s].acked \in Nat /\ receipts[s].delivered \in Nat
  BY <1>s DEF TypeOK, Receipt
<1>e. \A e \in events : e.seq \in Nat
  BY DEF TypeOK, Event
<1>1. CASE PollReadReceipt(p)
  <2>1. [pc |-> "snapshot", cursor |-> receipts[s].acked] \in PollState
    BY <1>r DEF PollState
  <2>2. poll' \in [Pollers -> PollState]
    BY <1>1, <2>1 DEF PollReadReceipt, TypeOK
  <2> QED BY <1>1, <2>2 DEF PollReadReceipt, TypeOK
<1>2. CASE PollReadSnapshot(p)
  <2>1. poll[p].cursor \in Nat
    BY <1>2 DEF PollReadSnapshot, TypeOK, PollState, IdlePoll
  <2>2. [pc |-> "rows", cursor |-> poll[p].cursor, snapshot |-> HighWater]
          \in PollState
    BY <2>1 DEF PollState, HighWater, TypeOK
  <2>3. poll' \in [Pollers -> PollState]
    BY <1>2, <2>2 DEF PollReadSnapshot, TypeOK
  <2> QED BY <1>2, <2>3 DEF PollReadSnapshot, TypeOK
<1>3. CASE PollReadRows(p)
  <2> DEFINE rows == Selected(s, poll[p].cursor, poll[p].snapshot)
             page == FirstOf(rows, Limit)
  <2>1. poll[p].cursor \in Nat /\ poll[p].snapshot \in Nat
    BY <1>3 DEF PollReadRows, TypeOK, PollState, IdlePoll
  <2>2. page \subseteq events
    BY DEF FirstOf, Selected
  <2>3. Visible(page) \in SUBSET Nat
    BY <1>e, <2>2 DEF Visible
  <2>4. PICK next \in NextCursors(rows, page, poll[p].snapshot) :
           poll' = [poll EXCEPT ![p] =
                      [pc |-> "tx", cursor |-> poll[p].cursor,
                       next |-> next, page |-> Visible(page)]]
    BY <1>3 DEF PollReadRows
  <2>5. next \in Nat
    BY <1>e, <2>1, <2>2 DEF NextCursors
  <2>6. [pc |-> "tx", cursor |-> poll[p].cursor, next |-> next,
         page |-> Visible(page)] \in PollState
    BY <2>1, <2>3, <2>5 DEF PollState
  <2>7. poll' \in [Pollers -> PollState]
    BY <2>4, <2>6 DEF TypeOK
  <2> QED BY <1>3, <2>7 DEF PollReadRows, TypeOK
<1>4. CASE PollTx(p)
  <2>1. /\ poll[p].cursor \in Nat /\ poll[p].next \in Nat
        /\ poll[p].page \in SUBSET Nat
    BY <1>4 DEF PollTx, TypeOK, PollState, IdlePoll
  <2>2. Delivered(receipts[s], poll[p].cursor, poll[p].next) \in Receipt
    <3>1. Larger(poll[p].cursor, poll[p].next) \in Nat
      BY <2>1, LargerIsNat
    <3>2. Larger(receipts[s].delivered, Larger(poll[p].cursor, poll[p].next))
            \in Nat
      BY <1>r, <3>1, LargerIsNat
    <3>3. receipts[s] \in Receipt
      BY <1>s DEF TypeOK
    <3> QED BY <2>1, <3>1, <3>2, <3>3 DEF Delivered, Receipt
  <2>3. receipts' \in [Streams -> Receipt]
    BY <1>4, <2>2 DEF PollTx, TypeOK
  <2>4. served' \in [Streams -> SUBSET Nat]
    BY <1>4, <2>1 DEF PollTx, TypeOK
  <2>5. poll' \in [Pollers -> PollState]
    <3>1. [poll[p] EXCEPT !.pc = "answer"] \in PollState
      BY <1>4 DEF PollTx, TypeOK, PollState, IdlePoll
    <3> QED BY <1>4, <3>1 DEF PollTx, TypeOK
  <2> QED BY <1>4, <2>3, <2>4, <2>5 DEF PollTx, TypeOK
<1>5. CASE PollAnswer(p)
  <2>1. poll[p].next \in Nat /\ poll[p].page \in SUBSET Nat
    BY <1>5 DEF PollAnswer, TypeOK, PollState, IdlePoll
  <2>2. /\ received' \in [Streams -> SUBSET Nat]
        /\ told' \in [Streams -> SUBSET Nat]
    BY <1>5, <2>1 DEF PollAnswer, TypeOK
  <2>3. poll' \in [Pollers -> PollState]
    BY <1>5 DEF PollAnswer, TypeOK, PollState
  <2> QED BY <1>5, <2>2, <2>3 DEF PollAnswer, TypeOK
<1>6. CASE PollCrash(p)
  <2>1. poll' \in [Pollers -> PollState]
    BY <1>6 DEF PollCrash, TypeOK, PollState
  <2> QED BY <1>6, <2>1 DEF PollCrash, TypeOK
<1> QED BY <1>1, <1>2, <1>3, <1>4, <1>5, <1>6 DEF PollerStep

LEMMA TypeOfTailCursors ==
  ASSUME TypeOK, NEW s PROVE TailCursors(s) \subseteq Nat
<1>1. ASSUME NEW n \in TailCursors(s), n # 0
      PROVE  \E e \in events : n = e.seq - 1
  BY <1>1 DEF TailCursors
<1>2. \A e \in events : e.seq - 1 \in Nat
  BY DEF TypeOK, Event
<1> QED BY <1>1, <1>2

LEMMA TypeOfFollowAnswer ==
  ASSUME TypeOK, NEW f \in Followers, NEW room \in 0..Limit,
         FollowAnswer(f, room)
  PROVE  TypeOK'
<1> DEFINE call == follow[f]
           rows == Selected(StreamOf[f], call.cursor, call.snapshot)
           page == FirstOf(rows, Limit)
           visible == {e \in page : e.seq \notin expired \cup call.known}
           rendered == Rendered(call, visible, room)
           numbers == {e.seq : e \in rendered}
<1>1. /\ call.cursor \in Nat /\ call.known \in SUBSET Nat
      /\ call.snapshot \in Nat
  BY DEF FollowAnswer, TypeOK, FollowState
<1>2. page \subseteq events /\ rendered \subseteq events
  BY DEF FirstOf, LastOf, Rendered, Selected
<1>3. \A e \in events : e.seq \in Nat
  BY DEF TypeOK, Event
<1>4. numbers \in SUBSET Nat
  BY <1>2, <1>3
<1>5. PICK next \in FollowNext(rows, page, visible, rendered, f) :
        follow' = [follow EXCEPT ![f] = [pc |-> "idle", held |-> next]]
  BY DEF FollowAnswer
<1>6. next \in Nat
  BY <1>1, <1>2, <1>3 DEF FollowNext, NextCursors
<1>7. follow' \in [Followers -> FollowState]
  BY <1>5, <1>6 DEF TypeOK, FollowState
<1>8. shown' = [shown EXCEPT ![f] = ShownNow(f, visible, rendered)]
  BY DEF FollowAnswer
<1> HIDE DEF rendered, visible
<1>9. ShownNow(f, visible, rendered) \in Shown
  <2>1. shown[f] \in Shown
    BY DEF TypeOK
  <2>2. shown[f].events \cup numbers \in SUBSET Nat
    BY <1>4, <2>1 DEF Shown
  <2> QED BY <1>1, <1>4, <2>1, <2>2 DEF ShownNow, Shown
<1>10. shown' \in [Followers -> Shown]
  BY <1>8, <1>9 DEF TypeOK
<1> QED BY <1>7, <1>10 DEF FollowAnswer, TypeOK

LEMMA TypeOfFollowerStep ==
  ASSUME TypeOK, NEW f \in Followers, FollowerStep(f) PROVE TypeOK'
<1>h. follow[f].held \in Nat
  BY DEF TypeOK, FollowState
<1>w. HighWater \in Nat
  BY DEF HighWater, TypeOK
<1>1. ASSUME NEW known \in SUBSET {e.seq : e \in events},
             BootstrapReadTail(f, known)
      PROVE  TypeOK'
  <2>1. PICK cursor \in TailCursors(StreamOf[f]) :
          follow' = [follow EXCEPT ![f] =
                       [pc |-> "tail", held |-> follow[f].held,
                        cursor |-> cursor, known |-> known]]
    BY <1>1 DEF BootstrapReadTail
  <2>2. cursor \in Nat /\ known \in SUBSET Nat
    BY TypeOfTailCursors DEF TypeOK, Event
  <2>3. follow' \in [Followers -> FollowState]
    BY <1>h, <2>1, <2>2 DEF TypeOK, FollowState
  <2> QED BY <1>1, <2>3 DEF BootstrapReadTail, TypeOK
<1>2. CASE BootstrapReadSnapshot(f)
  <2>1. follow[f].cursor \in Nat /\ follow[f].known \in SUBSET Nat
    BY <1>2 DEF BootstrapReadSnapshot, TypeOK, FollowState
  <2>2. follow' \in [Followers -> FollowState]
    BY <1>2, <1>h, <1>w, <2>1 DEF BootstrapReadSnapshot, TypeOK, FollowState
  <2> QED BY <1>2, <2>2 DEF BootstrapReadSnapshot, TypeOK
<1>3. CASE FollowReadSnapshot(f)
  <2>1. follow' \in [Followers -> FollowState]
    BY <1>3, <1>h, <1>w DEF FollowReadSnapshot, TypeOK, FollowState
  <2> QED BY <1>3, <2>1 DEF FollowReadSnapshot, TypeOK
<1>4. CASE FollowCrash(f)
  <2>1. follow' \in [Followers -> FollowState]
    BY <1>4, <1>h DEF FollowCrash, TypeOK, FollowState
  <2> QED BY <1>4, <2>1 DEF FollowCrash, TypeOK
<1> QED BY <1>1, <1>2, <1>3, <1>4, TypeOfFollowAnswer DEF FollowerStep

LEMMA TypeOfAcknowledge ==
  ASSUME TypeOK, NEW s \in Streams, NEW c \in AckInputs(s), Acknowledge(s, c)
  PROVE  TypeOK'
<1>1. c \in Nat
  BY NumbersAssumption DEF AckInputs, TypeOK
<1>2. [receipts[s] EXCEPT !.acked = c] \in Receipt
  BY <1>1 DEF TypeOK, Receipt
<1>3. receipts' \in [Streams -> Receipt]
  BY <1>2 DEF Acknowledge, TypeOK
<1> QED BY <1>3 DEF Acknowledge, TypeOK

LEMMA TypeStep == ASSUME TypeOK, [Next]_vars PROVE TypeOK'
<1>1. ASSUME NEW e \in events, Expire(e) PROVE TypeOK'
  BY <1>1 DEF Expire, TypeOK, Event
<1>2. CASE UNCHANGED vars
  BY <1>2 DEF vars, TypeOK
<1> QED BY <1>1, <1>2, TypeOfWriterStep, TypeOfPollerStep,
           TypeOfFollowerStep, TypeOfAcknowledge DEF Next

\* Every variable of the stream keeps its type: cursors are naturals, rows are
\* well formed, each process is at a known point of its call.
THEOREM TypeCorrect == Spec => []TypeOK
<1>1. Init => TypeOK
  <2>1. [events |-> {}, known |-> {}, after |-> 0, cut |-> {}] \in Shown
    BY DEF Shown
  <2>2. [pc |-> "idle", held |-> 0] \in FollowState
    BY DEF FollowState
  <2> QED BY <2>1, <2>2 DEF Init, TypeOK, FirstSeq, Receipt, WriterState,
                            IdleWriter, PollState, IdlePoll
<1>2. TypeOK /\ [Next]_vars => TypeOK'
  BY TypeStep
<1> QED BY <1>1, <1>2, PTL DEF Spec

-----------------------------------------------------------------------------
(* Pages                                                                   *)

\* Every selected row up to the next cursor is in the page.
LEMMA PageIsComplete ==
  ASSUME NEW rows, IsFiniteSet(rows), \A e \in rows : e.seq \in Nat,
         NEW snapshot, NEW next \in NextCursors(rows, FirstOf(rows, Limit), snapshot),
         NEW e \in rows, e.seq <= next
  PROVE  e \in FirstOf(rows, Limit)
<1> DEFINE page == FirstOf(rows, Limit)
           Before(d) == {c \in rows : c.seq < d.seq}
<1>1. SUFFICES ASSUME page # rows PROVE e \in page
  OBVIOUS
<1>2. PICK last \in page : next = last.seq
  BY <1>1 DEF NextCursors
<1>3. last \in rows /\ Cardinality(Before(last)) < Limit
  BY <1>2 DEF FirstOf
<1>4. Before(e) \subseteq Before(last)
  BY <1>2, <1>3
<1>5. IsFiniteSet(Before(last))
  BY FS_Subset
<1>6. /\ Cardinality(Before(last)) \in Nat
      /\ Cardinality(Before(e)) \in Nat
      /\ Cardinality(Before(e)) <= Cardinality(Before(last))
  BY <1>4, <1>5, FS_Subset, FS_CardinalityType
<1>7. Cardinality(Before(e)) < Limit
  BY <1>3, <1>6, NumbersAssumption
<1> QED BY <1>7 DEF FirstOf

-----------------------------------------------------------------------------
(* The log                                                                 *)

FiniteLog == IsFiniteSet(events)

LogInv == FiniteLog /\ LogGapless

\* No step but RecordTx touches the log.
LEMMA LogSteps ==
  ASSUME [Next]_vars
  PROVE  \/ UNCHANGED <<nextSeq, events, idem>>
         \/ \E w \in Writers : RecordTx(w)
BY DEF Next, vars, WriterStep, PollerStep, FollowerStep, RecordCall,
       RecordConflict, RecordEnd, Expire, PollReadReceipt, PollReadSnapshot,
       PollReadRows, PollTx, PollAnswer, PollCrash, Acknowledge,
       BootstrapReadTail, BootstrapReadSnapshot,
       FollowReadSnapshot, FollowAnswer, FollowCrash

LEMMA LogStep == TypeOK /\ LogInv /\ [Next]_vars => LogInv'
<1> SUFFICES ASSUME TypeOK, LogInv, [Next]_vars PROVE LogInv'
  OBVIOUS
<1>1. CASE UNCHANGED <<nextSeq, events, idem>>
  BY <1>1 DEF LogInv, FiniteLog, LogGapless, HighWater
<1>2. ASSUME NEW w \in Writers, RecordTx(w) PROVE LogInv'
  <2> DEFINE new == [seq |-> nextSeq, request |-> writer[w].request,
                     key |-> writer[w].key]
  <2>1. events' = events \cup {new} /\ nextSeq' = nextSeq + 1
    BY <1>2 DEF RecordTx
  <2>2. FiniteLog'
    BY <2>1, FS_AddElement DEF LogInv, FiniteLog
  <2>3. new.seq = nextSeq
    OBVIOUS
  <2> HIDE DEF new
  <2>4. nextSeq \in Nat \ {0}
    BY DEF TypeOK
  <2>5. \A e \in events : e.seq \in 1..(nextSeq - 1)
    BY DEF LogInv, LogGapless, HighWater
  <2>6. {e.seq : e \in events'} = 1..HighWater'
    <3>1. \A e \in events' : e.seq \in 1..nextSeq
      BY <2>1, <2>3, <2>4, <2>5
    <3>2. ASSUME NEW n \in 1..nextSeq PROVE \E e \in events' : e.seq = n
      <4>1. CASE n = nextSeq
        BY <4>1, <2>1, <2>3
      <4>2. CASE n \in 1..(nextSeq - 1)
        <5>1. n \in {e.seq : e \in events}
          BY <4>2 DEF LogInv, LogGapless, HighWater
        <5> QED BY <5>1, <2>1
      <4> QED BY <4>1, <4>2, <2>4
    <3>3. HighWater' = nextSeq
      BY <2>1, <2>4 DEF HighWater
    <3> QED BY <3>1, <3>2, <3>3
  <2>7. \A d, e \in events' : d.seq = e.seq => d = e
    BY <2>1, <2>3, <2>4, <2>5 DEF LogInv, LogGapless
  <2> QED BY <2>2, <2>6, <2>7 DEF LogInv, LogGapless
<1> QED BY <1>1, <1>2, LogSteps

LEMMA LogInvariant == Spec => []LogInv
<1>1. Init => LogInv
  <2> SUFFICES ASSUME Init PROVE LogInv
    OBVIOUS
  <2>1. FiniteLog
    BY FS_EmptySet DEF Init, FiniteLog
  <2>2. LogGapless
    BY DEF Init, LogGapless, HighWater, FirstSeq
  <2> QED BY <2>1, <2>2 DEF LogInv
<1> QED BY <1>1, LogStep, TypeCorrect, PTL DEF Spec

\* The events of a project are numbered 1, 2, ... without gap or duplicate,
\* whatever conflicts and crashes the writers meet.
THEOREM GaplessLog == Spec => []LogGapless
BY LogInvariant, PTL DEF LogInv

-----------------------------------------------------------------------------
(* Delivery                                                                *)

\* A receipt that does not exist reads as zeros.
ReceiptsInv ==
  /\ ReceiptsOrdered
  /\ \A s \in Streams : ~receipts[s].exists =>
       receipts[s].acked = 0 /\ receipts[s].delivered = 0

\* What a poll in progress knows: its cursor was acknowledged when it read it,
\* its snapshot is not ahead of the log, and its page has every unexpired
\* matching event between the two cursors it goes by.
PollSound(p) ==
  LET s == StreamOf[p]
  IN  /\ poll[p].pc # "idle" => poll[p].cursor <= receipts[s].acked
      /\ poll[p].pc = "rows" => poll[p].snapshot <= HighWater
      /\ poll[p].pc \in {"tx", "answer"} =>
           /\ poll[p].next <= HighWater
           /\ \A e \in events :
                /\ Matches(s, e.request)
                /\ poll[p].cursor < e.seq /\ e.seq <= poll[p].next
                => e.seq \in poll[p].page \cup expired

PollsSound == \A p \in Pollers : PollSound(p)

DeliveryInv == ReceiptsInv /\ PollsSound /\ NoEventSkipped

\* The receipts only grow, the log only grows, and an event it gains is
\* numbered next after the old high-water mark.
LEMMA LogGrows ==
  ASSUME TypeOK, LogInv, [Next]_vars
  PROVE  /\ HighWater <= HighWater'
         /\ \A e \in events' : e \notin events => e.seq = HighWater + 1
         /\ \A e \in events : e.seq <= HighWater
<1>1. \A e \in events : e.seq <= HighWater
  BY DEF LogInv, LogGapless
<1>2. CASE UNCHANGED <<nextSeq, events, idem>>
  BY <1>1, <1>2 DEF HighWater, TypeOK
<1>3. ASSUME NEW w \in Writers, RecordTx(w)
      PROVE  /\ HighWater <= HighWater'
             /\ \A e \in events' : e \notin events => e.seq = HighWater + 1
  BY <1>3 DEF RecordTx, HighWater, TypeOK
<1> QED BY <1>1, <1>2, <1>3, LogSteps

LEMMA ExpiredGrows ==
  ASSUME [Next]_vars PROVE expired \subseteq expired'
BY DEF Next, vars, WriterStep, PollerStep, FollowerStep, RecordCall, RecordTx,
       RecordConflict, RecordEnd, Expire, PollReadReceipt, PollReadSnapshot,
       PollReadRows, PollTx, PollAnswer, PollCrash, Acknowledge,
       BootstrapReadTail, BootstrapReadSnapshot,
       FollowReadSnapshot, FollowAnswer, FollowCrash

\* Events below the high-water mark do not change: what is pending below it
\* stays pending, and nothing joins.
LEMMA PendingStable ==
  ASSUME TypeOK, LogInv, [Next]_vars, NEW s, NEW n \in Nat, n <= HighWater
  PROVE  Pending(s, n)' \subseteq Pending(s, n)
<1> SUFFICES ASSUME NEW e \in events', Matches(s, e.request), e.seq <= n
             PROVE  e \in Pending(s, n)
  BY DEF Pending
<1>1. e \in events
  BY LogGrows DEF TypeOK, HighWater
<1> QED BY <1>1 DEF Pending

LEMMA PollSoundStable ==
  ASSUME TypeOK, LogInv, [Next]_vars, NEW p \in Pollers, PollSound(p),
         poll'[p] = poll[p],
         receipts[StreamOf[p]].acked <= receipts'[StreamOf[p]].acked
  PROVE  PollSound(p)'
<1> USE StreamsAssumption
<1> DEFINE s == StreamOf[p]
<1>0. s \in Streams
  OBVIOUS
<1>1. HighWater \in Nat /\ HighWater' \in Nat /\ HighWater <= HighWater'
  BY TypeStep, LogGrows DEF TypeOK, HighWater
<1>2. receipts[s].acked \in Nat /\ receipts'[s].acked \in Nat
  BY <1>0, TypeStep DEF TypeOK, Receipt
<1>3. poll[p].pc # "idle" => poll[p].cursor \in Nat
  BY DEF TypeOK, PollState, IdlePoll
<1>4. poll[p].pc = "rows" => poll[p].snapshot \in Nat
  BY DEF TypeOK, PollState, IdlePoll
<1>5. poll[p].pc \in {"tx", "answer"} => poll[p].next \in Nat
  BY DEF TypeOK, PollState, IdlePoll
<1>6. poll'[p].pc # "idle" => poll'[p].cursor <= receipts'[s].acked
  BY <1>2, <1>3 DEF PollSound
<1>7. poll'[p].pc = "rows" => poll'[p].snapshot <= HighWater'
  BY <1>1, <1>4 DEF PollSound
<1>8. poll'[p].pc \in {"tx", "answer"} => poll'[p].next <= HighWater'
  BY <1>1, <1>5 DEF PollSound
<1>9. ASSUME poll'[p].pc \in {"tx", "answer"}, NEW e \in events',
             Matches(s, e.request),
             poll'[p].cursor < e.seq, e.seq <= poll'[p].next
      PROVE  e.seq \in poll'[p].page \cup expired'
  <2>1. poll[p].next <= HighWater /\ poll[p].next \in Nat
    BY <1>5, <1>9 DEF PollSound
  <2>2. e \in events
    BY <1>1, <1>9, <2>1, LogGrows
  <2> QED BY <1>9, <2>2, ExpiredGrows DEF PollSound
<1> QED BY <1>6, <1>7, <1>8, <1>9 DEF PollSound

\* What was handed out up to n, or had expired, still is after any step.
LEMMA CoverStable ==
  ASSUME TypeOK, LogInv, [Next]_vars, NEW s, NEW n \in Nat, n <= HighWater,
         NEW S, NEW T, S \subseteq T,
         \A e \in Pending(s, n) : e.seq \in S \cup expired
  PROVE  \A e \in events' : Matches(s, e.request) /\ e.seq <= n
           => e.seq \in T \cup expired'
<1> SUFFICES ASSUME NEW e \in events', Matches(s, e.request), e.seq <= n
             PROVE  e.seq \in T \cup expired'
  OBVIOUS
<1>1. e \in events
  BY LogGrows DEF TypeOK, HighWater
<1> QED BY <1>1, ExpiredGrows DEF Pending

LEMMA ReceiptsUntouched ==
  ASSUME TypeOK, LogInv, DeliveryInv, [Next]_vars,
         receipts' = receipts, served' = served
  PROVE  ReceiptsInv' /\ NoEventSkipped'
<1>1. HighWater \in Nat /\ HighWater' \in Nat /\ HighWater <= HighWater'
  BY TypeStep, LogGrows DEF TypeOK, HighWater
<1>2. \A s \in Streams : receipts[s] \in Receipt
  BY DEF TypeOK
<1>3. ReceiptsInv'
  <2> SUFFICES ASSUME NEW s \in Streams
               PROVE  /\ receipts[s].acked <= receipts[s].delivered
                      /\ receipts[s].delivered <= HighWater'
                      /\ ~receipts[s].exists => receipts[s].acked = 0
                                                /\ receipts[s].delivered = 0
    BY DEF ReceiptsInv, ReceiptsOrdered
  <2> QED BY <1>1, <1>2 DEF DeliveryInv, ReceiptsInv, ReceiptsOrdered, Receipt
<1>4. NoEventSkipped'
  <2> SUFFICES ASSUME NEW s \in Streams
               PROVE  \A e \in events' :
                        /\ Matches(s, e.request)
                        /\ e.seq <= receipts[s].delivered
                        => e.seq \in served[s] \cup expired'
    BY DEF NoEventSkipped, Pending
  <2>1. /\ receipts[s].delivered \in Nat
        /\ receipts[s].delivered <= HighWater
    BY <1>2 DEF DeliveryInv, ReceiptsInv, ReceiptsOrdered, Receipt
  <2> QED BY <2>1, CoverStable DEF DeliveryInv, NoEventSkipped
<1> QED BY <1>3, <1>4

LEMMA DeliveryOfPollerStep ==
  ASSUME TypeOK, LogInv, DeliveryInv, [Next]_vars, NEW p \in Pollers,
         PollerStep(p)
  PROVE  DeliveryInv'
<1> USE StreamsAssumption
<1> DEFINE s == StreamOf[p]
<1>s. s \in Streams
  OBVIOUS
<1>t. TypeOK' /\ LogInv'
  BY TypeStep, LogStep
<1>h. HighWater \in Nat
  BY DEF TypeOK, HighWater
<1>r. \A q \in Streams : /\ receipts[q].acked \in Nat
                          /\ receipts[q].delivered \in Nat
                          /\ receipts[q].acked <= receipts[q].delivered
                          /\ receipts[q].delivered <= HighWater
  BY DEF TypeOK, Receipt, DeliveryInv, ReceiptsInv, ReceiptsOrdered
<1>o. ASSUME receipts' = receipts, NEW q \in Pollers, poll'[q] = poll[q]
      PROVE  PollSound(q)'
  BY <1>o, <1>r, PollSoundStable DEF DeliveryInv, PollsSound
<1>1. ASSUME receipts' = receipts, served' = served,
             NEW new, poll' = [poll EXCEPT ![p] = new], PollSound(p)'
      PROVE  DeliveryInv'
  <2>1. \A q \in Pollers : q # p => poll'[q] = poll[q]
    BY <1>1
  <2> QED BY <1>1, <1>o, <2>1, ReceiptsUntouched DEF DeliveryInv, PollsSound
<1>2. CASE PollReadReceipt(p)
  <2>1. poll'[p] = [pc |-> "snapshot", cursor |-> receipts[s].acked]
    BY <1>2 DEF PollReadReceipt, TypeOK
  <2>2. PollSound(p)'
    BY <1>2, <1>r, <2>1 DEF PollSound, PollReadReceipt
  <2> QED BY <1>1, <1>2, <2>2 DEF PollReadReceipt
<1>3. CASE PollReadSnapshot(p)
  <2>1. poll'[p] = [pc |-> "rows", cursor |-> poll[p].cursor,
                    snapshot |-> HighWater]
    BY <1>3 DEF PollReadSnapshot, TypeOK
  <2>2. poll[p].cursor <= receipts[s].acked
    BY <1>3 DEF PollReadSnapshot, DeliveryInv, PollsSound, PollSound
  <2>3. HighWater' = HighWater /\ receipts' = receipts
    BY <1>3 DEF PollReadSnapshot, HighWater
  <2>4. PollSound(p)'
    BY <1>h, <2>1, <2>2, <2>3 DEF PollSound
  <2> QED BY <1>1, <1>3, <2>4 DEF PollReadSnapshot
<1>4. CASE PollReadRows(p)
  <2> DEFINE c == poll[p].cursor
             rows == Selected(s, c, poll[p].snapshot)
             page == FirstOf(rows, Limit)
  <2>1. PICK next \in NextCursors(rows, page, poll[p].snapshot) :
           poll' = [poll EXCEPT ![p] =
                      [pc |-> "tx", cursor |-> c,
                       next |-> next, page |-> Visible(page)]]
    BY <1>4 DEF PollReadRows
  <2>2. poll'[p] = [pc |-> "tx", cursor |-> c, next |-> next,
                    page |-> Visible(page)]
    BY <2>1 DEF TypeOK
  <2>3. c <= receipts[s].acked /\ poll[p].snapshot <= HighWater
    BY <1>4 DEF PollReadRows, DeliveryInv, PollsSound, PollSound
  <2>4. c \in Nat /\ poll[p].snapshot \in Nat
    BY <1>4 DEF PollReadRows, TypeOK, PollState, IdlePoll
  <2>5. /\ \A e \in rows : e.seq \in Nat /\ e.seq <= poll[p].snapshot
        /\ IsFiniteSet(rows)
    <3>1. rows \subseteq events
      BY DEF Selected
    <3> QED BY <3>1, FS_Subset DEF Selected, TypeOK, Event, LogInv, FiniteLog
  <2>6. next <= poll[p].snapshot /\ next \in Nat
    <3>1. CASE page = rows
      BY <2>4, <3>1 DEF NextCursors
    <3>2. CASE page # rows
      BY <2>5, <3>2 DEF NextCursors, FirstOf
    <3> QED BY <3>1, <3>2
  <2>7. UNCHANGED <<events, expired, receipts, served, nextSeq>>
    BY <1>4 DEF PollReadRows
  <2>8. ASSUME NEW e \in events, Matches(s, e.request), c < e.seq, e.seq <= next
        PROVE  e.seq \in Visible(page) \cup expired
    <3>1. e.seq <= poll[p].snapshot
      BY <2>4, <2>6, <2>8 DEF TypeOK, Event
    <3>2. e \in rows
      BY <2>8, <3>1 DEF Selected
    <3>3. e \in page
      BY <2>5, <2>8, <3>2, PageIsComplete
    <3> QED BY <3>3 DEF Visible
  <2>9. next <= HighWater
    BY <1>h, <2>3, <2>4, <2>6
  <2>10. PollSound(p)'
    BY <2>2, <2>3, <2>7, <2>8, <2>9 DEF PollSound, HighWater
  <2> QED BY <1>1, <2>1, <2>7, <2>10
<1>5. CASE PollTx(p)
  <2> DEFINE c == poll[p].cursor
             d == receipts[s].delivered
             n == poll[p].next
  <2>1. /\ c \in Nat /\ n \in Nat /\ poll[p].page \in SUBSET Nat
        /\ poll[p].pc = "tx"
    BY <1>5 DEF PollTx, TypeOK, PollState, IdlePoll
  <2>2. /\ c <= receipts[s].acked /\ n <= HighWater
        /\ \A e \in events : Matches(s, e.request) /\ c < e.seq /\ e.seq <= n
             => e.seq \in poll[p].page \cup expired
    BY <2>1 DEF DeliveryInv, PollsSound, PollSound
  <2>3. /\ receipts'[s] = Delivered(receipts[s], c, n)
        /\ served'[s] = served[s] \cup poll[p].page
        /\ \A q \in Streams \ {s} : /\ receipts'[q] = receipts[q]
                                     /\ served'[q] = served[q]
        /\ UNCHANGED <<events, expired, nextSeq>>
    BY <1>5, <1>s DEF PollTx, TypeOK
  <2>4. /\ receipts'[s].exists
        /\ receipts'[s].acked = receipts[s].acked
        /\ receipts'[s].delivered = Larger(d, Larger(c, n))
    <3>1. CASE receipts[s].exists
      BY <1>s, <2>3, <3>1 DEF Delivered, TypeOK, Receipt
    <3>2. CASE ~receipts[s].exists
      <4>1. receipts[s].acked = 0 /\ d = 0
        BY <1>s, <3>2 DEF DeliveryInv, ReceiptsInv
      <4>2. c = 0
        BY <2>1, <2>2, <4>1
      <4> QED BY <2>1, <2>3, <3>2, <4>1, <4>2 DEF Delivered, Larger
    <3> QED BY <3>1, <3>2
  <2>5. /\ d <= Larger(d, Larger(c, n)) /\ Larger(d, Larger(c, n)) <= HighWater
        /\ Larger(d, Larger(c, n)) \in {d, n}
    BY <1>s, <1>r, <1>h, <2>1, <2>2 DEF Larger
  <2>6. HighWater' = HighWater
    BY <2>3 DEF HighWater
  <2>7. ReceiptsInv'
    <3> SUFFICES ASSUME NEW q \in Streams
                 PROVE  /\ receipts'[q].acked <= receipts'[q].delivered
                        /\ receipts'[q].delivered <= HighWater'
                        /\ ~receipts'[q].exists => receipts'[q].acked = 0
                                                /\ receipts'[q].delivered = 0
      BY DEF ReceiptsInv, ReceiptsOrdered
    <3>1. CASE q = s
      BY <1>r, <1>h, <2>1, <2>4, <2>5, <2>6, <3>1
    <3>2. CASE q # s
      BY <1>r, <2>3, <2>6, <3>2 DEF DeliveryInv, ReceiptsInv
    <3> QED BY <3>1, <3>2
  <2>8. NoEventSkipped'
    <3> SUFFICES ASSUME NEW q \in Streams, NEW e \in events,
                        Matches(q, e.request), e.seq <= receipts'[q].delivered
                 PROVE  e.seq \in served'[q] \cup expired
      BY <2>3 DEF NoEventSkipped, Pending
    <3>0. e.seq \in Nat
      BY DEF TypeOK, Event
    <3>1. CASE q # s
      BY <2>3, <3>1 DEF DeliveryInv, NoEventSkipped, Pending
    <3>2. CASE q = s /\ e.seq <= d
      BY <1>s, <2>3, <3>2 DEF DeliveryInv, NoEventSkipped, Pending
    <3>3. CASE q = s /\ d < e.seq
      <4>1. e.seq <= n /\ c < e.seq
        BY <1>r, <1>s, <2>1, <2>2, <2>4, <2>5, <3>0, <3>3
      <4> QED BY <2>2, <2>3, <3>3, <4>1
    <3> QED BY <1>r, <1>s, <3>0, <3>1, <3>2, <3>3
  <2>9. PollsSound'
    <3>1. \A q \in Pollers : receipts[StreamOf[q]].acked
                                 <= receipts'[StreamOf[q]].acked
      <4> TAKE q \in Pollers
      <4>1. receipts'[StreamOf[q]].acked = receipts[StreamOf[q]].acked
        BY <2>3, <2>4
      <4> QED BY <1>r, <4>1
    <3>2. \A q \in Pollers : q # p => PollSound(q)'
      BY <1>5, <3>1, PollSoundStable DEF PollTx, DeliveryInv, PollsSound
    <3>3. /\ poll'[p].pc = "answer" /\ poll'[p].cursor = c
          /\ poll'[p].next = n /\ poll'[p].page = poll[p].page
      <4>1. poll[p] \in [pc : {"tx", "answer"}, cursor : Nat, next : Nat,
                         page : SUBSET Nat]
        BY <2>1 DEF TypeOK, PollState, IdlePoll
      <4> QED BY <1>5, <4>1 DEF PollTx, TypeOK
    <3>4. PollSound(p)'
      BY <2>2, <2>3, <2>4, <2>6, <3>3 DEF PollSound
    <3> QED BY <3>2, <3>4 DEF PollsSound
  <2> QED BY <2>7, <2>8, <2>9 DEF DeliveryInv
<1>6. CASE PollAnswer(p) \/ PollCrash(p)
  <2>1. poll' = [poll EXCEPT ![p] = IdlePoll] /\ receipts' = receipts
        /\ served' = served
    BY <1>6 DEF PollAnswer, PollCrash
  <2>2. PollSound(p)'
    BY <2>1 DEF PollSound, IdlePoll, TypeOK
  <2> QED BY <1>1, <2>1, <2>2
<1> QED BY <1>2, <1>3, <1>4, <1>5, <1>6 DEF PollerStep

LEMMA DeliveryStep == TypeOK /\ LogInv /\ DeliveryInv /\ [Next]_vars => DeliveryInv'
<1> SUFFICES ASSUME TypeOK, LogInv, DeliveryInv, [Next]_vars PROVE DeliveryInv'
  OBVIOUS
<1>r. \A q \in Streams : /\ receipts[q].acked \in Nat
                          /\ receipts[q].delivered \in Nat
                          /\ receipts[q].acked <= receipts[q].delivered
                          /\ receipts[q].delivered <= HighWater
  BY DEF TypeOK, Receipt, DeliveryInv, ReceiptsInv, ReceiptsOrdered
<1>1. CASE UNCHANGED <<receipts, poll, served>>
  <2>1. PollsSound'
    BY <1>1, <1>r, PollSoundStable, StreamsAssumption DEF DeliveryInv, PollsSound
  <2> QED BY <1>1, <2>1, ReceiptsUntouched DEF DeliveryInv
<1>2. ASSUME NEW s \in Streams, NEW c \in AckInputs(s), Acknowledge(s, c)
      PROVE  DeliveryInv'
  <2>1. /\ receipts[s].acked <= c /\ c <= receipts[s].delivered
        /\ receipts[s].exists
        /\ receipts'[s] = [receipts[s] EXCEPT !.acked = c]
        /\ \A q \in Streams \ {s} : receipts'[q] = receipts[q]
        /\ UNCHANGED <<nextSeq, events, expired, poll, served>>
    BY <1>2 DEF Acknowledge, MayAcknowledge, TypeOK
  <2>2. /\ receipts'[s].acked = c /\ receipts'[s].exists
        /\ receipts'[s].delivered = receipts[s].delivered
    BY <2>1 DEF TypeOK, Receipt
  <2>3. ReceiptsInv'
    BY <1>r, <2>1, <2>2 DEF DeliveryInv, ReceiptsInv, ReceiptsOrdered, HighWater
  <2>4. NoEventSkipped'
    BY <2>1, <2>2 DEF DeliveryInv, NoEventSkipped, Pending
  <2>5. \A q \in Pollers : receipts[StreamOf[q]].acked
                               <= receipts'[StreamOf[q]].acked
    <3> TAKE q \in Pollers
    <3>1. StreamOf[q] \in Streams
      BY StreamsAssumption
    <3>2. CASE StreamOf[q] = s
      BY <2>1, <2>2, <3>2
    <3>3. CASE StreamOf[q] # s
      BY <1>r, <2>1, <3>1, <3>3
    <3> QED BY <3>2, <3>3
  <2>6. PollsSound'
    BY <2>1, <2>5, PollSoundStable DEF DeliveryInv, PollsSound
  <2> QED BY <2>3, <2>4, <2>6 DEF DeliveryInv
<1>3. ASSUME NEW w \in Writers, WriterStep(w) PROVE UNCHANGED <<receipts, poll, served>>
  BY <1>3 DEF WriterStep, RecordCall, RecordTx, RecordConflict, RecordEnd
<1>4. ASSUME NEW f \in Followers, FollowerStep(f)
      PROVE  UNCHANGED <<receipts, poll, served>>
  BY <1>4 DEF FollowerStep, BootstrapReadTail, BootstrapReadSnapshot,
       FollowReadSnapshot, FollowAnswer, FollowCrash
<1>5. ASSUME NEW e \in events, Expire(e) PROVE UNCHANGED <<receipts, poll, served>>
  BY <1>5 DEF Expire
<1> QED BY <1>1, <1>2, <1>3, <1>4, <1>5, DeliveryOfPollerStep DEF Next, vars

LEMMA DeliveryInvariant == Spec => []DeliveryInv
<1>1. Init => DeliveryInv
  BY DEF Init, DeliveryInv, ReceiptsInv, ReceiptsOrdered, PollsSound, PollSound,
         NoEventSkipped, Pending, IdlePoll, HighWater, FirstSeq
<1> QED BY <1>1, DeliveryStep, TypeCorrect, LogInvariant, PTL DEF Spec

\* The delivered cursor of a receipt never covers a matching event that was
\* neither in the page of a committed poll nor has expired.
THEOREM NothingSkipped == Spec => []NoEventSkipped
BY DeliveryInvariant, PTL DEF DeliveryInv

\* The two cursors of a receipt and the high-water mark stay in order.
THEOREM OrderedReceipts == Spec => []ReceiptsOrdered
BY DeliveryInvariant, PTL DEF DeliveryInv, ReceiptsInv

\* A step changes a receipt in a poll's transaction or in an acknowledgement.
LEMMA ReceiptSteps ==
  ASSUME [Next]_vars
  PROVE  \/ receipts' = receipts
         \/ \E p \in Pollers : PollTx(p)
         \/ \E s \in Streams : \E c \in AckInputs(s) : Acknowledge(s, c)
BY DEF Next, vars, WriterStep, PollerStep, FollowerStep, RecordCall, RecordTx,
       RecordConflict, RecordEnd, Expire, PollReadReceipt, PollReadSnapshot,
       PollReadRows, PollAnswer, PollCrash,
       BootstrapReadTail, BootstrapReadSnapshot,
       FollowReadSnapshot, FollowAnswer, FollowCrash

\* A poll's transaction leaves the acknowledged cursor and may only raise the
\* delivered one, whether it inserts the receipt or updates it.
LEMMA PollTxReceipt ==
  ASSUME TypeOK, DeliveryInv, NEW p \in Pollers, PollTx(p),
         StreamOf[p] \in Streams
  PROVE  /\ receipts'[StreamOf[p]].acked = receipts[StreamOf[p]].acked
         /\ receipts[StreamOf[p]].delivered <= receipts'[StreamOf[p]].delivered
<1> DEFINE s == StreamOf[p]
           c == poll[p].cursor
           n == poll[p].next
<1>1. c \in Nat /\ n \in Nat /\ poll[p].pc = "tx"
  BY DEF PollTx, TypeOK, PollState, IdlePoll
<1>2. c <= receipts[s].acked
  BY <1>1 DEF DeliveryInv, PollsSound, PollSound
<1>3. receipts[s] \in Receipt /\ receipts[s].delivered \in Nat
  BY DEF TypeOK, Receipt
<1>4. receipts'[s] = Delivered(receipts[s], c, n)
  BY DEF PollTx, TypeOK
<1>5. CASE receipts[s].exists
  <2>1. /\ receipts'[s].acked = receipts[s].acked
        /\ receipts'[s].delivered = Larger(receipts[s].delivered, Larger(c, n))
    BY <1>3, <1>4, <1>5 DEF Delivered, Receipt
  <2> QED BY <1>1, <1>3, <2>1 DEF Larger
<1>6. CASE ~receipts[s].exists
  <2>1. receipts[s].acked = 0 /\ receipts[s].delivered = 0
    BY <1>6 DEF DeliveryInv, ReceiptsInv
  <2> QED BY <1>1, <1>2, <1>4, <1>6, <2>1 DEF Delivered, Larger
<1> QED BY <1>5, <1>6

\* Neither cursor of a receipt ever moves back.
THEOREM CursorsOnlyAdvance == Spec => CursorsNeverRetreat
<1> DEFINE Forward(s) == /\ receipts[s].acked <= receipts'[s].acked
                         /\ receipts[s].delivered <= receipts'[s].delivered
<1>1. TypeOK /\ DeliveryInv /\ [Next]_vars
        => [\A s \in Streams : Forward(s)]_vars
  <2> SUFFICES ASSUME TypeOK, DeliveryInv, [Next]_vars, NEW s \in Streams
               PROVE  Forward(s)
    OBVIOUS
  <2>r. /\ receipts[s].acked \in Nat /\ receipts[s].delivered \in Nat
        /\ receipts[s] \in Receipt
    BY DEF TypeOK, Receipt
  <2>1. CASE receipts' = receipts
    BY <2>1, <2>r
  <2>2. ASSUME NEW p \in Pollers, PollTx(p) PROVE Forward(s)
    <3>1. CASE s # StreamOf[p]
      BY <2>2, <2>r, <3>1 DEF PollTx, TypeOK
    <3>2. CASE s = StreamOf[p]
      BY <2>2, <2>r, <3>2, PollTxReceipt
    <3> QED BY <3>1, <3>2
  <2>3. ASSUME NEW q \in Streams, NEW c \in AckInputs(q), Acknowledge(q, c)
        PROVE  Forward(s)
    <3>1. CASE s = q
      BY <2>3, <2>r, <3>1 DEF Acknowledge, MayAcknowledge, TypeOK, Receipt
    <3>2. CASE s # q
      BY <2>3, <2>r, <3>2 DEF Acknowledge, TypeOK
    <3> QED BY <3>1, <3>2
  <2> QED BY <2>1, <2>2, <2>3, ReceiptSteps
<1> QED BY <1>1, TypeCorrect, DeliveryInvariant, PTL DEF Spec, CursorsNeverRetreat

-----------------------------------------------------------------------------
(* Idempotency                                                             *)

\* The idempotency table is the log's keyed part: one row per keyed event, one
\* event per row, and a writer about to answer answers with its own event.
KeyInv == OneEventPerKey /\ AnswerIsTheEvent

LEMMA KeyStep == TypeOK /\ LogInv /\ KeyInv /\ [Next]_vars => KeyInv'
<1> SUFFICES ASSUME TypeOK, LogInv, KeyInv, [Next]_vars PROVE KeyInv'
  OBVIOUS
<1>1. CASE UNCHANGED <<events, idem, writer>>
  BY <1>1 DEF KeyInv, OneEventPerKey, AnswerIsTheEvent
<1>2. ASSUME NEW w \in Writers, NEW k \in Keys \cup {NoKey},
             NEW r \in Requests, RecordCall(w, k, r)
      PROVE  KeyInv'
  <2>1. UNCHANGED <<events, idem>>
    BY <1>2 DEF RecordCall
  <2>2. OneEventPerKey'
    BY <2>1 DEF KeyInv, OneEventPerKey
  <2>3. ASSUME NEW v \in Writers, writer'[v].pc = "answer"
        PROVE  [seq |-> writer'[v].seq, request |-> writer'[v].request,
                key |-> writer'[v].key] \in events
    <3>1. CASE v # w
      BY <1>2, <2>3, <3>1 DEF RecordCall, TypeOK, KeyInv, AnswerIsTheEvent
    <3>2. CASE v = w
      <4>1. PICK row \in idem :
              /\ row.key = k /\ row.request = r
              /\ writer' = [writer EXCEPT ![w] =
                          [pc |-> "answer", key |-> k, request |-> r,
                           seq |-> row.seq]]
        BY <1>2, <2>3, <3>2 DEF RecordCall, Replays, TypeOK
      <4>2. writer'[v] = [pc |-> "answer", key |-> k, request |-> r,
                          seq |-> row.seq]
        BY <3>2, <4>1 DEF TypeOK
      <4>3. [seq |-> row.seq, request |-> row.request, key |-> row.key] \in events
        BY DEF KeyInv, OneEventPerKey
      <4> QED BY <4>1, <4>2, <4>3
    <3> QED BY <3>1, <3>2
  <2> QED BY <2>1, <2>2, <2>3 DEF KeyInv, AnswerIsTheEvent
<1>3. ASSUME NEW w \in Writers, RecordTx(w) PROVE KeyInv'
  <2> DEFINE k == writer[w].key
             r == writer[w].request
             new == [seq |-> nextSeq, request |-> r, key |-> k]
             row == [key |-> k, request |-> r, seq |-> nextSeq]
  <2>1. /\ events' = events \cup {new}
        /\ idem' = IF k = NoKey THEN idem ELSE idem \cup {row}
        /\ \A q \in idem : q.key # k
        /\ writer' = [writer EXCEPT ![w] = [pc |-> "answer", key |-> k,
                                            request |-> r, seq |-> nextSeq]]
    BY <1>3 DEF RecordTx, KeyFree
  <2>2. k # NoKey => \A e \in events : e.key # k
    <3> SUFFICES ASSUME k # NoKey, NEW e \in events, e.key = k PROVE FALSE
      OBVIOUS
    <3>1. PICK q \in idem : q.seq = e.seq
      BY DEF KeyInv, OneEventPerKey
    <3>2. PICK d \in events : d = [seq |-> q.seq, request |-> q.request,
                                  key |-> q.key]
      BY DEF KeyInv, OneEventPerKey
    <3>3. d = e
      BY <3>1, <3>2 DEF LogInv, LogGapless
    <3> QED BY <2>1, <3>2, <3>3
  <2>3. \A d, e \in events' : d.key = e.key /\ d.key # NoKey => d = e
    BY <2>1, <2>2 DEF KeyInv, OneEventPerKey
  <2>4. \A q \in idem' : [seq |-> q.seq, request |-> q.request,
                          key |-> q.key] \in events'
    <3> SUFFICES ASSUME NEW q \in idem'
                 PROVE  [seq |-> q.seq, request |-> q.request,
                         key |-> q.key] \in events'
      OBVIOUS
    <3>1. CASE q \in idem
      BY <2>1, <3>1 DEF KeyInv, OneEventPerKey
    <3>2. CASE q = row
      BY <2>1, <3>2
    <3> QED BY <2>1, <3>1, <3>2
  <2>5. \A e \in events' : e.key # NoKey => \E q \in idem' : q.seq = e.seq
    <3> SUFFICES ASSUME NEW e \in events', e.key # NoKey
                 PROVE  \E q \in idem' : q.seq = e.seq
      OBVIOUS
    <3>1. CASE e \in events
      BY <2>1, <3>1 DEF KeyInv, OneEventPerKey
    <3>2. CASE e = new
      <4>1. row \in idem' /\ row.seq = e.seq
        BY <2>1, <3>2
      <4> QED BY <4>1
    <3> QED BY <2>1, <3>1, <3>2
  <2>6. AnswerIsTheEvent'
    <3> SUFFICES ASSUME NEW v \in Writers, writer'[v].pc = "answer"
                 PROVE  [seq |-> writer'[v].seq,
                         request |-> writer'[v].request,
                         key |-> writer'[v].key] \in events'
      BY DEF AnswerIsTheEvent
    <3>1. CASE v = w
      BY <2>1, <3>1 DEF TypeOK
    <3>2. CASE v # w
      BY <2>1, <3>2 DEF TypeOK, KeyInv, AnswerIsTheEvent
    <3> QED BY <3>1, <3>2
  <2> QED BY <2>3, <2>4, <2>5, <2>6 DEF KeyInv, OneEventPerKey
<1>4. ASSUME NEW w \in Writers, RecordConflict(w) \/ RecordEnd(w)
      PROVE  KeyInv'
  <2>1. UNCHANGED <<events, idem>> /\ writer' = [writer EXCEPT ![w] = IdleWriter]
    BY <1>4 DEF RecordConflict, RecordEnd
  <2>2. AnswerIsTheEvent'
    BY <2>1 DEF TypeOK, IdleWriter, KeyInv, AnswerIsTheEvent
  <2> QED BY <2>1, <2>2 DEF KeyInv, OneEventPerKey
<1>5. ASSUME NEW p \in Pollers, PollerStep(p)
      PROVE UNCHANGED <<events, idem, writer>>
  BY <1>5 DEF PollerStep, PollReadReceipt, PollReadSnapshot, PollReadRows,
              PollTx, PollAnswer, PollCrash
<1>6. ASSUME NEW f \in Followers, FollowerStep(f)
      PROVE UNCHANGED <<events, idem, writer>>
  BY <1>6 DEF FollowerStep, BootstrapReadTail, BootstrapReadSnapshot,
       FollowReadSnapshot, FollowAnswer, FollowCrash
<1> QED BY <1>1, <1>2, <1>3, <1>4, <1>5, <1>6
        DEF Next, vars, WriterStep, Expire, Acknowledge

LEMMA KeyInvariant == Spec => []KeyInv
<1>1. Init => KeyInv
  BY DEF Init, KeyInv, OneEventPerKey, AnswerIsTheEvent, IdleWriter
<1> QED BY <1>1, KeyStep, TypeCorrect, LogInvariant, PTL DEF Spec

\* A key has at most one event, and its stored response is that event's.
THEOREM AtMostOncePerKey == Spec => []OneEventPerKey
BY KeyInvariant, PTL DEF KeyInv

\* Whoever is answered is answered with the event its own request created.
THEOREM AnswersAreFaithful == Spec => []AnswerIsTheEvent
BY KeyInvariant, PTL DEF KeyInv

-----------------------------------------------------------------------------
(* Disciplined clients                                                     *)

Reached(s, n) == \A e \in Pending(s, n) : e.seq \in received[s] \cup expired

\* Whatever a client was handed as a cursor, or has acknowledged, it has all
\* the events of.
ClientInv ==
  Disciplined =>
    \A s \in Streams :
      /\ \A n \in told[s] : n <= HighWater /\ Reached(s, n)
      /\ Reached(s, receipts[s].acked)

LEMMA ReachedStable ==
  ASSUME TypeOK, LogInv, [Next]_vars, NEW s \in Streams, NEW n \in Nat,
         n <= HighWater, Reached(s, n), received[s] \subseteq received'[s]
  PROVE  /\ \A e \in events' : Matches(s, e.request) /\ e.seq <= n
               => e.seq \in received'[s] \cup expired'
         /\ n <= HighWater'
<1>1. HighWater \in Nat /\ HighWater' \in Nat /\ HighWater <= HighWater'
  BY TypeStep, LogGrows DEF TypeOK, HighWater
<1>2. n <= HighWater'
  BY <1>1
<1>3. \A e \in Pending(s, n) : e.seq \in received[s] \cup expired
  BY DEF Reached
<1>4. \A e \in events' : Matches(s, e.request) /\ e.seq <= n
        => e.seq \in received'[s] \cup expired'
  BY <1>3, CoverStable
<1> QED BY <1>2, <1>4

LEMMA ClientStep ==
  TypeOK /\ LogInv /\ DeliveryInv /\ ClientInv /\ [Next]_vars => ClientInv'
<1> SUFFICES ASSUME TypeOK, LogInv, DeliveryInv, ClientInv, [Next]_vars,
                    Disciplined, NEW s \in Streams
             PROVE  /\ \A n \in told'[s] :
                         /\ n <= HighWater'
                         /\ \A e \in events' : Matches(s, e.request) /\ e.seq <= n
                              => e.seq \in received'[s] \cup expired'
                    /\ \A e \in events' :
                         Matches(s, e.request) /\ e.seq <= receipts'[s].acked
                           => e.seq \in received'[s] \cup expired'
  BY DEF ClientInv, Reached, Pending
<1>r. /\ receipts[s].acked \in Nat /\ receipts[s].acked <= HighWater
      /\ told[s] \subseteq Nat
  BY DEF TypeOK, Receipt, DeliveryInv, ReceiptsInv, ReceiptsOrdered, HighWater
<1>i. /\ \A n \in told[s] : n <= HighWater /\ Reached(s, n)
      /\ Reached(s, receipts[s].acked)
  BY DEF ClientInv
<1>1. ASSUME UNCHANGED <<received, told>>,
             receipts'[s].acked = receipts[s].acked
                \/ receipts'[s].acked \in told[s]
      PROVE  /\ \A n \in told'[s] :
                  /\ n <= HighWater'
                  /\ \A e \in events' : Matches(s, e.request) /\ e.seq <= n
                       => e.seq \in received'[s] \cup expired'
             /\ \A e \in events' :
                  Matches(s, e.request) /\ e.seq <= receipts'[s].acked
                    => e.seq \in received'[s] \cup expired'
  BY <1>1, <1>r, <1>i, ReachedStable
<1>2. ASSUME NEW p \in Pollers, PollAnswer(p), StreamOf[p] = s
      PROVE  /\ \A n \in told'[s] :
                  /\ n <= HighWater'
                  /\ \A e \in events' : Matches(s, e.request) /\ e.seq <= n
                       => e.seq \in received'[s] \cup expired'
             /\ \A e \in events' :
                  Matches(s, e.request) /\ e.seq <= receipts'[s].acked
                    => e.seq \in received'[s] \cup expired'
  <2> DEFINE m == poll[p].next
             c == poll[p].cursor
  <2>1. /\ received'[s] = received[s] \cup poll[p].page
        /\ told'[s] = told[s] \cup {m}
        /\ UNCHANGED <<nextSeq, events, expired, receipts>>
        /\ poll[p].pc = "answer"
    BY <1>2 DEF PollAnswer, TypeOK
  <2>2. c \in Nat /\ m \in Nat
    BY <2>1 DEF TypeOK, PollState, IdlePoll
  <2>3. /\ c <= receipts[s].acked /\ m <= HighWater
        /\ \A e \in events : Matches(s, e.request) /\ c < e.seq /\ e.seq <= m
             => e.seq \in poll[p].page \cup expired
    BY <1>2, <2>1 DEF DeliveryInv, PollsSound, PollSound
  <2>4. ASSUME NEW e \in events, Matches(s, e.request), e.seq <= m
        PROVE  e.seq \in received'[s] \cup expired
    <3>1. e.seq \in Nat
      BY DEF TypeOK, Event
    <3>2. CASE c < e.seq
      BY <2>1, <2>3, <2>4, <3>2
    <3>3. CASE e.seq <= c
      <4>1. e.seq <= receipts[s].acked
        BY <1>r, <2>2, <2>3, <3>1, <3>3
      <4> QED BY <1>i, <2>1, <2>4, <4>1 DEF Reached, Pending
    <3> QED BY <2>2, <3>1, <3>2, <3>3
  <2> QED BY <1>i, <2>1, <2>3, <2>4 DEF HighWater, Reached, Pending
<1>3. ASSUME NEW q \in Streams, NEW c \in AckInputs(q), Acknowledge(q, c)
      PROVE  /\ UNCHANGED <<received, told>>
             /\ receipts'[s].acked = receipts[s].acked
                   \/ receipts'[s].acked \in told[s]
  BY <1>3 DEF Acknowledge, AckInputs, TypeOK, Receipt
<1>4. ASSUME NEW p \in Pollers, PollTx(p)
      PROVE  UNCHANGED <<received, told>> /\ receipts'[s].acked = receipts[s].acked
  <2>1. CASE s # StreamOf[p]
    BY <1>4, <2>1 DEF PollTx, TypeOK
  <2>2. CASE s = StreamOf[p]
    BY <1>4, <2>2, PollTxReceipt DEF PollTx
  <2> QED BY <2>1, <2>2
<1>5. ASSUME NEW p \in Pollers, PollAnswer(p), StreamOf[p] # s
      PROVE  /\ received'[s] = received[s] /\ told'[s] = told[s]
             /\ receipts' = receipts
  BY <1>5 DEF PollAnswer, TypeOK
<1>6. ASSUME NEW p \in Pollers, PollAnswer(p), StreamOf[p] # s
      PROVE  /\ \A n \in told'[s] :
                  /\ n <= HighWater'
                  /\ \A e \in events' : Matches(s, e.request) /\ e.seq <= n
                       => e.seq \in received'[s] \cup expired'
             /\ \A e \in events' :
                  Matches(s, e.request) /\ e.seq <= receipts'[s].acked
                    => e.seq \in received'[s] \cup expired'
  BY <1>5, <1>6, <1>r, <1>i, ReachedStable
<1>7. \/ UNCHANGED <<received, told, receipts>>
      \/ \E p \in Pollers : PollTx(p) \/ PollAnswer(p)
      \/ \E q \in Streams : \E c \in AckInputs(q) : Acknowledge(q, c)
  BY DEF Next, vars, WriterStep, PollerStep, FollowerStep, RecordCall, RecordTx,
         RecordConflict, RecordEnd, Expire, PollReadReceipt, PollReadSnapshot,
         PollReadRows, PollCrash, BootstrapReadTail, BootstrapReadSnapshot,
       FollowReadSnapshot, FollowAnswer, FollowCrash
<1> QED BY <1>1, <1>2, <1>3, <1>4, <1>6, <1>7

\* Under disciplined clients, what is acknowledged has reached a client or has
\* expired, whichever answers were lost.
THEOREM AckedIsReceived == Spec => []AckedWasReceived
<1>1. Init => ClientInv
  BY DEF Init, ClientInv, Reached, Pending
<1>2. ClientInv => AckedWasReceived
  BY DEF ClientInv, AckedWasReceived, Reached
<1> QED BY <1>1, <1>2, ClientStep, TypeCorrect, LogInvariant,
           DeliveryInvariant, PTL DEF Spec

-----------------------------------------------------------------------------
(* Followers                                                               *)

\* The first and the last of a finite set of rows are closed downwards and
\* upwards.
LEMMA FirstOfClosed ==
  ASSUME NEW rows, IsFiniteSet(rows), \A e \in rows : e.seq \in Nat,
         NEW n \in Nat, NEW last \in FirstOf(rows, n),
         NEW e \in rows, e.seq <= last.seq
  PROVE  e \in FirstOf(rows, n)
<1> DEFINE Before(d) == {x \in rows : x.seq < d.seq}
<1>1. last \in rows /\ Cardinality(Before(last)) < n
  BY DEF FirstOf
<1>2. Before(e) \subseteq Before(last)
  BY <1>1
<1>3. IsFiniteSet(Before(last))
  BY FS_Subset
<1>4. /\ Cardinality(Before(last)) \in Nat
      /\ Cardinality(Before(e)) \in Nat
      /\ Cardinality(Before(e)) <= Cardinality(Before(last))
  BY <1>2, <1>3, FS_Subset, FS_CardinalityType
<1>5. Cardinality(Before(e)) < n
  BY <1>1, <1>4
<1> QED BY <1>5 DEF FirstOf

LEMMA LastOfClosed ==
  ASSUME NEW rows, IsFiniteSet(rows), \A e \in rows : e.seq \in Nat,
         NEW n \in Nat, NEW first \in LastOf(rows, n),
         NEW e \in rows, first.seq <= e.seq
  PROVE  e \in LastOf(rows, n)
<1> DEFINE Behind(d) == {x \in rows : d.seq < x.seq}
<1>1. first \in rows /\ Cardinality(Behind(first)) < n
  BY DEF LastOf
<1>2. Behind(e) \subseteq Behind(first)
  BY <1>1
<1>3. IsFiniteSet(Behind(first))
  BY FS_Subset
<1>4. /\ Cardinality(Behind(first)) \in Nat
      /\ Cardinality(Behind(e)) \in Nat
      /\ Cardinality(Behind(e)) <= Cardinality(Behind(first))
  BY <1>2, <1>3, FS_Subset, FS_CardinalityType
<1>5. Cardinality(Behind(e)) < n
  BY <1>1, <1>4
<1> QED BY <1>5 DEF LastOf

\* A follower has been shown what lies between the beginning of its reading
\* and the cursor it holds; a call in progress reads after a cursor that is
\* not ahead of the log, and unless it is a bootstrap after the one held.
FollowSound(f) ==
  /\ follow[f].held <= HighWater
  /\ follow[f].pc = "rows" =>
       /\ follow[f].snapshot <= HighWater
       /\ ~follow[f].tail =>
            follow[f].cursor = follow[f].held /\ follow[f].known = {}
  /\ follow[f].pc \in {"tail", "rows"} => follow[f].cursor <= HighWater
  /\ \A e \in Pending(StreamOf[f], follow[f].held) : Begun(f, e.seq) =>
       e.seq \in shown[f].events \cup shown[f].known \cup expired

FollowInv == \A f \in Followers : FollowSound(f)

LEMMA FollowSoundStable ==
  ASSUME TypeOK, LogInv, [Next]_vars, NEW f \in Followers, FollowSound(f),
         follow'[f] = follow[f], shown'[f] = shown[f]
  PROVE  FollowSound(f)'
<1>1. HighWater \in Nat /\ HighWater' \in Nat /\ HighWater <= HighWater'
  BY TypeStep, LogGrows DEF TypeOK, HighWater
<1>2. /\ follow[f].held \in Nat
      /\ follow[f].pc \in {"tail", "rows"} => follow[f].cursor \in Nat
      /\ follow[f].pc = "rows" => follow[f].snapshot \in Nat
  BY DEF TypeOK, FollowState
<1>3. /\ follow[f].held <= HighWater'
      /\ follow[f].pc = "rows" => follow[f].snapshot <= HighWater'
      /\ follow[f].pc \in {"tail", "rows"} => follow[f].cursor <= HighWater'
  BY <1>1, <1>2 DEF FollowSound
<1>4. ASSUME NEW e \in Pending(StreamOf[f], follow[f].held)', Begun(f, e.seq)'
      PROVE  e.seq \in shown[f].events \cup shown[f].known \cup expired'
  <2>1. e \in events
    BY <1>2, <1>4, LogGrows DEF TypeOK, HighWater, FollowSound, Pending
  <2>2. Begun(f, e.seq)
    BY <1>4 DEF Begun
  <2> QED BY <1>4, <2>1, <2>2, ExpiredGrows DEF FollowSound, Pending
<1> QED BY <1>3, <1>4 DEF FollowSound

Unpassed(page, known) == {e \in page : e.seq \notin expired \cup known}

\* The answer to a call that reads after cursor: every matching event between
\* that cursor and the new one, and not older than all of a cut bootstrap, has
\* been rendered, was known, or has expired.
LEMMA AnswerCovers ==
  ASSUME TypeOK, LogInv, NEW f \in Followers, FollowSound(f),
         follow[f].pc = "rows", NEW room \in 0..Limit,
         NEW rows, rows = Selected(StreamOf[f], follow[f].cursor,
                                   follow[f].snapshot),
         NEW page, page = FirstOf(rows, Limit),
         NEW visible, visible = Unpassed(page, follow[f].known),
         NEW rendered, rendered = Rendered(follow[f], visible, room),
         NEW next \in FollowNext(rows, page, visible, rendered, f)
  PROVE  /\ next \in Nat /\ next <= HighWater
         /\ \A e \in Pending(StreamOf[f], next) :
              /\ follow[f].cursor < e.seq
              /\ follow[f].tail /\ rendered # visible =>
                   \E m \in rendered : m.seq <= e.seq
              => \/ e \in rendered
                 \/ e.seq \in follow[f].known \cup expired
<1> DEFINE c == follow[f].cursor
<1>1. /\ c \in Nat /\ follow[f].snapshot \in Nat /\ HighWater \in Nat
      /\ follow[f].snapshot <= HighWater /\ c <= HighWater
      /\ follow[f].tail \in BOOLEAN
  BY DEF TypeOK, FollowState, FollowSound, HighWater
<1>2. /\ rows \subseteq events /\ page \subseteq rows
      /\ rendered \subseteq visible /\ visible \subseteq page
  BY DEF Selected, FirstOf, LastOf, Rendered, Unpassed
<1>3. /\ \A e \in events : e.seq \in Nat
      /\ \A e \in rows : e.seq <= follow[f].snapshot
      /\ IsFiniteSet(rows) /\ IsFiniteSet(page) /\ IsFiniteSet(visible)
  BY <1>2, FS_Subset DEF Selected, TypeOK, Event, LogInv, FiniteLog
<1>4. Limit \in Nat /\ room \in Nat
  BY NumbersAssumption
<1>5. CASE rendered = visible
  <2>1. next \in NextCursors(rows, page, follow[f].snapshot)
    BY <1>5 DEF FollowNext
  <2>2. next \in Nat /\ next <= follow[f].snapshot
    <3>1. CASE page = rows
      BY <1>1, <2>1, <3>1 DEF NextCursors
    <3>2. CASE page # rows
      BY <1>2, <1>3, <2>1, <3>2 DEF NextCursors
    <3> QED BY <3>1, <3>2
  <2>3. \A e \in rows : e.seq <= next => e \in page
    BY <1>2, <1>3, <2>1, PageIsComplete
  <2>4. ASSUME NEW e \in Pending(StreamOf[f], next), c < e.seq
        PROVE  e \in page
    BY <1>1, <1>3, <2>2, <2>3, <2>4 DEF Pending, Selected
  <2> QED BY <1>1, <1>5, <2>2, <2>4 DEF Unpassed
<1>6. CASE rendered # visible /\ rendered = {}
  <2>1. next = c
    BY <1>6 DEF FollowNext
  <2> QED BY <1>1, <1>3, <2>1 DEF Pending
<1>7. CASE rendered # visible /\ rendered # {}
  <2>1. PICK last \in rendered : next = last.seq
    BY <1>7 DEF FollowNext
  <2>2. last \in rows /\ next \in Nat /\ next <= follow[f].snapshot
    BY <1>2, <1>3, <2>1
  <2>3. ASSUME NEW e \in Pending(StreamOf[f], next), c < e.seq,
               follow[f].tail => \E m \in rendered : m.seq <= e.seq
        PROVE  \/ e \in rendered
               \/ e.seq \in follow[f].known \cup expired
    <3>1. e \in rows
      BY <1>1, <1>3, <2>2, <2>3 DEF Pending, Selected
    <3>2. e.seq <= last.seq
      BY <2>1 DEF Pending
    <3>3. e \in page
      BY <1>2, <1>3, <1>4, <2>1, <3>1, <3>2, FirstOfClosed
    <3>4. CASE e \in visible /\ follow[f].tail
      <4>1. rendered = LastOf(visible, room)
        BY <3>4 DEF Rendered
      <4>2. \A d \in visible : d.seq \in Nat
        BY <1>2, <1>3
      <4> QED BY <1>3, <1>4, <2>3, <3>4, <4>1, <4>2, LastOfClosed
    <3>5. CASE e \in visible /\ ~follow[f].tail
      <4>1. rendered = FirstOf(visible, room)
        BY <3>5 DEF Rendered
      <4>2. \A d \in visible : d.seq \in Nat
        BY <1>2, <1>3
      <4> QED BY <1>3, <1>4, <2>1, <3>2, <3>5, <4>1, <4>2, FirstOfClosed
    <3> QED BY <3>3, <3>4, <3>5 DEF Unpassed
  <2> QED BY <1>1, <1>7, <2>2, <2>3
<1> QED BY <1>5, <1>6, <1>7

LEMMA FollowerOwnStep ==
  ASSUME TypeOK, LogInv, NEW f \in Followers, FollowSound(f),
         NEW room \in 0..Limit, FollowAnswer(f, room)
  PROVE  FollowSound(f)'
<1> DEFINE call == follow[f]
           rows == Selected(StreamOf[f], call.cursor, call.snapshot)
           page == FirstOf(rows, Limit)
           visible == {e \in page : e.seq \notin expired \cup call.known}
           rendered == Rendered(call, visible, room)
           numbers == {e.seq : e \in rendered}
<1>1. PICK next \in FollowNext(rows, page, visible, rendered, f) :
        follow' = [follow EXCEPT ![f] = [pc |-> "idle", held |-> next]]
  BY DEF FollowAnswer
<1>2. /\ follow'[f] = [pc |-> "idle", held |-> next]
      /\ shown'[f] = ShownNow(f, visible, rendered)
      /\ UNCHANGED <<nextSeq, events, expired>>
      /\ call.pc = "rows"
  BY <1>1 DEF FollowAnswer, TypeOK
<1> HIDE DEF rows, page, visible, rendered
<1>3. /\ next \in Nat /\ next <= HighWater
      /\ \A e \in Pending(StreamOf[f], next) :
           /\ call.cursor < e.seq
           /\ call.tail /\ rendered # visible =>
                \E m \in rendered : m.seq <= e.seq
           => e \in rendered \/ e.seq \in call.known \cup expired
  <2>1. rows = Selected(StreamOf[f], follow[f].cursor, follow[f].snapshot)
    BY DEF rows
  <2>2. page = FirstOf(rows, Limit)
    BY DEF page
  <2>3. visible = Unpassed(page, follow[f].known)
    BY DEF visible, Unpassed
  <2>4. rendered = Rendered(follow[f], visible, room)
    BY DEF rendered
  <2> QED BY <1>1, <1>2, <2>1, <2>2, <2>3, <2>4, AnswerCovers
<1>4. shown[f] \in Shown /\ call.tail \in BOOLEAN /\ call.cursor \in Nat
  BY <1>2 DEF TypeOK, FollowState
<1>5. ASSUME NEW e \in Pending(StreamOf[f], next), Begun(f, e.seq)'
      PROVE  e.seq \in shown'[f].events \cup shown'[f].known \cup expired
  <2>1. CASE call.tail
    <3>1. /\ shown'[f].events = shown[f].events \cup numbers
          /\ shown'[f].known = call.known
          /\ shown'[f].after = call.cursor
          /\ shown'[f].cut = IF rendered = visible THEN {} ELSE numbers
      BY <1>2, <2>1 DEF ShownNow
    <3>2. call.cursor < e.seq
      BY <1>5, <3>1 DEF Begun
    <3>3. CASE rendered = {} /\ rendered # visible
      <4>1. next = call.cursor
        BY <1>1, <3>3 DEF FollowNext
      <4>2. e.seq \in Nat
        BY DEF Pending, TypeOK, Event
      <4> QED BY <1>4, <3>2, <4>1, <4>2 DEF Pending
    <3>4. CASE rendered # {} /\ rendered # visible
      <4>1. \E n \in numbers : n <= e.seq
        BY <1>5, <3>1, <3>4 DEF Begun
      <4> QED BY <1>3, <3>1, <3>2, <4>1
    <3>5. CASE rendered = visible
      BY <1>3, <3>1, <3>2, <3>5
    <3> QED BY <3>3, <3>4, <3>5
  <2>2. CASE ~call.tail
    <3>1. /\ shown'[f].events = shown[f].events \cup numbers
          /\ shown'[f].known = shown[f].known
          /\ shown'[f].after = shown[f].after
          /\ shown'[f].cut = shown[f].cut
      BY <1>2, <1>4, <2>2 DEF ShownNow, Shown
    <3>2. call.cursor = call.held /\ call.known = {}
      BY <1>2, <2>2 DEF FollowSound
    <3>3. Begun(f, e.seq)
      BY <1>5, <3>1 DEF Begun
    <3>4. CASE e.seq <= call.held
      <4>1. e \in Pending(StreamOf[f], call.held)
        BY <3>4 DEF Pending
      <4> QED BY <3>1, <3>3, <4>1 DEF FollowSound
    <3>5. CASE call.cursor < e.seq
      BY <1>3, <2>2, <3>1, <3>2, <3>5
    <3>6. e.seq \in Nat
      BY DEF Pending, TypeOK, Event
    <3> QED BY <1>4, <3>2, <3>4, <3>5, <3>6
  <2> QED BY <1>4, <2>1, <2>2
<1> QED BY <1>2, <1>3, <1>5 DEF FollowSound, Pending, HighWater

\* The cursor a bootstrap reads after is not ahead of the log.
LEMMA TailCursorsBehind ==
  ASSUME TypeOK, LogInv, NEW s, NEW n \in TailCursors(s)
  PROVE  n <= HighWater
<1>1. \A e \in events : e.seq - 1 <= HighWater
  BY DEF LogInv, LogGapless, HighWater, TypeOK, Event
<1>2. 0 <= HighWater
  BY DEF TypeOK, HighWater
<1>3. n = 0 \/ \E e \in events : n = e.seq - 1
  BY DEF TailCursors
<1> QED BY <1>1, <1>2, <1>3

LEMMA FollowStep == TypeOK /\ LogInv /\ FollowInv /\ [Next]_vars => FollowInv'
<1> SUFFICES ASSUME TypeOK, LogInv, FollowInv, [Next]_vars, NEW g \in Followers
             PROVE  FollowSound(g)'
  BY DEF FollowInv
<1>0. FollowSound(g)
  BY DEF FollowInv
<1>w. HighWater <= HighWater
  BY DEF TypeOK, HighWater
<1>1. CASE UNCHANGED <<follow, shown>>
  BY <1>0, <1>1, FollowSoundStable
<1>2. ASSUME NEW f \in Followers, FollowerStep(f), f # g PROVE FollowSound(g)'
  <2>1. follow'[g] = follow[g] /\ shown'[g] = shown[g]
    BY <1>2 DEF FollowerStep, BootstrapReadTail, BootstrapReadSnapshot,
                FollowReadSnapshot, FollowAnswer, FollowCrash, TypeOK
  <2> QED BY <1>0, <2>1, FollowSoundStable
<1>3. CASE FollowReadSnapshot(g)
  BY <1>0, <1>3, <1>w DEF FollowReadSnapshot, FollowSound, TypeOK, HighWater,
                          Pending, Begun
<1>4. CASE FollowCrash(g)
  BY <1>0, <1>4 DEF FollowCrash, FollowSound, TypeOK, HighWater, Pending, Begun
<1>5. CASE \E room \in 0..Limit : FollowAnswer(g, room)
  BY <1>0, <1>5, FollowerOwnStep
<1>6. CASE BootstrapReadSnapshot(g)
  BY <1>0, <1>6, <1>w DEF BootstrapReadSnapshot, FollowSound, TypeOK, HighWater,
                          Pending, Begun
<1>7. ASSUME NEW known \in SUBSET {e.seq : e \in events},
             BootstrapReadTail(g, known)
      PROVE  FollowSound(g)'
  <2>1. PICK cursor \in TailCursors(StreamOf[g]) :
          follow' = [follow EXCEPT ![g] =
                       [pc |-> "tail", held |-> follow[g].held,
                        cursor |-> cursor, known |-> known]]
    BY <1>7 DEF BootstrapReadTail
  <2>2. cursor <= HighWater
    BY TailCursorsBehind
  <2> QED BY <1>0, <1>7, <2>1, <2>2
          DEF BootstrapReadTail, FollowSound, TypeOK, HighWater, Pending, Begun
<1>8. ASSUME NEW p \in Pollers, PollerStep(p) PROVE UNCHANGED <<follow, shown>>
  BY <1>8 DEF PollerStep, PollReadReceipt, PollReadSnapshot, PollReadRows,
              PollTx, PollAnswer, PollCrash
<1>9. ASSUME NEW w \in Writers, WriterStep(w) PROVE UNCHANGED <<follow, shown>>
  BY <1>9 DEF WriterStep, RecordCall, RecordTx, RecordConflict, RecordEnd
<1> QED BY <1>1, <1>2, <1>3, <1>4, <1>5, <1>6, <1>7, <1>8, <1>9
        DEF Next, vars, FollowerStep, Expire, Acknowledge

\* A client that follows the cursor of get_context has been shown every matching
\* event below it from where its last bootstrap began to render, but for those
\* the bootstrap left out as known, wherever budgets cut the pages.
THEOREM FollowersMissNothing == Spec => []FollowerMissesNothing
<1>1. Init => FollowInv
  BY DEF Init, FollowInv, FollowSound, Pending, HighWater, FirstSeq
<1>2. FollowInv => FollowerMissesNothing
  BY DEF FollowInv, FollowSound, FollowerMissesNothing
<1> QED BY <1>1, <1>2, FollowStep, TypeCorrect, LogInvariant, PTL DEF Spec

-----------------------------------------------------------------------------
(* Refinement                                                              *)

Wanted(s, S) == \A n \in S : \E e \in events : e.seq = n /\ Matches(s, e.request)

\* Only matching events are handed out.
ServedInv ==
  /\ \A s \in Streams : Wanted(s, served[s])
  /\ \A p \in Pollers : poll[p].pc \in {"tx", "answer"} =>
       Wanted(StreamOf[p], poll[p].page)

LEMMA EventsGrow == ASSUME [Next]_vars PROVE events \subseteq events'
BY LogSteps DEF RecordTx

LEMMA ServedStep == TypeOK /\ ServedInv /\ [Next]_vars => ServedInv'
<1> SUFFICES ASSUME TypeOK, ServedInv, [Next]_vars PROVE ServedInv'
  OBVIOUS
<1> USE StreamsAssumption
<1>a. \A s \in Streams : \A n \in served[s] :
        \E e \in events' : e.seq = n /\ Matches(s, e.request)
  BY EventsGrow DEF ServedInv, Wanted
<1>b. \A p \in Pollers : poll[p].pc \in {"tx", "answer"} =>
        \A n \in poll[p].page :
          \E e \in events' : e.seq = n /\ Matches(StreamOf[p], e.request)
  BY EventsGrow DEF ServedInv, Wanted
<1>1. CASE UNCHANGED <<poll, served>>
  BY <1>1, <1>a, <1>b DEF ServedInv, Wanted
<1>2. ASSUME NEW p \in Pollers, \A q \in Pollers \ {p} : poll'[q] = poll[q],
             poll'[p].pc \notin {"tx", "answer"}, served' = served
      PROVE  ServedInv'
  <2>1. \A s \in Streams : Wanted(s, served[s])'
    BY <1>2, <1>a DEF Wanted
  <2>2. ASSUME NEW q \in Pollers, poll'[q].pc \in {"tx", "answer"}
        PROVE  Wanted(StreamOf[q], poll[q].page)'
    BY <1>2, <1>b, <2>2 DEF Wanted
  <2> QED BY <2>1, <2>2 DEF ServedInv
<1>3. ASSUME NEW p \in Pollers, PollReadRows(p) PROVE ServedInv'
  <2> DEFINE rows == Selected(StreamOf[p], poll[p].cursor, poll[p].snapshot)
             page == FirstOf(rows, Limit)
  <2>1. \A q \in Pollers : q # p => poll'[q] = poll[q]
    BY <1>3 DEF PollReadRows
  <2>2. poll'[p].page = Visible(page) /\ UNCHANGED <<events, served>>
    BY <1>3 DEF PollReadRows, TypeOK
  <2>3. \A n \in Visible(page) :
          \E e \in events : e.seq = n /\ Matches(StreamOf[p], e.request)
    BY DEF Visible, FirstOf, Selected
  <2> QED BY <2>1, <2>2, <2>3 DEF ServedInv, Wanted
<1>4. ASSUME NEW p \in Pollers, PollTx(p) PROVE ServedInv'
  <2> DEFINE s == StreamOf[p]
  <2>1. /\ served'[s] = served[s] \cup poll[p].page /\ poll[p].pc = "tx"
        /\ \A q \in Streams \ {s} : served'[q] = served[q]
        /\ \A q \in Pollers \ {p} : poll'[q] = poll[q]
        /\ UNCHANGED events
    BY <1>4 DEF PollTx, TypeOK
  <2>2. poll'[p].page = poll[p].page
    <3>1. poll[p] \in [pc : {"tx", "answer"}, cursor : Nat, next : Nat,
                       page : SUBSET Nat]
      BY <2>1 DEF TypeOK, PollState, IdlePoll
    <3> QED BY <1>4, <3>1 DEF PollTx, TypeOK
  <2>3. Wanted(s, poll[p].page) /\ Wanted(s, served[s])
    BY <2>1 DEF ServedInv
  <2> QED BY <2>1, <2>2, <2>3 DEF ServedInv, Wanted
<1>5. ASSUME NEW p \in Pollers, PollAnswer(p) \/ PollCrash(p) PROVE ServedInv'
  <2>1. /\ poll' = [poll EXCEPT ![p] = IdlePoll]
        /\ served' = served
    BY <1>5 DEF PollAnswer, PollCrash
  <2>2. \A q \in Pollers \ {p} : poll'[q] = poll[q]
    BY <2>1 DEF TypeOK
  <2>3. poll'[p].pc = "idle"
    BY <2>1 DEF TypeOK, IdlePoll
  <2> QED BY <1>2, <2>1, <2>2, <2>3
<1>6. ASSUME NEW p \in Pollers, PollReadReceipt(p) \/ PollReadSnapshot(p)
      PROVE  ServedInv'
  <2>1. served' = served /\ \A q \in Pollers \ {p} : poll'[q] = poll[q]
    BY <1>6 DEF PollReadReceipt, PollReadSnapshot, TypeOK
  <2>2. poll'[p].pc \in {"snapshot", "rows"}
    BY <1>6 DEF PollReadReceipt, PollReadSnapshot, TypeOK
  <2> QED BY <1>2, <2>1, <2>2
<1>7. ASSUME NEW w \in Writers, WriterStep(w) PROVE UNCHANGED <<poll, served>>
  BY <1>7 DEF WriterStep, RecordCall, RecordTx, RecordConflict, RecordEnd
<1>8. ASSUME NEW f \in Followers, FollowerStep(f) PROVE UNCHANGED <<poll, served>>
  BY <1>8 DEF FollowerStep, BootstrapReadTail, BootstrapReadSnapshot,
       FollowReadSnapshot, FollowAnswer, FollowCrash
<1> QED BY <1>1, <1>3, <1>4, <1>5, <1>6, <1>7, <1>8
        DEF Next, vars, PollerStep, Expire, Acknowledge

LEMMA StepIsPromised ==
  TypeOK /\ LogInv /\ DeliveryInv /\ KeyInv /\ ServedInv /\ [Next]_vars
    => [Promised!Move]_(Promised!dvars)
<1> SUFFICES ASSUME TypeOK, LogInv, DeliveryInv, KeyInv, ServedInv, [Next]_vars
             PROVE  Promised!Move \/ UNCHANGED Promised!dvars
  OBVIOUS
<1> USE StreamsAssumption
<1>i. TypeOK' /\ LogInv' /\ DeliveryInv' /\ ServedInv'
  BY TypeStep, LogStep, DeliveryStep, ServedStep
<1>1. CASE UNCHANGED <<events, expired, receipts, served>>
  BY <1>1 DEF Promised!dvars
<1>2. ASSUME NEW w \in Writers, RecordTx(w) PROVE Promised!Move
  <2> DEFINE k == writer[w].key
             r == writer[w].request
             new == [seq |-> nextSeq, request |-> r, key |-> k]
  <2>1. k \in Keys \cup {NoKey} /\ r \in Requests
    BY <1>2 DEF RecordTx, TypeOK, WriterState, IdleWriter
  <2>2. /\ events' = events \cup {new} /\ nextSeq' = nextSeq + 1
        /\ UNCHANGED <<expired, receipts, served>>
        /\ \A row \in idem : row.key # k
    BY <1>2 DEF RecordTx, KeyFree
  <2>3. \A e \in events : e.key = k => k = NoKey
    <3> SUFFICES ASSUME NEW e \in events, e.key = k, k # NoKey PROVE FALSE
      OBVIOUS
    <3>1. PICK q \in idem : q.seq = e.seq
      BY DEF KeyInv, OneEventPerKey
    <3>2. PICK d \in events : d = [seq |-> q.seq, request |-> q.request,
                                  key |-> q.key]
      BY DEF KeyInv, OneEventPerKey
    <3>3. d = e
      BY <3>1, <3>2 DEF LogInv, LogGapless
    <3> QED BY <2>2, <3>2, <3>3
  <2>4. \A d \in events : d.seq < nextSeq
    <3>1. \A d \in events : d.seq \in 1..(nextSeq - 1)
      BY DEF LogInv, LogGapless, HighWater
    <3>2. nextSeq \in Nat
      BY DEF TypeOK
    <3> QED BY <3>1, <3>2
  <2>5. {d.seq : d \in events'} = 1..nextSeq
    BY <1>i, <2>2 DEF LogInv, LogGapless, HighWater, TypeOK
  <2>6. new \in events' /\ new.seq = nextSeq /\ new.request = r /\ new.key = k
    BY <2>2
  <2>7. Promised!Publish(k, r)
    BY <2>2, <2>3, <2>4, <2>5, <2>6 DEF Promised!Publish
  <2> QED BY <2>1, <2>7 DEF Promised!Move
<1>3. ASSUME NEW e \in events, Expire(e) PROVE Promised!Move
  <2>1. Promised!Lapse
    BY <1>3 DEF Expire, Promised!Lapse
  <2> QED BY <2>1 DEF Promised!Move
<1>4. ASSUME NEW p \in Pollers, PollTx(p) PROVE Promised!Move
  <2> DEFINE s == StreamOf[p]
  <2>0. s \in Streams
    OBVIOUS
  <2>1. /\ \A q \in Streams \ {s} : /\ receipts'[q] = receipts[q]
                                    /\ served'[q] = served[q]
        /\ served[s] \subseteq served'[s]
        /\ UNCHANGED <<events, expired>>
    BY <1>4 DEF PollTx, TypeOK
  <2>2. receipts'[s].delivered \in Nat /\ receipts'[s].delivered <= HighWater'
    BY <1>i, <2>0 DEF TypeOK, Receipt, DeliveryInv, ReceiptsInv, ReceiptsOrdered
  <2>3. receipts'[s].acked = receipts[s].acked
        /\ receipts[s].delivered <= receipts'[s].delivered
    BY <1>4, <2>0, PollTxReceipt
  <2>4. receipts'[s].delivered = 0
          \/ \E e \in events : e.seq = receipts'[s].delivered
    BY <1>i, <2>1, <2>2 DEF LogInv, LogGapless
  <2>5. [q \in Streams |-> receipts'[q].acked] = [q \in Streams |-> receipts[q].acked]
    BY <2>1, <2>3
  <2>6. \A e \in events : e.seq <= receipts'[s].delivered /\ Matches(s, e.request)
          => e.seq \in served'[s] \cup expired
    BY <1>i, <2>0, <2>1 DEF DeliveryInv, NoEventSkipped, Pending
  <2>7. \A n \in served'[s] : \E e \in events : e.seq = n /\ Matches(s, e.request)
    BY <1>i, <2>0, <2>1 DEF ServedInv, Wanted
  <2>8. /\ [q \in Streams |-> receipts'[q].delivered] \in [Streams -> Nat]
        /\ served' \in [Streams -> SUBSET Nat]
    BY <1>i DEF TypeOK, Receipt
  <2>9. Promised!Deliver(s)
    BY <2>0, <2>1, <2>3, <2>4, <2>5, <2>6, <2>7, <2>8 DEF Promised!Deliver
  <2> QED BY <2>0, <2>9 DEF Promised!Move
<1>5. ASSUME NEW s \in Streams, NEW c \in AckInputs(s), Acknowledge(s, c)
      PROVE  Promised!Move
  <2>1. /\ receipts[s].acked <= c /\ c <= receipts[s].delivered
        /\ receipts'[s].acked = c /\ receipts'[s].delivered = receipts[s].delivered
        /\ \A q \in Streams \ {s} : receipts'[q] = receipts[q]
        /\ UNCHANGED <<events, expired, served>>
    BY <1>5 DEF Acknowledge, MayAcknowledge, TypeOK, Receipt
  <2>2. c \in Nat /\ receipts[s].acked \in Nat /\ receipts[s].delivered \in Nat
    BY <1>5, NumbersAssumption DEF TypeOK, Receipt, AckInputs
  <2>3. c \in receipts[s].acked..receipts[s].delivered
    BY <2>1, <2>2
  <2>4. [q \in Streams |-> receipts'[q].acked]
          = [[q \in Streams |-> receipts[q].acked] EXCEPT ![s] = c]
    BY <2>1
  <2>5. [q \in Streams |-> receipts'[q].delivered]
          = [q \in Streams |-> receipts[q].delivered]
    BY <2>1
  <2>6. Promised!Confirm(s)
    BY <2>1, <2>3, <2>4, <2>5 DEF Promised!Confirm
  <2> QED BY <2>6 DEF Promised!Move
<1>6. \/ UNCHANGED <<events, expired, receipts, served>>
      \/ \E w \in Writers : RecordTx(w)
      \/ \E e \in events : Expire(e)
      \/ \E p \in Pollers : PollTx(p)
      \/ \E s \in Streams : \E c \in AckInputs(s) : Acknowledge(s, c)
  BY DEF Next, vars, WriterStep, PollerStep, FollowerStep, RecordCall,
         RecordConflict, RecordEnd, PollReadReceipt, PollReadSnapshot,
         PollReadRows, PollAnswer, PollCrash, BootstrapReadTail,
         BootstrapReadSnapshot, FollowReadSnapshot, FollowAnswer, FollowCrash
<1> QED BY <1>1, <1>2, <1>3, <1>4, <1>5, <1>6

\* The event stream implements the abstract log: racing polls, lost answers,
\* conflicts and crashes show a client nothing that EventDelivery does not.
THEOREM StreamDeliversAsPromised == Spec => DeliversAsPromised
<1>1. Init => Promised!Start /\ ServedInv
  BY DEF Init, Promised!Start, ServedInv, Wanted, IdlePoll
<1> QED BY <1>1, StepIsPromised, ServedStep, TypeCorrect, LogInvariant,
           DeliveryInvariant, KeyInvariant, PTL
        DEF Spec, DeliversAsPromised, Promised!Promise
=============================================================================
