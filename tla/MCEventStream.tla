--------------------------- MODULE MCEventStream ---------------------------
(***************************************************************************)
(* Instances of EventStream for TLC.  The races come in three parts:       *)
(* writers among themselves, and pollers of one stream or a client that    *)
(* follows get_context, which a single writer feeds.  Readers change       *)
(* nothing of a writer's nor of each other's, so the three are checked by  *)
(* themselves; the initial state chooses which.  A fourth part is          *)
(* everything, for a small instance with fairness.                         *)
(***************************************************************************)
EXTENDS EventStream, TLC

CONSTANTS
  p1, p2, f1, k1, w1, w2,
  PollEvents,  \* bound on the events where pollers race
  FollowLimit  \* the page limit of the follower

\* The follower's pages are longer than a poller's: its budget must be able to
\* cut one anywhere.
Following == INSTANCE EventStream WITH Limit <- FollowLimit

VARIABLE part

partVars == <<vars, part>>

\* A message that may expire, and a note in another scope that may not.
Ping == [kind |-> "message", scope |-> NoScope, expires |-> TRUE]
Note == [kind |-> "note", scope |-> "api", expires |-> FALSE]

MCRequests == {Ping, Note}

\* Everything; messages only, as one scope sees them.
All == [consumer |-> "agent", kinds |-> {}, scope |-> NoScope]
Messages == [consumer |-> "agent", kinds |-> {Message}, scope |-> "web"]

MCStreams == {All, Messages}
OneStream == {Messages}

\* Two processes of one consumer share a stream, and a client follows it.
Readers == p1 :> Messages @@ p2 :> Messages @@ f1 :> Messages
Single == p1 :> Messages

-----------------------------------------------------------------------------
WritersNext ==
  \/ \E w \in Writers : WriterStep(w)
  \/ \E e \in events : Expire(e)

\* One writer without keys records up to n events, which may expire.
FeedNext(n) ==
  \/ \E r \in Requests : nextSeq <= n /\ RecordCall(w1, NoKey, r)
  \/ RecordTx(w1) \/ RecordEnd(w1)
  \/ \E e \in events : Expire(e)

PollersNext ==
  \/ FeedNext(PollEvents)
  \/ \E p \in Pollers : PollerStep(p)
  \/ \E s \in Streams : \E c \in AckInputs(s) : Acknowledge(s, c)

FollowersNext ==
  \/ FeedNext(MaxEvents)
  \/ \E f \in Followers : Following!FollowerStep(f)

WritersRace == part = "write" /\ WritersNext /\ UNCHANGED part
PollersRace == part = "poll" /\ PollersNext /\ UNCHANGED part
FollowersRace == part = "follow" /\ FollowersNext /\ UNCHANGED part
Everything == part = "all" /\ Next /\ UNCHANGED part

PartNext == WritersRace \/ PollersRace \/ FollowersRace \/ Everything

RaceInit == Init /\ part \in {"write", "poll", "follow"}
ConsumeInit == Init /\ part = "all"

RaceSpec == RaceInit /\ [][PartNext]_partVars
ConsumeSpec == ConsumeInit /\ [][PartNext]_partVars /\ Fairness
=============================================================================
