--------------------------- MODULE EventDelivery ---------------------------
(***************************************************************************)
(* What the event stream of a project promises, with no process, page or   *)
(* transaction in sight: an append-only log in which a keyed request       *)
(* appears once, and per stream two cursors.  The delivered cursor moves   *)
(* forward only over events that have been handed out or have expired, the *)
(* acknowledged cursor only up to the delivered one.                       *)
(***************************************************************************)
EXTENDS Integers

CONSTANTS Streams, Requests, Keys, NoKey, Wanted(_, _)

VARIABLES
  log,        \* the set of published events, numbered
  gone,       \* numbers of the expired ones
  delivered,  \* how far each stream has been delivered
  acked,      \* how far each stream has been acknowledged
  handed      \* numbers of the events handed out on each stream

dvars == <<log, gone, delivered, acked, handed>>

Start ==
  /\ log = {} /\ gone = {}
  /\ delivered = [s \in Streams |-> 0]
  /\ acked = [s \in Streams |-> 0]
  /\ handed = [s \in Streams |-> {}]

\* An event takes the next number; a key is used up by its event.
Publish(k, r) ==
  /\ \A e \in log : e.key = k => k = NoKey
  /\ \E e \in log' :
       /\ e.request = r /\ e.key = k
       /\ log' = log \cup {e}
       /\ \A d \in log : d.seq < e.seq
       /\ {d.seq : d \in log'} = 1..e.seq
  /\ UNCHANGED <<gone, delivered, acked, handed>>

Lapse == \E e \in log :
  /\ gone' = gone \cup {e.seq}
  /\ UNCHANGED <<log, delivered, acked, handed>>

\* Some events of the stream are handed out, and the cursor may move over
\* what has been.
Deliver(s) ==
  /\ delivered' \in [Streams -> Nat] /\ handed' \in [Streams -> SUBSET Nat]
  /\ \A t \in Streams \ {s} : /\ delivered'[t] = delivered[t]
                              /\ handed'[t] = handed[t]
  /\ delivered[s] <= delivered'[s]
  /\ handed[s] \subseteq handed'[s]
  /\ \A n \in handed'[s] : \E e \in log : e.seq = n /\ Wanted(s, e.request)
  /\ \A e \in log : e.seq <= delivered'[s] /\ Wanted(s, e.request)
       => e.seq \in handed'[s] \cup gone
  /\ delivered'[s] = 0 \/ \E e \in log : e.seq = delivered'[s]
  /\ UNCHANGED <<log, gone, acked>>

Confirm(s) ==
  /\ \E n \in acked[s]..delivered[s] : acked' = [acked EXCEPT ![s] = n]
  /\ UNCHANGED <<log, gone, delivered, handed>>

Move ==
  \/ \E k \in Keys \cup {NoKey}, r \in Requests : Publish(k, r)
  \/ Lapse
  \/ \E s \in Streams : Deliver(s) \/ Confirm(s)

Promise == Start /\ [][Move]_dvars
=============================================================================
