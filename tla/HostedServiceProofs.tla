------------------------- MODULE HostedServiceProofs -------------------------
(***************************************************************************)
(* Proofs about HostedGateway and HostedContent, for any number of         *)
(* threads, keys, requests, crashes and events and any limits: the audit,  *)
(* the completed claims, the one request in flight for a key, and the      *)
(* cursor of a consumer of the content store.                              *)
(***************************************************************************)
EXTENDS HostedGateway, HostedContent, WellFoundedInduction, TLAPS

-----------------------------------------------------------------------------
(* HostedGateway: the inductive invariant                                  *)

\* Before the mutation; the stages of a claimed request.
Before == {"claim", "check", "consume", "authorize", "refuse", "mutate", "failed"}
Flying == {"check", "consume", "authorize", "refuse", "mutate", "failed",
           "allowed", "complete", "abandon"}
Stages == Before \cup Flying \cup {"answer"}

Filled(s) ==
  /\ s = [at |-> s.at, req |-> s.req, asked |-> s.asked, key |-> s.key,
          session |-> s.session, expires |-> s.expires, answer |-> s.answer]
  /\ s.at \in Stages /\ s.asked \in Asked /\ s.key \in RequestKeys /\ s.expires \in Nat

Busy(h) == handling[h].at # "idle"

ClaimRows == [key : RequestKeys, project : {o.on : o \in Asked},
              state : {"pending", "complete"}, expires : Nat]

\* A request is in one thread.
HandlingType ==
  /\ tick \in Nat /\ requests \in Nat /\ claimed \in SUBSET ClaimRows
  /\ handling = [h \in Handlers |-> handling[h]]
  /\ \A h \in Handlers : handling[h] = NoRequest \/ Filled(handling[h])
  /\ \A h \in Handlers : Busy(h) => handling[h].req \in 1..requests
  /\ \A g, h \in Handlers :
       Busy(g) /\ Busy(h) /\ handling[g].req = handling[h].req => g = h

\* AuditIsTrue row by row, and what a request has on record at each stage.
AuditRows ==
  /\ mutated \in SUBSET (1..requests)
  /\ \A x \in security : x.req \in 1..requests
  /\ \A r \in mutated : \E x \in security : x.req = r /\ x.decision = "attempted"
  /\ \A x \in security : x.decision = "allowed" => x.req \in mutated
  /\ \A x \in security : x.decision \in {"failed", "denied"} => x.req \notin mutated
AuditOf(h) ==
  /\ handling[h].at \in Before =>
       /\ handling[h].req \notin mutated
       /\ \A x \in security : x.req = handling[h].req => x.decision = "attempted"
  /\ handling[h].at \in {"mutate", "failed"} =>
       \E x \in security : x.req = handling[h].req /\ x.decision = "attempted"
  /\ handling[h].at = "allowed" => handling[h].req \in mutated

\* Where the project of a request is known to be there.
RootOf(h) ==
  /\ handling[h].at \in {"allowed", "complete"} /\ ByClaim(h) => handling[h].asked.on \in roots
  /\ handling[h].at \in {"claim", "check", "complete", "abandon"} => ByClaim(h)
  /\ Busy(h) /\ handling[h].answer = "created" =>
       handling[h].at = "answer" /\ handling[h].asked.on \in roots
CompleteRows == \A c \in claimed : c.state = "complete" => c.project \in roots

\* The row a request in flight holds.
ClaimOf(h) ==
  /\ handling[h].expires > tick
  /\ \E c \in claimed :
       /\ c.key = handling[h].key /\ c.project = handling[h].asked.on
       /\ c.state = "pending" /\ c.expires = handling[h].expires
ClaimsHeld == ~overrun => \A h \in Handlers : InFlight(h) => ClaimOf(h)

GatewayInv ==
  /\ HandlingType
  /\ AuditRows /\ \A h \in Handlers : AuditOf(h)
  /\ CompleteRows /\ \A h \in Handlers : RootOf(h)
  /\ ClaimsHeld /\ SingleFlight

-----------------------------------------------------------------------------
(* A thread moves its request                                              *)

\* The request of h goes on to stage a, and nobody else's moves.
Onward(h, a, e, w) ==
  /\ handling' = [g \in Handlers |-> handling'[g]]
  /\ \A g \in Handlers \ {h} : handling'[g] = handling[g]
  /\ Filled(handling'[h])
  /\ handling'[h].at = a /\ handling'[h].expires = e /\ handling'[h].answer = w
  /\ handling'[h].req = handling[h].req /\ handling'[h].asked = handling[h].asked
  /\ handling'[h].key = handling[h].key

LEMMA BusyFilled ==
  ASSUME HandlingType, NEW h \in Handlers, Busy(h)
  PROVE  Filled(handling[h])
BY DEF HandlingType, Busy, NoRequest

LEMMA GotoOnward ==
  ASSUME HandlingType, NEW h \in Handlers, Busy(h), NEW a \in Stages, Goto(h, a)
  PROVE  Onward(h, a, handling[h].expires, handling[h].answer)
<1> DEFINE s == handling[h]
           t == [at |-> a, req |-> s.req, asked |-> s.asked, key |-> s.key,
                 session |-> s.session, expires |-> s.expires, answer |-> s.answer]
<1>1. Filled(s)
  BY BusyFilled
<1>2. [s EXCEPT !.at = a] = t
  BY <1>1 DEF Filled
<1>3. Filled(t)
  BY <1>1 DEF Filled
<1>4. handling' = [handling EXCEPT ![h] = t]
  BY <1>2 DEF Goto, To
<1>5. handling' = [g \in Handlers |-> IF g = h THEN t ELSE handling[g]]
  BY <1>4 DEF HandlingType
<1> HIDE DEF s
<1> QED BY <1>3, <1>5 DEF Onward, s

LEMMA EndingOnward ==
  ASSUME HandlingType, NEW h \in Handlers, Busy(h), NEW a \in Stages, NEW w, Ending(h, a, w)
  PROVE  Onward(h, a, handling[h].expires, w)
<1> DEFINE s == handling[h]
           t == [at |-> a, req |-> s.req, asked |-> s.asked, key |-> s.key,
                 session |-> s.session, expires |-> s.expires, answer |-> w]
<1>1. Filled(s)
  BY BusyFilled
<1>2. [s EXCEPT !.at = a, !.answer = w] = t
  <2>1. PICK u : u = [s EXCEPT !.at = a]
    OBVIOUS
  <2>2. u = [at |-> a, req |-> s.req, asked |-> s.asked, key |-> s.key,
             session |-> s.session, expires |-> s.expires, answer |-> s.answer]
    BY <1>1, <2>1 DEF Filled
  <2>3. [u EXCEPT !.answer = w] = t
    BY <2>2
  <2> QED BY <2>1, <2>3
<1>3. Filled(t)
  BY <1>1 DEF Filled
<1>4. handling' = [handling EXCEPT ![h] = t]
  BY <1>2 DEF Ending, To
<1>5. handling' = [g \in Handlers |-> IF g = h THEN t ELSE handling[g]]
  BY <1>4 DEF HandlingType
<1> HIDE DEF s
<1> QED BY <1>3, <1>5 DEF Onward, s

LEMMA RaiseOnward ==
  ASSUME HandlingType, NEW h \in Handlers, Busy(h), NEW w, Raise(h, w)
  PROVE  Onward(h, IF ByClaim(h) THEN "abandon" ELSE "answer", handling[h].expires, w)
<1>1. (IF ByClaim(h) THEN "abandon" ELSE "answer") \in Stages
  BY DEF Stages, Flying
<1> QED BY <1>1, EndingOnward DEF Raise

LEMMA ClaimOnward ==
  ASSUME HandlingType, NEW h \in Handlers, Busy(h), NEW e \in Nat,
         To(h, [handling[h] EXCEPT !.at = "check", !.expires = e])
  PROVE  Onward(h, "check", e, handling[h].answer)
<1> DEFINE s == handling[h]
           t == [at |-> "check", req |-> s.req, asked |-> s.asked, key |-> s.key,
                 session |-> s.session, expires |-> e, answer |-> s.answer]
<1>1. Filled(s)
  BY BusyFilled
<1>2. [s EXCEPT !.at = "check", !.expires = e] = t
  <2>1. PICK u : u = [s EXCEPT !.at = "check"]
    OBVIOUS
  <2>2. u = [at |-> "check", req |-> s.req, asked |-> s.asked, key |-> s.key,
             session |-> s.session, expires |-> s.expires, answer |-> s.answer]
    BY <1>1, <2>1 DEF Filled
  <2>3. [u EXCEPT !.expires = e] = t
    BY <2>2
  <2> QED BY <2>1, <2>3
<1>3. Filled(t)
  BY <1>1 DEF Filled, Stages, Flying
<1>4. handling' = [handling EXCEPT ![h] = t]
  BY <1>2 DEF To
<1>5. handling' = [g \in Handlers |-> IF g = h THEN t ELSE handling[g]]
  BY <1>4 DEF HandlingType
<1> HIDE DEF s
<1> QED BY <1>3, <1>5 DEF Onward, s

-----------------------------------------------------------------------------
(* Types                                                                   *)

LEMMA OnwardType ==
  ASSUME HandlingType, NEW h \in Handlers, Busy(h), NEW a \in Stages, NEW e, NEW w,
         Onward(h, a, e, w), tick' = tick, requests' = requests, claimed' \in SUBSET ClaimRows
  PROVE  HandlingType'
<1>1. \A g \in Handlers : handling'[g] = NoRequest \/ Filled(handling'[g])
  BY DEF HandlingType, Onward
<1>2. \A g \in Handlers : Busy(g)' => Busy(g) /\ handling'[g].req = handling[g].req
  BY DEF Onward, Busy
<1>3. \A g \in Handlers : Busy(g)' => handling'[g].req \in 1..requests'
  BY <1>2 DEF HandlingType
<1>4. \A f, g \in Handlers :
        Busy(f)' /\ Busy(g)' /\ handling'[f].req = handling'[g].req => f = g
  BY <1>2 DEF HandlingType
<1> QED BY <1>1, <1>3, <1>4 DEF HandlingType, Onward

\* A thread that is done with its request, or all when the process dies.
LEMMA IdleType ==
  ASSUME HandlingType, tick' \in Nat, requests' = requests, claimed' = claimed,
         handling' = [g \in Handlers |-> handling'[g]],
         \A g \in Handlers : handling'[g] \in {handling[g], NoRequest}
  PROVE  HandlingType'
<1>1. \A g \in Handlers : handling'[g] = NoRequest \/ Filled(handling'[g])
  BY DEF HandlingType
<1>2. \A g \in Handlers : Busy(g)' => Busy(g) /\ handling'[g].req = handling[g].req
  BY DEF Busy, NoRequest
<1>3. \A g \in Handlers : Busy(g)' => handling'[g].req \in 1..requests'
  BY <1>2 DEF HandlingType
<1>4. \A f, g \in Handlers :
        Busy(f)' /\ Busy(g)' /\ handling'[f].req = handling'[g].req => f = g
  BY <1>2 DEF HandlingType
<1> QED BY <1>1, <1>3, <1>4 DEF HandlingType

\* What a new request starts as.
LEMMA Arriving ==
  ASSUME HandlingType, NEW h \in Handlers, NEW login \in logins, NEW asked \in Asked,
         NEW key \in RequestKeys, Arrive(h, login, asked, key)
  PROVE  /\ HandlingType'
         /\ \A g \in Handlers \ {h} : handling'[g] = handling[g]
         /\ handling'[h].at \in {"claim", "consume"}
         /\ handling'[h].req = requests + 1 /\ requests' = requests + 1
         /\ handling'[h].asked = asked /\ handling'[h].answer = "none"
         /\ handling'[h].at = "consume" <=> asked.action # "project_create"
<1> DEFINE t == [at |-> IF asked.action = "project_create" THEN "claim" ELSE "consume",
                 req |-> requests + 1, asked |-> asked, key |-> key,
                 session |-> LoadSession(login), expires |-> 0, answer |-> "none"]
<1>1. /\ t.at \in {"claim", "consume"} /\ t.req = requests + 1 /\ t.asked = asked
      /\ t.answer = "none"
      /\ t.at = "consume" <=> asked.action # "project_create"
  OBVIOUS
<1>2. Filled(t)
  BY DEF Filled, Stages, Before
<1>3. handling' = [g \in Handlers |-> IF g = h THEN t ELSE handling[g]]
  BY DEF HandlingType, Arrive, To
<1>4. requests' = requests + 1 /\ tick' = tick /\ claimed' = claimed
  BY DEF Arrive
<1> HIDE DEF t
<1>5. /\ handling' = [g \in Handlers |-> handling'[g]] /\ handling'[h] = t
      /\ \A g \in Handlers \ {h} : handling'[g] = handling[g]
  BY <1>3
<1>6. \A g \in Handlers : handling'[g] = NoRequest \/ Filled(handling'[g])
  BY <1>2, <1>5 DEF HandlingType
<1>7. \A g \in Handlers \ {h} : Busy(g)' => Busy(g) /\ handling'[g].req \in 1..requests
  BY <1>5 DEF HandlingType, Busy
<1>8. requests + 1 \notin 1..requests /\ 1..requests \subseteq 1..(requests + 1)
      /\ requests + 1 \in 1..(requests + 1) /\ requests + 1 \in Nat
  BY DEF HandlingType
<1>9. \A g \in Handlers : Busy(g)' => handling'[g].req \in 1..requests'
  BY <1>1, <1>4, <1>5, <1>7, <1>8
<1>10. \A f, g \in Handlers :
         Busy(f)' /\ Busy(g)' /\ handling'[f].req = handling'[g].req => f = g
  <2> SUFFICES ASSUME NEW f \in Handlers, NEW g \in Handlers, Busy(f)', Busy(g)',
                      handling'[f].req = handling'[g].req
               PROVE  f = g
    OBVIOUS
  <2>1. CASE f # h /\ g # h
    BY <2>1, <1>5 DEF HandlingType, Busy
  <2>2. CASE f = h \/ g = h
    BY <2>2, <1>1, <1>5, <1>7, <1>8
  <2> QED BY <2>1, <2>2
<1>11. HandlingType'
  BY <1>4, <1>5, <1>6, <1>8, <1>9, <1>10 DEF HandlingType
<1> QED BY <1>1, <1>4, <1>5, <1>11

LEMMA ClaimedTypes ==
  ASSUME HandlingType, NEW h \in Handlers
  PROVE  /\ ClaimNew(h) => claimed' \in SUBSET ClaimRows
         /\ Complete(h) \/ Abandon(h) => claimed' \in SUBSET ClaimRows
<1>1. ASSUME ClaimNew(h) PROVE claimed' \in SUBSET ClaimRows
  <2>1. Busy(h)
    BY <1>1 DEF ClaimNew, Busy
  <2>2. Filled(handling[h]) /\ tick + Retention \in Nat
    BY <2>1, BusyFilled, GatewayAssumption DEF HandlingType
  <2>3. [key |-> handling[h].key, project |-> handling[h].asked.on,
         state |-> "pending", expires |-> tick + Retention] \in ClaimRows
    BY <2>2 DEF Filled, ClaimRows
  <2> QED BY <1>1, <2>3 DEF ClaimNew, Live, HandlingType
<1>2. ASSUME NEW c \in ClaimRows PROVE [c EXCEPT !.state = "complete"] \in ClaimRows
  BY DEF ClaimRows
<1>3. ASSUME Complete(h) \/ Abandon(h) PROVE claimed' \in SUBSET ClaimRows
  BY <1>2, <1>3 DEF Complete, Abandon, Mine, MineByKey, HandlingType
<1> QED BY <1>1, <1>3

-----------------------------------------------------------------------------
(* Frames: what a step of one thread leaves as it was                      *)

\* Rows added by h are about its own request.
LEMMA OthersAudited ==
  ASSUME HandlingType, \A g \in Handlers : AuditOf(g),
         NEW h \in Handlers, Busy(h), NEW a, NEW e, NEW w, Onward(h, a, e, w),
         security \subseteq security', mutated \subseteq mutated',
         \A x \in security' : x \in security \/ x.req = handling[h].req,
         \A r \in mutated' : r \in mutated \/ r = handling[h].req
  PROVE  \A g \in Handlers \ {h} : AuditOf(g)'
<1> SUFFICES ASSUME NEW g \in Handlers \ {h} PROVE AuditOf(g)'
  OBVIOUS
<1>1. handling'[g] = handling[g] /\ AuditOf(g)
  BY DEF Onward
<1>2. Busy(g) => handling[g].req # handling[h].req
  BY DEF HandlingType
<1>3. handling[g].at \in Before \cup {"allowed"} => Busy(g)
  BY DEF Busy, Before
<1> QED BY <1>1, <1>2, <1>3 DEF AuditOf

LEMMA AuditKept ==
  ASSUME GatewayInv, NEW h \in Handlers, Busy(h), NEW a, NEW e, NEW w, Onward(h, a, e, w),
         security' = security, mutated' = mutated, requests' = requests,
         a \in Before => handling[h].at \in Before,
         a = "failed" => handling[h].at = "mutate", a \notin {"mutate", "allowed"}
  PROVE  AuditRows' /\ \A g \in Handlers : AuditOf(g)'
<1>1. AuditRows'
  BY DEF GatewayInv, AuditRows
<1>2. \A g \in Handlers \ {h} : AuditOf(g)'
  BY OthersAudited DEF GatewayInv
<1>3. AuditOf(h)'
  BY DEF GatewayInv, AuditOf, Onward
<1> QED BY <1>1, <1>2, <1>3

LEMMA RootsKept ==
  ASSUME GatewayInv, NEW h \in Handlers, Busy(h), NEW a, NEW e, NEW w, Onward(h, a, e, w),
         roots \subseteq roots', RootOf(h)',
         \A c \in claimed' : c.state = "complete" => c.project \in roots
  PROVE  CompleteRows' /\ \A g \in Handlers : RootOf(g)'
<1>1. \A g \in Handlers \ {h} : RootOf(g)'
  BY DEF GatewayInv, RootOf, Onward, ByClaim, Busy
<1>2. CompleteRows'
  BY DEF CompleteRows
<1> QED BY <1>1, <1>2

\* A request in flight keeps its row, whoever moves.
LEMMA FlightKept ==
  ASSUME GatewayInv, NEW h \in Handlers, Busy(h), NEW a, NEW e, NEW w, Onward(h, a, e, w),
         tick' = tick, overrun' = overrun, InFlight(h)' => InFlight(h) /\ e = handling[h].expires,
         ~overrun => \A g \in Handlers : InFlight(g)' => \A c \in claimed :
           c.key = handling[g].key /\ c.project = handling[g].asked.on /\ c.state = "pending"
             => c \in claimed'
  PROVE  ClaimsHeld' /\ SingleFlight'
<1>1. \A g \in Handlers \ {h} : (InFlight(g)' <=> InFlight(g)) /\ handling'[g] = handling[g]
  BY DEF InFlight, ByClaim, Onward
<1>2. \A g \in Handlers : InFlight(g)' =>
        /\ InFlight(g) /\ handling'[g].key = handling[g].key
        /\ handling'[g].asked = handling[g].asked /\ handling'[g].expires = handling[g].expires
  BY <1>1 DEF Onward
<1>3. SingleFlight'
  BY <1>2 DEF GatewayInv, SingleFlight
<1>4. ASSUME ~overrun', NEW g \in Handlers, InFlight(g)' PROVE ClaimOf(g)'
  <2>1. ClaimOf(g) /\ ~overrun
    BY <1>2, <1>4 DEF GatewayInv, ClaimsHeld
  <2>2. PICK c \in claimed :
          /\ c.key = handling[g].key /\ c.project = handling[g].asked.on
          /\ c.state = "pending" /\ c.expires = handling[g].expires
    BY <2>1 DEF ClaimOf
  <2>3. c \in claimed'
    BY <1>4, <2>1, <2>2
  <2> QED BY <1>2, <1>4, <2>1, <2>2, <2>3 DEF ClaimOf
<1> QED BY <1>3, <1>4 DEF ClaimsHeld

\* A step on the way that touches neither the stores nor the claims.
LEMMA Passing ==
  ASSUME GatewayInv, NEW h \in Handlers, Busy(h), NEW a \in Stages, NEW w,
         Onward(h, a, handling[h].expires, w),
         UNCHANGED <<tick, claimed, security, requests, mutated, overrun>>,
         roots \subseteq roots', RootOf(h)',
         a \in Before => handling[h].at \in Before,
         a = "failed" => handling[h].at = "mutate", a \notin {"mutate", "allowed"},
         a \in Flying => handling[h].at \in Flying
  PROVE  GatewayInv'
<1>1. HandlingType'
  <2>1. claimed' \in SUBSET ClaimRows
    BY DEF GatewayInv, HandlingType
  <2> QED BY <2>1, OnwardType DEF GatewayInv
<1>2. AuditRows' /\ \A g \in Handlers : AuditOf(g)'
  BY AuditKept
<1>3. CompleteRows' /\ \A g \in Handlers : RootOf(g)'
  BY RootsKept DEF GatewayInv, CompleteRows
<1>4. InFlight(h)' => InFlight(h)
  BY DEF Onward, InFlight, ByClaim, Flying
<1>5. ClaimsHeld' /\ SingleFlight'
  BY <1>4, FlightKept
<1> QED BY <1>1, <1>2, <1>3, <1>5 DEF GatewayInv

-----------------------------------------------------------------------------
(* The steps of a request                                                  *)

\* A new request has no record and no claim.
LEMMA ArriveKeeps ==
  ASSUME GatewayInv, NEW h \in Handlers, NEW login \in logins, NEW asked \in Asked,
         NEW key \in RequestKeys, Arrive(h, login, asked, key)
  PROVE  GatewayInv'
<1>1. /\ HandlingType'
      /\ \A g \in Handlers \ {h} : handling'[g] = handling[g]
      /\ handling'[h].at \in {"claim", "consume"}
      /\ handling'[h].req = requests + 1 /\ requests' = requests + 1
      /\ handling'[h].asked = asked /\ handling'[h].answer = "none"
      /\ handling'[h].at = "consume" <=> asked.action # "project_create"
  BY Arriving DEF GatewayInv
<1>2. /\ UNCHANGED <<tick, claimed, security, roots, mutated, overrun>>
  BY DEF Arrive, identityVars
<1>3. requests + 1 \notin 1..requests /\ 1..requests \subseteq 1..(requests + 1)
  BY DEF GatewayInv, HandlingType
<1>4. AuditRows'
  BY <1>1, <1>2, <1>3 DEF GatewayInv, AuditRows
<1>5. AuditOf(h)'
  BY <1>1, <1>2, <1>3 DEF GatewayInv, AuditRows, AuditOf
<1>6. \A g \in Handlers \ {h} : AuditOf(g)'
  BY <1>1, <1>2 DEF GatewayInv, AuditOf
<1>7. CompleteRows' /\ \A g \in Handlers \ {h} : RootOf(g)'
  BY <1>1, <1>2 DEF GatewayInv, CompleteRows, RootOf, ByClaim, Busy
<1>8. RootOf(h)'
  BY <1>1 DEF RootOf, ByClaim
<1>9. ~InFlight(h)'
  BY <1>1 DEF InFlight, ByClaim
<1>10. \A g \in Handlers : InFlight(g)' =>
         g # h /\ InFlight(g) /\ handling'[g] = handling[g]
  BY <1>1, <1>9 DEF InFlight, ByClaim
<1>11. SingleFlight' /\ ClaimsHeld'
  BY <1>2, <1>10 DEF GatewayInv, SingleFlight, ClaimsHeld, ClaimOf
<1> QED BY <1>1, <1>4, <1>5, <1>6, <1>7, <1>8, <1>11 DEF GatewayInv

\* The claim of a request: nobody in flight has its key, whose row would be live.
LEMMA ClaimNewKeeps ==
  ASSUME GatewayInv, NEW h \in Handlers, ClaimNew(h)
  PROVE  GatewayInv'
<1> DEFINE row == [key |-> handling[h].key, project |-> handling[h].asked.on,
                   state |-> "pending", expires |-> tick + Retention]
<1>1. Busy(h) /\ handling[h].at = "claim" /\ Taken(h) = {}
  BY DEF ClaimNew, Busy
<1>2. /\ UNCHANGED <<tick, security, roots, requests, mutated, overrun>>
      /\ claimed' = Live \cup {row}
  BY DEF ClaimNew, identityVars, boundVars
<1>3. tick + Retention \in Nat /\ tick + Retention > tick
  BY GatewayAssumption DEF GatewayInv, HandlingType
<1>4. Onward(h, "check", tick + Retention, handling[h].answer)
  <2>1. To(h, [handling[h] EXCEPT !.at = "check", !.expires = tick + Retention])
    BY DEF ClaimNew
  <2> QED BY <1>1, <1>3, <2>1, ClaimOnward DEF GatewayInv
<1>5. HandlingType'
  <2>1. claimed' \in SUBSET ClaimRows /\ "check" \in Stages
    BY ClaimedTypes DEF GatewayInv, Stages, Before
  <2> QED BY <1>1, <1>2, <1>4, <2>1, OnwardType DEF GatewayInv
<1>6. AuditRows' /\ \A g \in Handlers : AuditOf(g)'
  <2>1. "check" \in Before => handling[h].at \in Before
    BY <1>1 DEF Before
  <2> QED BY <1>1, <1>2, <1>4, <2>1, AuditKept
<1>7. \A c \in claimed' : c \in claimed \/ c = row
  BY <1>2 DEF Live
<1>8. ByClaim(h) /\ ByClaim(h)'
  <2>1. ByClaim(h)
    BY <1>1 DEF GatewayInv, RootOf
  <2> QED BY <2>1, <1>4 DEF ByClaim, Onward
<1>9. CompleteRows' /\ \A g \in Handlers : RootOf(g)'
  <2>1. \A c \in claimed' : c.state = "complete" => c.project \in roots
    BY <1>7 DEF GatewayInv, CompleteRows
  <2>2. RootOf(h)'
    BY <1>1, <1>2, <1>4, <1>8 DEF GatewayInv, RootOf, Onward, Busy
  <2> QED BY <1>1, <1>2, <1>4, <2>1, <2>2, RootsKept
<1>10. \A g \in Handlers \ {h} : (InFlight(g)' <=> InFlight(g)) /\ handling'[g] = handling[g]
  BY <1>4 DEF InFlight, ByClaim, Onward
<1>11. ASSUME ~overrun', NEW g \in Handlers \ {h}, InFlight(g)'
       PROVE  ClaimOf(g)' /\ handling[g].key # handling[h].key
  <2>1. ClaimOf(g)
    BY <1>2, <1>10, <1>11 DEF GatewayInv, ClaimsHeld
  <2>2. PICK c \in claimed :
          /\ c.key = handling[g].key /\ c.project = handling[g].asked.on
          /\ c.state = "pending" /\ c.expires = handling[g].expires
    BY <2>1 DEF ClaimOf
  <2>3. c \in Live
    BY <2>1, <2>2 DEF ClaimOf, Live
  <2>4. handling[g].key # handling[h].key
    BY <1>1, <2>2, <2>3 DEF Taken
  <2>5. c \in claimed'
    BY <1>2, <2>3
  <2> QED BY <1>2, <1>10, <2>1, <2>2, <2>4, <2>5 DEF ClaimOf
<1>12. ClaimOf(h)'
  <2>1. row \in claimed'
    BY <1>2
  <2> QED BY <1>2, <1>3, <1>4, <2>1 DEF ClaimOf, Onward
<1>13. ClaimsHeld'
  BY <1>11, <1>12 DEF ClaimsHeld
<1>14. SingleFlight'
  <2>1. \A f, g \in Handlers \ {h} :
          ~overrun /\ InFlight(f) /\ InFlight(g) /\ handling[f].key = handling[g].key => f = g
    BY DEF GatewayInv, SingleFlight
  <2>2. handling'[h].key = handling[h].key
    BY <1>4 DEF Onward
  <2> QED BY <1>2, <1>10, <1>11, <2>1, <2>2 DEF SingleFlight
<1> QED BY <1>5, <1>6, <1>9, <1>13, <1>14 DEF GatewayInv

LEMMA ClaimTakenKeeps ==
  ASSUME GatewayInv, NEW h \in Handlers, ClaimTaken(h)
  PROVE  GatewayInv'
<1>1. Busy(h) /\ handling[h].at = "claim"
  BY DEF ClaimTaken, Busy
<1>2. PICK c \in Taken(h) :
        Ending(h, "answer",
               IF c.project # handling[h].asked.on THEN "conflict"
               ELSE IF c.state = "pending" THEN "in_progress" ELSE "created")
  BY DEF ClaimTaken
<1>3. PICK w : /\ Ending(h, "answer", w)
               /\ w = "created" => c.project = handling[h].asked.on /\ c.state # "pending"
  BY <1>2
<1>4. Onward(h, "answer", handling[h].expires, w) /\ "answer" \in Stages
  <2>1. "answer" \in Stages
    BY DEF Stages
  <2> QED BY <1>1, <1>3, <2>1, EndingOnward DEF GatewayInv
<1>5. c \in ClaimRows /\ c \in claimed
  BY DEF Taken, Live, GatewayInv, HandlingType
<1>6. w = "created" => handling[h].asked.on \in roots
  BY <1>3, <1>5 DEF ClaimRows, GatewayInv, CompleteRows
<1>7. /\ UNCHANGED <<tick, claimed, security, requests, mutated, overrun>>
      /\ roots' = roots
  BY DEF ClaimTaken, identityVars, boundVars
<1>8. RootOf(h)'
  BY <1>4, <1>6, <1>7 DEF RootOf, Onward
<1>9. "answer" \notin Before /\ "answer" \notin Flying
  BY DEF Before, Flying
<1> QED BY <1>1, <1>4, <1>7, <1>8, <1>9, Passing

\* Raising from a stage of the way: to the abandonment, or to the answer.
LEMMA RaiseKeeps ==
  ASSUME GatewayInv, NEW h \in Handlers, Busy(h), NEW w, Raise(h, w), w # "created",
         handling[h].at \in Flying,
         UNCHANGED <<tick, claimed, security, requests, mutated, overrun>>, roots' = roots
  PROVE  GatewayInv'
<1> DEFINE a == IF ByClaim(h) THEN "abandon" ELSE "answer"
<1>1. Onward(h, a, handling[h].expires, w)
  BY RaiseOnward DEF GatewayInv
<1>2. /\ a \in Stages /\ a \notin Before /\ a \notin {"mutate", "allowed", "failed"}
      /\ a = "abandon" => ByClaim(h)
      /\ a \in {"abandon", "answer"}
  BY DEF Stages, Flying, Before
<1> HIDE DEF a
<1>3. RootOf(h)'
  BY <1>1, <1>2 DEF RootOf, Onward, ByClaim
<1> QED BY <1>1, <1>2, <1>3, Passing

LEMMA CheckKeeps ==
  ASSUME GatewayInv, NEW h \in Handlers, Check(h)
  PROVE  GatewayInv'
<1>1. /\ Busy(h) /\ handling[h].at = "check"
      /\ handling[h].at \in Flying /\ handling[h].at \in Before
  BY DEF Check, Busy, Flying, Before
<1>2. UNCHANGED <<tick, claimed, security, requests, mutated, overrun>> /\ roots' = roots
  BY DEF Check, identityVars, boundVars
<1>3. CASE Goto(h, "consume")
  <2>1. "consume" \in Stages
    BY DEF Stages, Before
  <2>2. Onward(h, "consume", handling[h].expires, handling[h].answer)
    BY <1>1, <1>3, <2>1, GotoOnward DEF GatewayInv
  <2>3. RootOf(h)'
    BY <1>1, <1>2, <2>2 DEF GatewayInv, RootOf, Onward, ByClaim, Busy
  <2> QED BY <1>1, <1>2, <2>1, <2>2, <2>3, Passing
<1>4. CASE Raise(h, "error")
  BY <1>1, <1>2, <1>4, RaiseKeeps
<1> QED BY <1>3, <1>4 DEF Check

LEMMA ConsumeKeeps ==
  ASSUME GatewayInv, NEW h \in Handlers, Consume(h)
  PROVE  GatewayInv'
<1>1. /\ Busy(h) /\ handling[h].at = "consume"
      /\ handling[h].at \in Flying /\ handling[h].at \in Before
  BY DEF Consume, Busy, Flying, Before
<1>2. UNCHANGED <<tick, claimed, security, requests, mutated, overrun>> /\ roots' = roots
  BY DEF Consume, identityVars, boundVars
<1>3. PICK a, w : /\ a \in {"refuse", "authorize"}
                  /\ Onward(h, a, handling[h].expires, w)
                  /\ w # "created"
  <2>1. "refuse" \in Stages /\ "authorize" \in Stages
    BY DEF Stages, Before
  <2>2. handling[h].answer # "created"
    BY <1>1 DEF GatewayInv, RootOf, Busy
  <2>3. Ending(h, "refuse", "rate_limited") \/ Goto(h, "authorize")
    BY DEF Consume
  <2> QED BY <1>1, <2>1, <2>2, <2>3, GotoOnward, EndingOnward DEF GatewayInv
<1>4. RootOf(h)'
  BY <1>1, <1>2, <1>3 DEF GatewayInv, RootOf, Onward, ByClaim, Busy
<1>5. a \in Stages /\ a \notin {"failed", "mutate", "allowed"}
  BY <1>3 DEF Stages, Before
<1> QED BY <1>1, <1>2, <1>3, <1>4, <1>5, Passing

\* A step that puts a row about the request of h on record.
LEMMA AuditedKeeps ==
  ASSUME GatewayInv, NEW h \in Handlers, Busy(h), NEW a \in Stages, NEW w,
         Onward(h, a, handling[h].expires, w), NEW decision, Audit(h, decision),
         UNCHANGED <<tick, claimed, requests, mutated, overrun>>, roots' = roots,
         handling[h].at \in Flying, RootOf(h)', AuditOf(h)',
         decision = "allowed" => handling[h].req \in mutated,
         decision \in {"failed", "denied"} => handling[h].req \notin mutated
  PROVE  GatewayInv'
<1> DEFINE row == [req |-> handling[h].req, decision |-> decision]
<1>1. security' = security \cup {row}
  BY DEF Audit
<1>2. HandlingType'
  <2>1. claimed' \in SUBSET ClaimRows
    BY DEF GatewayInv, HandlingType
  <2> QED BY <2>1, OnwardType DEF GatewayInv
<1>3. row.req = handling[h].req /\ row.decision = decision /\ row.req \in 1..requests
  BY DEF GatewayInv, HandlingType
<1> HIDE DEF row
<1>4. AuditRows'
  BY <1>1, <1>3 DEF GatewayInv, AuditRows
<1>5. \A g \in Handlers \ {h} : AuditOf(g)'
  BY <1>1, <1>3, OthersAudited DEF GatewayInv
<1>6. CompleteRows' /\ \A g \in Handlers : RootOf(g)'
  BY RootsKept DEF GatewayInv, CompleteRows
<1>7. InFlight(h)' => InFlight(h)
  BY DEF Onward, InFlight, ByClaim, Flying
<1>8. ClaimsHeld' /\ SingleFlight'
  BY <1>7, FlightKept
<1> QED BY <1>2, <1>4, <1>5, <1>6, <1>8 DEF GatewayInv

LEMMA AuthorizeKeeps ==
  ASSUME GatewayInv, NEW h \in Handlers, Authorize(h)
  PROVE  GatewayInv'
<1>1. /\ Busy(h) /\ handling[h].at = "authorize"
      /\ handling[h].at \in Flying /\ handling[h].at \in Before
  BY DEF Authorize, Busy, Flying, Before
<1>2. UNCHANGED <<tick, claimed, requests, mutated, overrun>> /\ roots' = roots
  BY DEF Authorize, identityVars, boundVars
<1>3. handling[h].answer # "created"
  BY <1>1 DEF GatewayInv, RootOf, Busy
<1>4. CASE Ending(h, "refuse", "denied") /\ UNCHANGED security
  <2>1. "refuse" \in Stages
    BY DEF Stages, Before
  <2>2. Onward(h, "refuse", handling[h].expires, "denied")
    BY <1>1, <1>4, <2>1, EndingOnward DEF GatewayInv
  <2>3. RootOf(h)'
    BY <2>2 DEF RootOf, Onward
  <2> QED BY <1>1, <1>2, <1>4, <2>1, <2>2, <2>3, Passing
<1>5. CASE Goto(h, "mutate") /\ FirstRow(h)
  <2>1. "mutate" \in Stages
    BY DEF Stages, Before
  <2>2. Onward(h, "mutate", handling[h].expires, handling[h].answer)
    BY <1>1, <1>5, <2>1, GotoOnward DEF GatewayInv
  <2>3. RootOf(h)'
    BY <1>3, <2>2 DEF RootOf, Onward
  <2>4. AuditOf(h)'
    <3>1. PICK x : /\ security' = security \cup {x}
                   /\ x.req = handling[h].req /\ x.decision = "attempted"
      <4> DEFINE row == [req |-> handling[h].req, decision |-> "attempted"]
      <4>1. security' = security \cup {row}
        BY <1>5 DEF FirstRow, Audit
      <4>2. row.req = handling[h].req /\ row.decision = "attempted"
        OBVIOUS
      <4> HIDE DEF row
      <4> QED BY <4>1, <4>2
    <3>2. AuditOf(h)
      BY DEF GatewayInv
    <3> QED BY <1>1, <1>2, <2>2, <3>1, <3>2 DEF AuditOf, Onward
  <2> QED BY <1>1, <1>2, <1>5, <2>1, <2>2, <2>3, <2>4, AuditedKeeps DEF FirstRow
<1>6. CASE Ending(h, "answer", "found") /\ UNCHANGED security
  <2>1. "answer" \in Stages /\ "answer" \notin Before /\ "answer" \notin Flying
    BY DEF Stages, Before, Flying
  <2>2. Onward(h, "answer", handling[h].expires, "found")
    BY <1>1, <1>6, <2>1, EndingOnward DEF GatewayInv
  <2>3. RootOf(h)'
    BY <2>2 DEF RootOf, Onward
  <2> QED BY <1>1, <1>2, <1>6, <2>1, <2>2, <2>3, Passing
<1> QED BY <1>4, <1>5, <1>6 DEF Authorize

\* A refusal is recorded about a request that did not mutate.
LEMMA RefuseKeeps ==
  ASSUME GatewayInv, NEW h \in Handlers, Refuse(h)
  PROVE  GatewayInv'
<1> DEFINE a == IF ByClaim(h) THEN "abandon" ELSE "answer"
<1>1. /\ Busy(h) /\ handling[h].at = "refuse"
      /\ handling[h].at \in Flying /\ handling[h].at \in Before
  BY DEF Refuse, Busy, Flying, Before
<1>2. UNCHANGED <<tick, claimed, requests, mutated, overrun>> /\ roots' = roots
  BY DEF Refuse, identityVars, boundVars
<1>3. handling[h].answer # "created"
  BY <1>1 DEF GatewayInv, RootOf, Busy
<1>4. Raise(h, handling[h].answer)
  BY DEF Refuse
<1>5. CASE UNCHANGED security
  BY <1>1, <1>2, <1>3, <1>4, <1>5, RaiseKeeps
<1>6. CASE Audit(h, "denied")
  <2>1. Onward(h, a, handling[h].expires, handling[h].answer)
    BY <1>1, <1>4, RaiseOnward DEF GatewayInv
  <2>2. /\ a \in Stages /\ a \notin Before /\ a \notin {"mutate", "failed", "allowed"}
        /\ a = "abandon" => ByClaim(h)
        /\ a \in {"abandon", "answer"}
    BY DEF Stages, Flying, Before
  <2> HIDE DEF a
  <2>3. RootOf(h)' /\ AuditOf(h)'
    BY <1>3, <2>1, <2>2 DEF RootOf, AuditOf, Onward, ByClaim
  <2>4. handling[h].req \notin mutated
    BY <1>1 DEF GatewayInv, AuditOf
  <2> QED BY <1>1, <1>2, <1>6, <2>1, <2>2, <2>3, <2>4, AuditedKeeps
<1> QED BY <1>5, <1>6 DEF Refuse

\* Projects are only added, and a claimed request adds its own.
LEMMA OperationRoots ==
  ASSUME NEW o, Operation(o)
  PROVE  roots \subseteq roots' /\ (o.action = "project_create" => o.on \in roots')
BY DEF Operation, Provision, Grant, RevokeGrant, AssignRole, RevokeRole, IssueLogin,
       RevokeLogin, DeleteActor

LEMMA MutateKeeps ==
  ASSUME GatewayInv, NEW h \in Handlers, Mutate(h)
  PROVE  GatewayInv'
<1>1. /\ Busy(h) /\ handling[h].at = "mutate"
      /\ handling[h].at \in Flying /\ handling[h].at \in Before
  BY DEF Mutate, Busy, Flying, Before
<1>2. /\ UNCHANGED <<tick, claimed, security, requests, overrun>>
      /\ mutated' = mutated \cup {handling[h].req}
  BY DEF Mutate, boundVars
<1>3. roots \subseteq roots' /\ (ByClaim(h) => handling[h].asked.on \in roots')
  BY OperationRoots DEF Mutate, ByClaim
<1>4. "allowed" \in Stages /\ "allowed" \notin Before
  BY DEF Stages, Flying, Before
<1>5. Onward(h, "allowed", handling[h].expires, handling[h].answer)
  BY <1>1, <1>4, GotoOnward DEF GatewayInv, Mutate
<1>6. HandlingType'
  <2>1. claimed' \in SUBSET ClaimRows
    BY <1>2 DEF GatewayInv, HandlingType
  <2> QED BY <1>1, <1>2, <1>4, <1>5, <2>1, OnwardType DEF GatewayInv
<1>7. AuditRows'
  <2>1. /\ handling[h].req \in 1..requests
        /\ \A x \in security : x.req = handling[h].req => x.decision = "attempted"
        /\ \E x \in security : x.req = handling[h].req /\ x.decision = "attempted"
    BY <1>1 DEF GatewayInv, HandlingType, AuditOf
  <2> QED BY <1>2, <2>1 DEF GatewayInv, AuditRows
<1>8. AuditOf(h)'
  BY <1>2, <1>4, <1>5 DEF AuditOf, Onward
<1>9. \A g \in Handlers \ {h} : AuditOf(g)'
  BY <1>1, <1>2, <1>5, OthersAudited DEF GatewayInv
<1>10. RootOf(h)'
  <2>1. handling[h].answer # "created"
    BY <1>1 DEF GatewayInv, RootOf, Busy
  <2> QED BY <1>3, <1>5, <2>1 DEF RootOf, Onward, ByClaim
<1>11. CompleteRows' /\ \A g \in Handlers : RootOf(g)'
  BY <1>1, <1>2, <1>3, <1>5, <1>10, RootsKept DEF GatewayInv, CompleteRows
<1>12. InFlight(h)' => InFlight(h)
  BY <1>1, <1>5 DEF Onward, InFlight, ByClaim
<1>13. ClaimsHeld' /\ SingleFlight'
  BY <1>1, <1>2, <1>5, <1>12, FlightKept
<1> QED BY <1>6, <1>7, <1>8, <1>9, <1>11, <1>13 DEF GatewayInv

LEMMA MutateFailsKeeps ==
  ASSUME GatewayInv, NEW h \in Handlers, MutateFails(h)
  PROVE  GatewayInv'
<1>1. /\ Busy(h) /\ handling[h].at = "mutate"
      /\ handling[h].at \in Flying /\ handling[h].at \in Before
  BY DEF MutateFails, Busy, Flying, Before
<1>2. UNCHANGED <<tick, claimed, security, requests, mutated, overrun>> /\ roots' = roots
  BY DEF MutateFails, identityVars, boundVars
<1>3. "failed" \in Stages
  BY DEF Stages, Before
<1>4. Onward(h, "failed", handling[h].expires, handling[h].answer)
  BY <1>1, <1>3, GotoOnward DEF GatewayInv, MutateFails
<1>5. RootOf(h)'
  BY <1>1, <1>4 DEF GatewayInv, RootOf, Onward, Busy
<1> QED BY <1>1, <1>2, <1>3, <1>4, <1>5, Passing

LEMMA RecordFailedKeeps ==
  ASSUME GatewayInv, NEW h \in Handlers, RecordFailed(h)
  PROVE  GatewayInv'
<1> DEFINE a == IF ByClaim(h) THEN "abandon" ELSE "answer"
<1>1. /\ Busy(h) /\ handling[h].at = "failed"
      /\ handling[h].at \in Flying /\ handling[h].at \in Before
  BY DEF RecordFailed, Busy, Flying, Before
<1>2. UNCHANGED <<tick, claimed, requests, mutated, overrun>> /\ roots' = roots
  BY DEF RecordFailed, identityVars, boundVars
<1>3. Onward(h, a, handling[h].expires, "error")
  BY <1>1, RaiseOnward DEF GatewayInv, RecordFailed
<1>4. /\ a \in Stages /\ a \notin Before /\ a \notin {"mutate", "failed", "allowed"}
      /\ a = "abandon" => ByClaim(h)
      /\ a \in {"abandon", "answer"}
  BY DEF Stages, Flying, Before
<1> HIDE DEF a
<1>5. RootOf(h)' /\ AuditOf(h)'
  BY <1>3, <1>4 DEF RootOf, AuditOf, Onward, ByClaim
<1>6. handling[h].req \notin mutated
  BY <1>1 DEF GatewayInv, AuditOf
<1> QED BY <1>1, <1>2, <1>3, <1>4, <1>5, <1>6, AuditedKeeps DEF RecordFailed

LEMMA RecordAllowedKeeps ==
  ASSUME GatewayInv, NEW h \in Handlers, RecordAllowed(h)
  PROVE  GatewayInv'
<1>1. /\ Busy(h) /\ handling[h].at = "allowed" /\ handling[h].at \in Flying
  BY DEF RecordAllowed, Busy, Flying
<1>2. UNCHANGED <<tick, claimed, requests, mutated, overrun>> /\ roots' = roots
  BY DEF RecordAllowed, identityVars, boundVars
<1>3. handling[h].req \in mutated /\ handling[h].answer # "created"
  BY <1>1 DEF GatewayInv, AuditOf, RootOf, Busy
<1>4. PICK a, w :
        /\ a \in {"complete", "answer"} /\ Onward(h, a, handling[h].expires, w) /\ w # "created"
        /\ a = "complete" => ByClaim(h)
  <2>1. "complete" \in Stages /\ "answer" \in Stages
    BY DEF Stages, Flying
  <2>2. (ByClaim(h) /\ Goto(h, "complete")) \/ Ending(h, "answer", "done")
    BY DEF RecordAllowed
  <2> QED BY <1>1, <1>3, <2>1, <2>2, GotoOnward, EndingOnward DEF GatewayInv
<1>5. a \in Stages /\ a \notin Before /\ a \notin {"mutate", "failed", "allowed"}
  BY <1>4 DEF Stages, Flying, Before
<1>6. RootOf(h)' /\ AuditOf(h)'
  BY <1>1, <1>2, <1>4, <1>5 DEF GatewayInv, RootOf, AuditOf, Onward, ByClaim
<1> QED BY <1>1, <1>2, <1>3, <1>4, <1>5, <1>6, AuditedKeeps DEF RecordAllowed

\* The rows a request ends are its own: nobody else in flight has its key.
LEMMA OthersRows ==
  ASSUME GatewayInv, NEW h \in Handlers, InFlight(h), ~InFlight(h)',
         NEW a, NEW e, NEW w, Onward(h, a, e, w),
         \A c \in claimed : c \notin Mine(h) => c \in claimed'
  PROVE  ~overrun => \A g \in Handlers : InFlight(g)' => \A c \in claimed :
           c.key = handling[g].key /\ c.project = handling[g].asked.on /\ c.state = "pending"
             => c \in claimed'
<1> SUFFICES ASSUME ~overrun, NEW g \in Handlers, InFlight(g)', NEW c \in claimed,
                    c.key = handling[g].key
             PROVE  c \in claimed'
  OBVIOUS
<1>1. g # h
  OBVIOUS
<1>2. InFlight(g)
  BY <1>1 DEF InFlight, ByClaim, Onward
<1>3. handling[g].key # handling[h].key
  BY <1>1, <1>2 DEF GatewayInv, SingleFlight
<1> QED BY <1>3 DEF Mine, MineByKey

LEMMA CompleteKeeps ==
  ASSUME GatewayInv, NEW h \in Handlers, Complete(h)
  PROVE  GatewayInv'
<1>1. /\ Busy(h) /\ handling[h].at = "complete" /\ handling[h].at \in Flying
      /\ ByClaim(h) /\ InFlight(h) /\ handling[h].asked.on \in roots
  BY DEF Complete, Busy, Flying, InFlight, GatewayInv, RootOf
<1>2. UNCHANGED <<tick, security, requests, mutated, overrun>> /\ roots' = roots
  BY DEF Complete, identityVars, boundVars
<1>3. CASE Raise(h, "conflict") /\ UNCHANGED claimed
  BY <1>1, <1>2, <1>3, RaiseKeeps
<1>4. CASE /\ claimed' = (claimed \ Mine(h)) \cup {[c EXCEPT !.state = "complete"] : c \in Mine(h)}
           /\ Ending(h, "answer", "created")
  <2>1. "answer" \in Stages /\ "answer" \notin Before /\ "answer" \notin Flying
    BY DEF Stages, Before, Flying
  <2>2. Onward(h, "answer", handling[h].expires, "created")
    BY <1>1, <1>4, <2>1, EndingOnward DEF GatewayInv
  <2>3. HandlingType'
    <3>1. claimed' \in SUBSET ClaimRows
      BY ClaimedTypes DEF GatewayInv
    <3> QED BY <1>1, <1>2, <2>1, <2>2, <3>1, OnwardType DEF GatewayInv
  <2>4. AuditRows' /\ \A g \in Handlers : AuditOf(g)'
    BY <1>1, <1>2, <2>1, <2>2, AuditKept
  <2>5. \A c \in claimed' : c.state = "complete" => c.project \in roots
    <3>1. ASSUME NEW c \in Mine(h) PROVE [c EXCEPT !.state = "complete"].project \in roots
      <4>1. c \in ClaimRows /\ c.project = handling[h].asked.on
        BY DEF Mine, MineByKey, GatewayInv, HandlingType
      <4> QED BY <1>1, <4>1 DEF ClaimRows
    <3>2. \A c \in claimed : c.state = "complete" => c.project \in roots
      BY DEF GatewayInv, CompleteRows
    <3> QED BY <1>4, <3>1, <3>2
  <2>6. RootOf(h)'
    BY <1>1, <1>2, <2>2 DEF RootOf, Onward
  <2>7. CompleteRows' /\ \A g \in Handlers : RootOf(g)'
    BY <1>1, <1>2, <2>2, <2>5, <2>6, RootsKept
  <2>8. ~InFlight(h)'
    BY <2>2 DEF InFlight, Onward
  <2>9. \A c \in claimed : c \notin Mine(h) => c \in claimed'
    BY <1>4
  <2>10. ClaimsHeld' /\ SingleFlight'
    BY <1>1, <1>2, <2>2, <2>8, <2>9, OthersRows, FlightKept
  <2> QED BY <2>3, <2>4, <2>7, <2>10 DEF GatewayInv
<1> QED BY <1>3, <1>4 DEF Complete

LEMMA AbandonKeeps ==
  ASSUME GatewayInv, NEW h \in Handlers, Abandon(h)
  PROVE  GatewayInv'
<1>1. /\ Busy(h) /\ handling[h].at = "abandon" /\ ByClaim(h) /\ InFlight(h)
  BY DEF Abandon, Busy, InFlight, GatewayInv, RootOf
<1>2. /\ UNCHANGED <<tick, security, requests, mutated, overrun>> /\ roots' = roots
      /\ claimed' = claimed \ Mine(h)
  BY DEF Abandon, identityVars, boundVars
<1>3. "answer" \in Stages /\ "answer" \notin Before /\ "answer" \notin Flying
  BY DEF Stages, Before, Flying
<1>4. Onward(h, "answer", handling[h].expires, handling[h].answer)
  BY <1>1, <1>3, GotoOnward DEF GatewayInv, Abandon
<1>5. HandlingType'
  <2>1. claimed' \in SUBSET ClaimRows
    BY ClaimedTypes DEF GatewayInv
  <2> QED BY <1>1, <1>2, <1>3, <1>4, <2>1, OnwardType DEF GatewayInv
<1>6. AuditRows' /\ \A g \in Handlers : AuditOf(g)'
  BY <1>1, <1>2, <1>3, <1>4, AuditKept
<1>7. RootOf(h)'
  BY <1>1, <1>2, <1>4 DEF GatewayInv, RootOf, Onward, Busy
<1>8. CompleteRows' /\ \A g \in Handlers : RootOf(g)'
  BY <1>1, <1>2, <1>4, <1>7, RootsKept DEF GatewayInv, CompleteRows
<1>9. ~InFlight(h)'
  BY <1>4 DEF InFlight, Onward
<1>10. \A c \in claimed : c \notin Mine(h) => c \in claimed'
  BY <1>2
<1>11. ClaimsHeld' /\ SingleFlight'
  BY <1>1, <1>2, <1>4, <1>9, <1>10, OthersRows, FlightKept
<1> QED BY <1>5, <1>6, <1>8, <1>11 DEF GatewayInv

-----------------------------------------------------------------------------
(* Threads that stop, and the clock                                        *)

\* Whoever is not handling anything any more promises nothing.
LEMMA StoppingKeeps ==
  ASSUME GatewayInv, handling' = [g \in Handlers |-> handling'[g]],
         \A g \in Handlers : handling'[g] \in {handling[g], NoRequest},
         UNCHANGED <<tick, claimed, roots, security, requests, mutated, overrun>>
  PROVE  GatewayInv'
<1>1. HandlingType'
  BY IdleType DEF GatewayInv, HandlingType
<1>2. AuditRows' /\ CompleteRows'
  BY DEF GatewayInv, AuditRows, CompleteRows
<1>3. ASSUME NEW g \in Handlers PROVE AuditOf(g)' /\ RootOf(g)'
  <2>1. CASE handling'[g] = handling[g]
    BY <2>1 DEF GatewayInv, AuditOf, RootOf, ByClaim, Busy
  <2>2. CASE handling'[g] = NoRequest
    BY <2>2 DEF AuditOf, RootOf, Busy, NoRequest, Before
  <2> QED BY <2>1, <2>2
<1>4. \A g \in Handlers : InFlight(g)' => InFlight(g) /\ handling'[g] = handling[g]
  BY DEF InFlight, ByClaim, NoRequest
<1>5. ClaimsHeld' /\ SingleFlight'
  BY <1>4 DEF GatewayInv, ClaimsHeld, ClaimOf, SingleFlight
<1> QED BY <1>1, <1>2, <1>3, <1>5 DEF GatewayInv

LEMMA AnswerKeeps ==
  ASSUME GatewayInv, NEW h \in Handlers, Answer(h)
  PROVE  GatewayInv'
<1>1. handling' = [g \in Handlers |-> IF g = h THEN NoRequest ELSE handling[g]]
  BY DEF GatewayInv, HandlingType, Answer, To
<1>2. UNCHANGED <<tick, claimed, roots, security, requests, mutated, overrun>>
  BY DEF Answer, identityVars, boundVars
<1> QED BY <1>1, <1>2, StoppingKeeps

LEMMA ProcessDiesKeeps ==
  ASSUME GatewayInv, ProcessDies
  PROVE  GatewayInv'
<1>1. UNCHANGED <<tick, claimed, roots, security, requests, mutated, overrun>>
  BY DEF ProcessDies, identityVars
<1> QED BY <1>1, StoppingKeeps DEF ProcessDies

\* The clock notes when it passes the expiry of a claim in use.
LEMMA TickOnKeeps ==
  ASSUME GatewayInv, TickOn
  PROVE  GatewayInv'
<1>1. /\ UNCHANGED <<claimed, roots, security, handling, requests, mutated>>
      /\ tick' = tick + 1 /\ tick + 1 \in Nat
      /\ overrun' = (overrun \/ \E h \in Handlers :
                       InFlight(h) /\ handling[h].expires <= tick + 1)
  BY DEF TickOn, identityVars, boundVars, GatewayInv, HandlingType
<1>2. HandlingType'
  BY <1>1, IdleType DEF GatewayInv, HandlingType
<1>3. AuditRows' /\ CompleteRows' /\ \A g \in Handlers : AuditOf(g)' /\ RootOf(g)'
  BY <1>1 DEF GatewayInv, AuditRows, CompleteRows, AuditOf, RootOf, ByClaim, Busy
<1>4. ASSUME ~overrun' PROVE ~overrun /\ \A h \in Handlers :
        InFlight(h) => ~(handling[h].expires <= tick + 1)
  BY <1>1, <1>4
<1>5. \A h \in Handlers : InFlight(h)' <=> InFlight(h)
  BY <1>1 DEF InFlight, ByClaim
<1>6. SingleFlight'
  BY <1>1, <1>4, <1>5 DEF GatewayInv, SingleFlight
<1>7. ASSUME ~overrun', NEW h \in Handlers, InFlight(h) PROVE ClaimOf(h)'
  <2>1. ClaimOf(h) /\ ~(handling[h].expires <= tick + 1)
    BY <1>4, <1>7 DEF GatewayInv, ClaimsHeld
  <2>2. handling[h].expires \in Nat /\ tick \in Nat
    BY <1>7, BusyFilled DEF GatewayInv, HandlingType, InFlight, Busy, Filled
  <2> QED BY <1>1, <2>1, <2>2 DEF ClaimOf
<1> QED BY <1>2, <1>3, <1>5, <1>6, <1>7 DEF GatewayInv, ClaimsHeld

-----------------------------------------------------------------------------
(* The theorems                                                            *)

LEMMA GatewayStart == GatewayInit => GatewayInv
<1> SUFFICES ASSUME GatewayInit PROVE GatewayInv
  OBVIOUS
<1>1. \A h \in Handlers : handling[h] = NoRequest /\ handling[h].at = "idle"
  BY DEF GatewayInit, NoRequest
<1>2. HandlingType
  BY <1>1 DEF GatewayInit, HandlingType, Busy
<1>3. AuditRows /\ CompleteRows
  BY DEF GatewayInit, AuditRows, CompleteRows
<1>4. \A h \in Handlers : AuditOf(h) /\ RootOf(h) /\ ~InFlight(h)
  BY <1>1 DEF AuditOf, RootOf, InFlight, Busy, Before
<1> QED BY <1>2, <1>3, <1>4 DEF GatewayInv, ClaimsHeld, SingleFlight

LEMMA GatewayStep == GatewayInv /\ [GatewayNext]_gatewayVars => GatewayInv'
<1> SUFFICES ASSUME GatewayInv, [GatewayNext]_gatewayVars PROVE GatewayInv'
  OBVIOUS
<1>1. ASSUME NEW h \in Handlers, HandlerStep(h) PROVE GatewayInv'
  <2>1. CASE \E login \in logins, asked \in Asked, key \in RequestKeys :
               Arrive(h, login, asked, key)
    BY <2>1, ArriveKeeps
  <2>2. CASE ClaimNew(h) \/ ClaimTaken(h) \/ Check(h) \/ Consume(h) \/ Authorize(h)
    BY <2>2, ClaimNewKeeps, ClaimTakenKeeps, CheckKeeps, ConsumeKeeps, AuthorizeKeeps
  <2>3. CASE Refuse(h) \/ Mutate(h) \/ MutateFails(h) \/ RecordFailed(h) \/ RecordAllowed(h)
    BY <2>3, RefuseKeeps, MutateKeeps, MutateFailsKeeps, RecordFailedKeeps, RecordAllowedKeeps
  <2>4. CASE Complete(h) \/ Abandon(h) \/ Answer(h)
    BY <2>4, CompleteKeeps, AbandonKeeps, AnswerKeeps
  <2> QED BY <1>1, <2>1, <2>2, <2>3, <2>4 DEF HandlerStep
<1>2. CASE UNCHANGED gatewayVars
  <2>1. UNCHANGED <<tick, claimed, roots, security, handling, requests, mutated, overrun>>
    BY <1>2 DEF gatewayVars, identityVars, boundVars
  <2>2. handling' = [g \in Handlers |-> handling'[g]]
    BY <2>1 DEF GatewayInv, HandlingType
  <2> QED BY <2>1, <2>2, StoppingKeeps
<1> QED BY <1>1, <1>2, TickOnKeeps, ProcessDiesKeeps DEF GatewayNext

THEOREM GatewayInvariant == GatewaySpec => []GatewayInv
BY GatewayStart, GatewayStep, PTL DEF GatewaySpec

\* "allowed" on record is a mutation that was committed, a mutation that was
\* committed is on record as attempted, and "denied" or "failed" is one that
\* was not: wherever the process dies (hosted_administration.py).
THEOREM AuditIsAlwaysTrue == GatewaySpec => []AuditIsTrue
<1>1. GatewayInv => AuditIsTrue
  BY DEF GatewayInv, AuditRows, AuditIsTrue
<1> QED BY <1>1, GatewayInvariant, PTL

\* The project of a claim that was completed, and of a request answered
\* "created", is there, whichever claims expired under their requests.
THEOREM CompletedIsAlwaysTrue == GatewaySpec => []CompletedIsTrue
<1>1. GatewayInv => CompletedIsTrue
  BY DEF GatewayInv, CompleteRows, RootOf, CompletedIsTrue, Busy
<1> QED BY <1>1, GatewayInvariant, PTL

\* Unless a claim expires under its request, one request with a key is
\* between its claim and its end.
THEOREM FlightsAreSingle == GatewaySpec => []SingleFlight
<1>1. GatewayInv => SingleFlight
  BY DEF GatewayInv
<1> QED BY <1>1, GatewayInvariant, PTL

-----------------------------------------------------------------------------
(* HostedContent: the cursor of a consumer                                 *)

\* The greatest of bounded numbers is one of them.
LEMMA MaxOfNumbers ==
  ASSUME NEW S \in SUBSET Nat, S # {}, NEW k \in Nat, \A x \in S : x <= k
  PROVE  Max(S) \in S /\ \A x \in S : x <= Max(S)
<1> DEFINE Bounds == {b \in Nat : \A x \in S : x <= b}
<1>1. PICK b \in Bounds : \A c \in Bounds : <<c, b>> \notin OpToRel(<, Nat)
  <2>1. Bounds \subseteq Nat /\ Bounds # {}
    OBVIOUS
  <2> HIDE DEF Bounds
  <2> QED BY <2>1, WFMin, NatLessThanWellFounded, Zenon
<1>2. \A c \in Bounds : ~(c < b)
  <2>1. Bounds \subseteq Nat
    OBVIOUS
  <2> HIDE DEF Bounds
  <2> QED BY <1>1, <2>1, Zenon DEF OpToRel
<1>3. b \in S
  <2>1. SUFFICES ASSUME b \notin S PROVE FALSE
    OBVIOUS
  <2>2. \A x \in S : x <= b /\ x # b
    BY <2>1
  <2>3. PICK x \in S : x <= b /\ x # b /\ x \in Nat
    BY <2>2
  <2>4. b - 1 \in Nat /\ \A y \in S : y <= b - 1
    BY <2>2, <2>3
  <2> QED BY <1>2, <2>4
<1>4. \A x \in S : b >= x
  OBVIOUS
<1> QED BY <1>3, <1>4 DEF Max

\* A row of an event, of a project among ps.
EventRow(e, ps) == e.project \in ps /\ e.seq \in 1..ever /\ e.at \in Nat

\* A cursor is not beyond every number there is and every number deleted.
CursorFollowed ==
  \A p \in HostedProjects :
    cursor[p] <= gone[p] \/ \E e \in EventsOf(p) : cursor[p] <= e.seq

\* An archive holds what a store once held.
ContentInv ==
  /\ time \in Nat /\ ever \in Nat
  /\ projects \subseteq HostedProjects /\ archive.projects \subseteq HostedProjects
  /\ writing \in [Writers -> {NotWriting} \cup [project : HostedProjects, size : Sizes, at : Nat]]
  /\ cursor \in [HostedProjects -> Nat] /\ gone \in [HostedProjects -> Nat]
  /\ polled = [p \in HostedProjects |-> polled[p]]
  /\ \A e \in events : EventRow(e, projects)
  /\ \A e \in archive.events : EventRow(e, archive.projects)
  /\ projects # {} => tenant
  /\ CursorFollowed
  /\ PolledUpToCursor

LEMMA NumbersOf ==
  ASSUME ContentInv, NEW es \in SUBSET events
  PROVE  /\ EventNumbers(es) \in SUBSET Nat /\ \A x \in EventNumbers(es) : x <= ever
         /\ es # {} => EventNumbers(es) # {}
BY DEF ContentInv, EventRow, EventNumbers

\* A new event has a number beyond the cursor, unless one as great was deleted.
LEMMA RecordTxKeeps ==
  ASSUME ContentInv, NEW w \in Writers, RecordTx(w)
  PROVE  ContentInv'
<1> DEFINE r == writing[w]
           n == NextNumber(r.project)
           new == [project |-> r.project, seq |-> n, at |-> r.at, size |-> r.size,
                   id |-> ever + 1]
           numbers == EventNumbers(EventsOf(r.project))
<1>1. /\ r \in [project : HostedProjects, size : Sizes, at : Nat] /\ r.project \in projects
      /\ events' = events \cup {new} /\ ever' = ever + 1
      /\ writing' = [writing EXCEPT ![w] = NotWriting]
      /\ excused' = IF n <= gone[r.project] THEN excused \cup {new.id} ELSE excused
      /\ UNCHANGED <<time, tenant, projects, cursor, polled, gone, archive>>
  BY DEF RecordTx, ContentInv, Referenced, consumerVars
<1>2. numbers \in SUBSET Nat /\ \A x \in numbers : x <= ever
  BY NumbersOf DEF EventsOf
<1>3. n \in 1..(ever + 1) /\ \A x \in numbers : x < n
  <2> HIDE DEF numbers, n
  <2>1. ever \in Nat /\ {0} \cup numbers \in SUBSET Nat /\ {0} \cup numbers # {}
        /\ \A x \in {0} \cup numbers : x <= ever
    BY <1>2 DEF ContentInv
  <2>2. PICK greatest \in {0} \cup numbers :
          greatest = Max({0} \cup numbers) /\ \A x \in {0} \cup numbers : x <= greatest
    BY <2>1, MaxOfNumbers
  <2>3. n = greatest + 1
    BY <2>2 DEF NextNumber, numbers, n
  <2>4. greatest \in Nat /\ greatest <= ever
    BY <2>1, <2>2
  <2>5. n \in 1..(ever + 1)
    BY <2>1, <2>3, <2>4
  <2>6. ASSUME NEW x \in numbers PROVE x < n
    <3>1. x \in Nat /\ x <= greatest
      BY <2>1, <2>2
    <3> QED BY <2>3, <2>4, <3>1
  <2> QED BY <2>5, <2>6
<1>4. \A e \in EventsOf(r.project) : e.seq < n
  BY <1>3 DEF EventNumbers
<1>5. new.project = r.project /\ new.seq = n /\ new.at = r.at
  OBVIOUS
<1> HIDE DEF new, n, numbers, r
<1>6. \A e \in events' : EventRow(e, projects)'
  <2>1. ever \in Nat /\ 1..ever \subseteq 1..(ever + 1)
    BY DEF ContentInv
  <2> QED BY <1>1, <1>3, <1>5, <2>1 DEF ContentInv, EventRow
<1>7. \A e \in archive.events : EventRow(e, archive.projects)'
  <2>1. ever \in Nat /\ 1..ever \subseteq 1..(ever + 1)
    BY DEF ContentInv
  <2> QED BY <1>1, <2>1 DEF ContentInv, EventRow
<1>8. CursorFollowed'
  BY <1>1 DEF ContentInv, CursorFollowed, EventsOf
<1>9. PolledUpToCursor'
  <2> SUFFICES ASSUME NEW p \in HostedProjects, NEW e \in EventsOf(p)', e.seq <= cursor[p]
               PROVE  e.id \in polled[p] \cup excused'
    BY <1>1 DEF PolledUpToCursor
  <2>1. CASE e \in events
    BY <1>1, <2>1 DEF ContentInv, PolledUpToCursor, EventsOf
  <2>2. CASE e = new /\ ~(n <= gone[r.project])
    <3>1. p = r.project /\ e.seq = n
      BY <1>5, <2>2 DEF EventsOf
    <3>2. \/ cursor[p] <= gone[p]
          \/ \E f \in EventsOf(p) : cursor[p] <= f.seq /\ f.seq < n
      BY <1>4, <3>1 DEF ContentInv, CursorFollowed
    <3>3. /\ cursor[p] \in Nat /\ gone[p] \in Nat
          /\ \A f \in EventsOf(p) : f.seq \in Nat
      BY DEF ContentInv, EventRow, EventsOf
    <3>4. n \in Nat /\ ~(n <= gone[p])
      BY <1>3, <2>2, <3>1 DEF ContentInv
    <3> QED BY <3>1, <3>2, <3>3, <3>4
  <2>3. CASE e = new /\ n <= gone[r.project]
    BY <1>1, <2>3
  <2> QED BY <1>1, <2>1, <2>2, <2>3 DEF EventsOf
<1>10. writing' \in [Writers -> {NotWriting} \cup [project : HostedProjects, size : Sizes,
                                                   at : Nat]]
  BY <1>1 DEF ContentInv
<1> QED BY <1>1, <1>6, <1>7, <1>8, <1>9, <1>10 DEF ContentInv

\* A page ends with its greatest number, and every event up to it was given.
LEMMA PollKeeps ==
  ASSUME ContentInv, NEW p \in HostedProjects, Poll(p)
  PROVE  ContentInv'
<1> DEFINE page == After(p)
<1>1. /\ page \in SUBSET events /\ page # {}
      /\ polled' = [polled EXCEPT ![p] = @ \cup {e.id : e \in page}]
      /\ cursor' = [cursor EXCEPT ![p] = Max(EventNumbers(page))]
      /\ UNCHANGED <<time, tenant, projects, events, writing, ever, gone, excused, archive>>
  BY DEF Poll, After, EventsOf, deletedVars
<1>2. ever \in Nat /\ Max(EventNumbers(page)) \in EventNumbers(page)
  <2>1. ever \in Nat
    BY DEF ContentInv
  <2> HIDE DEF page
  <2> QED BY <1>1, <2>1, NumbersOf, MaxOfNumbers
<1>3. PICK last \in page : last.seq = Max(EventNumbers(page))
  BY <1>2 DEF EventNumbers
<1>4. /\ cursor' = [cursor EXCEPT ![p] = last.seq]
      /\ last \in EventsOf(p) /\ last \in events /\ last.seq \in Nat
  BY <1>1, <1>3 DEF After, EventsOf, ContentInv, EventRow
<1>5. cursor' \in [HostedProjects -> Nat] /\ polled' = [q \in HostedProjects |-> polled'[q]]
  BY <1>1, <1>4 DEF ContentInv
<1>6. CursorFollowed'
  BY <1>1, <1>4 DEF ContentInv, CursorFollowed, EventsOf
<1>8. PolledUpToCursor'
  <2> SUFFICES ASSUME NEW q \in HostedProjects, NEW e \in EventsOf(q), e.seq <= cursor'[q]
               PROVE  e.id \in polled'[q] \cup excused
    BY <1>1 DEF PolledUpToCursor, EventsOf
  <2>1. e.seq \in Nat /\ cursor[q] \in Nat
    BY DEF ContentInv, EventRow, EventsOf
  <2>2. CASE e.seq <= cursor[q]
    BY <1>1, <2>2 DEF ContentInv, PolledUpToCursor
  <2>3. CASE e.seq > cursor[q]
    <3>1. q = p
      BY <1>4, <2>1, <2>3 DEF ContentInv
    <3> QED BY <1>1, <2>3, <3>1 DEF After, ContentInv
  <2> QED BY <2>1, <2>2, <2>3
<1> QED BY <1>1, <1>5, <1>6, <1>8 DEF ContentInv, EventRow

\* A cursor that lapses is at 0, which is behind everything.
LEMMA CursorLapsesKeeps ==
  ASSUME ContentInv, NEW p \in HostedProjects, CursorLapses(p)
  PROVE  ContentInv'
<1>1. /\ cursor' = [cursor EXCEPT ![p] = 0]
      /\ UNCHANGED <<time, tenant, projects, events, writing, ever, polled, gone, excused,
                     archive>>
  BY DEF CursorLapses, deletedVars
<1>2. cursor' \in [HostedProjects -> Nat] /\ cursor'[p] = 0 /\ gone[p] \in Nat
      /\ \A q \in HostedProjects : q # p => cursor'[q] = cursor[q]
  BY <1>1 DEF ContentInv
<1>3. CursorFollowed'
  BY <1>1, <1>2 DEF ContentInv, CursorFollowed, EventsOf
<1>4. \A e \in events : e.seq \in Nat \ {0}
  BY DEF ContentInv, EventRow
<1>5. PolledUpToCursor'
  BY <1>1, <1>2, <1>4 DEF ContentInv, PolledUpToCursor, EventsOf
<1> QED BY <1>1, <1>2, <1>3, <1>5 DEF ContentInv, EventRow

\* A deletion of any events: a cursor stays where it is, at or before a number
\* that is there or was deleted.
LEMMA DeleteKeeps ==
  ASSUME ContentInv, NEW deleted, Delete(deleted),
         projects' \subseteq projects, projects' # {} => tenant',
         \A e \in events \ deleted : e.project \in projects'
  PROVE  ContentInv'
<1>1. /\ events' = events \ deleted
      /\ gone' = [p \in HostedProjects |->
                   Max({gone[p]} \cup EventNumbers(EventsOf(p) \cap deleted))]
      /\ UNCHANGED <<time, writing, ever, cursor, polled, excused, archive>>
  BY DEF Delete, consumerVars
<1>2. ASSUME NEW p \in HostedProjects
      PROVE  /\ gone'[p] \in Nat /\ gone[p] <= gone'[p]
             /\ \A e \in EventsOf(p) \cap deleted : e.seq <= gone'[p]
  <2> DEFINE numbers == {gone[p]} \cup EventNumbers(EventsOf(p) \cap deleted)
  <2>1. gone[p] \in Nat /\ ever \in Nat
    BY DEF ContentInv
  <2>2. EventsOf(p) \cap deleted \in SUBSET events
    BY DEF EventsOf
  <2>3. /\ EventNumbers(EventsOf(p) \cap deleted) \in SUBSET Nat
        /\ \A x \in EventNumbers(EventsOf(p) \cap deleted) : x <= ever
    BY <2>2, NumbersOf
  <2>4. numbers \in SUBSET Nat /\ numbers # {} /\ gone[p] + ever \in Nat
    <3> DEFINE old == EventNumbers(EventsOf(p) \cap deleted)
    <3>1. old \in SUBSET Nat
      BY <2>3
    <3> HIDE DEF old
    <3>2. {gone[p]} \cup old \in SUBSET Nat /\ {gone[p]} \cup old # {}
      BY <2>1, <3>1
    <3> QED BY <2>1, <3>2 DEF old
  <2>5. \A x \in numbers : x <= gone[p] + ever
    BY <2>1, <2>3
  <2>6. gone'[p] = Max(numbers)
    BY <1>1
  <2>7. \A e \in EventsOf(p) \cap deleted : e.seq \in numbers
    BY DEF EventNumbers
  <2>8. gone[p] \in numbers
    OBVIOUS
  <2> HIDE DEF numbers
  <2>9. Max(numbers) \in numbers /\ \A x \in numbers : x <= Max(numbers)
    BY <2>4, <2>5, MaxOfNumbers
  <2> QED BY <2>4, <2>6, <2>7, <2>8, <2>9
<1>3. gone' \in [HostedProjects -> Nat]
  <2>1. gone' = [p \in HostedProjects |-> gone'[p]]
    BY <1>1
  <2> QED BY <1>2, <2>1
<1>4. CursorFollowed'
  <2> SUFFICES ASSUME NEW p \in HostedProjects
               PROVE  cursor[p] <= gone'[p] \/ \E e \in EventsOf(p)' : cursor[p] <= e.seq
    BY <1>1 DEF CursorFollowed
  <2>1. /\ cursor[p] \in Nat /\ gone[p] \in Nat /\ gone'[p] \in Nat
        /\ \A e \in EventsOf(p) : e.seq \in Nat
    BY <1>2 DEF ContentInv, EventRow, EventsOf
  <2>2. CASE cursor[p] <= gone[p]
    BY <1>2, <2>1, <2>2
  <2>3. ASSUME NEW e \in EventsOf(p), cursor[p] <= e.seq, e \in deleted
        PROVE  cursor[p] <= gone'[p]
    BY <1>2, <2>1, <2>3
  <2>4. ASSUME NEW e \in EventsOf(p), e \notin deleted
        PROVE  e \in EventsOf(p)'
    BY <1>1, <2>4 DEF EventsOf
  <2> QED BY <2>2, <2>3, <2>4 DEF ContentInv, CursorFollowed
<1>5. PolledUpToCursor'
  BY <1>1 DEF ContentInv, PolledUpToCursor, EventsOf
<1>6. \A e \in events' : EventRow(e, projects)'
  BY <1>1 DEF ContentInv, EventRow
<1> QED BY <1>1, <1>3, <1>4, <1>5, <1>6 DEF ContentInv, EventRow

LEMMA RemovingKeeps ==
  ASSUME ContentInv,
         \/ EraseTenant
         \/ \E p \in HostedProjects : EraseProject(p)
         \/ \E cutoff \in Nat : Retain(cutoff)
  PROVE  ContentInv'
<1>1. CASE EraseTenant
  BY <1>1, DeleteKeeps DEF EraseTenant
<1>2. ASSUME NEW p \in HostedProjects, EraseProject(p) PROVE ContentInv'
  <2>1. /\ projects' = projects \ {p} /\ Delete(EventsOf(p)) /\ tenant' = tenant
    BY <1>2 DEF EraseProject
  <2>2. \A e \in events \ EventsOf(p) : e.project \in projects'
    BY <2>1 DEF EventsOf, ContentInv, EventRow
  <2>3. projects' # {} => tenant'
    BY <2>1 DEF ContentInv
  <2> QED BY <2>1, <2>2, <2>3, DeleteKeeps
<1>3. ASSUME NEW cutoff \in Nat, Retain(cutoff) PROVE ContentInv'
  <2>1. Delete({e \in events : e.at < cutoff}) /\ UNCHANGED <<tenant, projects>>
    BY <1>3 DEF Retain
  <2>2. /\ projects' # {} => tenant'
        /\ \A e \in events : e.project \in projects'
    BY <2>1 DEF ContentInv, EventRow
  <2> QED BY <2>1, <2>2, DeleteKeeps
<1> QED BY <1>1, <1>2, <1>3

\* What a restore brings back is excused; there was no event before it.
LEMMA RestoreTenantKeeps ==
  ASSUME ContentInv, RestoreTenant
  PROVE  ContentInv'
<1>1. /\ ~tenant /\ tenant' = TRUE
      /\ projects' = archive.projects /\ events' = archive.events
      /\ excused' = excused \cup {e.id : e \in archive.events}
      /\ UNCHANGED <<time, writing, ever, cursor, polled, gone, archive>>
  BY DEF RestoreTenant, consumerVars
<1>2. \A e \in events' : EventRow(e, projects)'
  BY <1>1 DEF ContentInv, EventRow
<1>3. \A p \in HostedProjects : EventsOf(p) = {}
  BY <1>1 DEF ContentInv, EventRow, EventsOf
<1>4. CursorFollowed'
  BY <1>1, <1>3 DEF ContentInv, CursorFollowed
<1>5. PolledUpToCursor'
  BY <1>1 DEF PolledUpToCursor, EventsOf
<1> QED BY <1>1, <1>2, <1>4, <1>5 DEF ContentInv, EventRow

LEMMA OtherContentKeeps ==
  ASSUME ContentInv, UNCHANGED <<events, ever, cursor, polled, gone, excused>>,
         time' \in Nat, projects' \subseteq HostedProjects, projects \subseteq projects',
         writing' \in [Writers -> {NotWriting} \cup [project : HostedProjects, size : Sizes,
                                                     at : Nat]],
         projects' # {} => tenant',
         archive' = archive \/ archive' = [projects |-> projects, events |-> events,
                                           taken |-> TRUE]
  PROVE  ContentInv'
<1>1. \A e \in events' : EventRow(e, projects)'
  BY DEF ContentInv, EventRow
<1>2. /\ archive'.projects \subseteq HostedProjects
      /\ \A e \in archive'.events : EventRow(e, archive.projects)'
  <2>1. CASE archive' = archive
    BY <2>1 DEF ContentInv, EventRow
  <2>2. CASE archive' = [projects |-> projects, events |-> events, taken |-> TRUE]
    <3>1. archive'.projects = projects /\ archive'.events = events
      BY <2>2
    <3> QED BY <3>1 DEF ContentInv, EventRow
  <2> QED BY <2>1, <2>2
<1>3. CursorFollowed' /\ PolledUpToCursor'
  BY DEF ContentInv, CursorFollowed, PolledUpToCursor, EventsOf
<1> QED BY <1>1, <1>2, <1>3 DEF ContentInv

LEMMA ContentStart == ContentInit => ContentInv
BY DEF ContentInit, ContentInv, NotWriting, NoArchive, CursorFollowed, PolledUpToCursor,
       EventsOf

LEMMA ContentStep == ContentInv /\ [ContentNext]_contentVars => ContentInv'
<1> SUFFICES ASSUME ContentInv, [ContentNext]_contentVars PROVE ContentInv'
  OBVIOUS
<1>1. CASE TimePasses
  BY <1>1, OtherContentKeeps DEF TimePasses, ContentInv, consumerVars, deletedVars
<1>2. CASE ProvisionTenant
  BY <1>2, OtherContentKeeps DEF ProvisionTenant, ContentInv, consumerVars, deletedVars
<1>3. ASSUME NEW p \in HostedProjects, ProvisionProject(p) PROVE ContentInv'
  BY <1>3, OtherContentKeeps DEF ProvisionProject, ContentInv, consumerVars, deletedVars
<1>4. CASE Backup
  BY <1>4, OtherContentKeeps DEF Backup, ContentInv, consumerVars, deletedVars
<1>5. ASSUME NEW w \in Writers, NEW p \in HostedProjects, NEW size \in Sizes,
             RecordStart(w, p, size)
      PROVE  ContentInv'
  BY <1>5, OtherContentKeeps DEF RecordStart, ContentInv, consumerVars, deletedVars
<1>6. ASSUME NEW w \in Writers, RecordFails(w) PROVE ContentInv'
  BY <1>6, OtherContentKeeps DEF RecordFails, ContentInv, consumerVars, deletedVars
<1>7. ASSUME NEW cutoff \in 1..MaxTime, Retain(cutoff) PROVE ContentInv'
  <2>1. cutoff \in Nat
    BY ContentAssumption
  <2> QED BY <1>7, <2>1, RemovingKeeps
<1>8. CASE UNCHANGED contentVars
  BY <1>8, OtherContentKeeps DEF contentVars, ContentInv
<1> QED BY <1>1, <1>2, <1>3, <1>4, <1>5, <1>6, <1>7, <1>8, RecordTxKeeps, PollKeeps,
           CursorLapsesKeeps, RemovingKeeps, RestoreTenantKeeps DEF ContentNext

THEOREM ContentInvariant == ContentSpec => []ContentInv
BY ContentStart, ContentStep, PTL DEF ContentSpec

\* A consumer has been given every event up to its cursor, whatever is deleted,
\* erased, backed up and restored, but for events a restore brought back and
\* those under numbers that had been deleted (hosted_content.py).
THEOREM ConsumersMissNothing == ContentSpec => []PolledUpToCursor
<1>1. ContentInv => PolledUpToCursor
  BY DEF ContentInv
<1> QED BY <1>1, ContentInvariant, PTL

\* No event outlives its project and no project its tenant, although writers
\* chose their project before the transaction that records.
THEOREM RootsOutliveTheirRows == ContentSpec => []NothingOutlivesItsRoot
<1>1. ContentInv => NothingOutlivesItsRoot
  BY DEF ContentInv, NothingOutlivesItsRoot, EventRow
<1> QED BY <1>1, ContentInvariant, PTL
=============================================================================
