----------------------------- MODULE HostedGateway -----------------------------
(***************************************************************************)
(* A request to the hosted service: the idempotency claim of the API       *)
(* adapter (hosted_api.py, hosted_transport.py), the rate limit            *)
(* (hosted_limits.py), the decision (hosted_authorization.py,              *)
(* hosted_administration.py), the audited mutation of the identity store   *)
(* (hosted_identity.py) or the read of content (hosted_repository.py), and *)
(* the end of the claim.                                                   *)
(*                                                                         *)
(* A request runs in a thread of its own.  Claims, rate windows and the    *)
(* identity store are three databases; a lock makes each call on one of    *)
(* them a step, and a request is a sequence of such calls over a session   *)
(* it loaded at the start.  The process may die between any two.           *)
(*                                                                         *)
(* One tenant: rows of others share nothing with its rows.  The rows of a  *)
(* rate window are kept for the current window only (a row of an earlier   *)
(* one is never read again).                                               *)
(***************************************************************************)
EXTENDS Naturals, FiniteSets

CONSTANTS
  Handlers,     \* threads that handle requests
  RequestKeys,  \* idempotency keys
  Asked,        \* what is asked for: a set of [by, action, on], some with a kind
  Admin,        \* an actor with the role tenant_admin
  OtherActor,   \* the actor administration is about, a project_reader
  Root,         \* the project the reader is granted
  Retention,    \* idempotency_retention_seconds, in ticks
  RequestLimit, \* requests_per_window
  RateWindow,   \* window_seconds, in ticks
  LastTick,     \* bound on the clock
  MaxRequests,  \* bound on the requests
  MaxCrashes    \* bound on the deaths of the process

ASSUME GatewayAssumption ==
  /\ Retention \in Nat \ {0} /\ RequestLimit \in Nat \ {0} /\ RateWindow \in Nat \ {0}
  /\ LastTick \in Nat /\ MaxRequests \in Nat /\ MaxCrashes \in Nat

VARIABLES
  tick,      \* the wall clock
  claimed,    \* rows of hosted_idempotency
  rates,     \* [<<actor, action>> -> request_count of the current window]
  actors, roots, roles, grants, logins, \* rows of the identity store
  security,  \* rows of hosted_security_audit
  handling,  \* the request in progress of each thread
  requests,  \* requests so far
  crashes,   \* deaths so far
  mutated,   \* history: requests whose mutation was committed
  overrun    \* history: a claim expired under a request still in progress

identityVars == <<actors, roots, roles, grants, logins>>
boundVars == <<requests, crashes>>
gatewayVars == <<tick, claimed, rates, identityVars, security, handling, boundVars, mutated, overrun>>

Actions == {"project_create", "grant_admin", "session_admin", "actor_delete", "search"}
NoRequest == [at |-> "idle"]
NoRates == [b \in {Admin, OtherActor} \X Actions |-> 0]

GatewayInit ==
  /\ tick = 0 /\ claimed = {} /\ rates = NoRates
  /\ actors = {Admin, OtherActor} /\ roots = {Root} /\ grants = {<<OtherActor, Root>>}
  /\ roles = {<<Admin, "tenant_admin">>, <<OtherActor, "project_reader">>}
  /\ logins = {[id |-> a, actor |-> a, revoked |-> FALSE] : a \in {Admin, OtherActor}}
  /\ security = {} /\ handling = [h \in Handlers |-> NoRequest]
  /\ requests = 0 /\ crashes = 0 /\ mutated = {} /\ overrun = FALSE

To(h, s) == handling' = [handling EXCEPT ![h] = s]
Goto(h, at) == To(h, [handling[h] EXCEPT !.at = at])
Ending(h, at, answer) == To(h, [handling[h] EXCEPT !.at = at, !.answer = answer])

\* _dispatch: the creation of a project is claimed first; every other operation
\* goes straight to its gateway.
ByClaim(h) == handling[h].asked.action = "project_create"

\* What follows an exception: a claimed request abandons its claim.
Raise(h, answer) == Ending(h, IF ByClaim(h) THEN "abandon" ELSE "answer", answer)

-----------------------------------------------------------------------------
(* The request and its claim                                               *)

\* load_session: what the session may do is read once.
LoadSession(login) ==
  [actor |-> login.actor, active |-> ~login.revoked,
   roles |-> {r[2] : r \in {x \in roles : x[1] = login.actor}},
   projects |-> {g[2] : g \in {x \in grants : x[1] = login.actor}}]

Arrive(h, login, asked, key) ==
  /\ handling[h] = NoRequest /\ requests < MaxRequests /\ login.actor = asked.by
  /\ requests' = requests + 1
  /\ To(h, [at |-> IF asked.action = "project_create" THEN "claim" ELSE "consume",
            req |-> requests + 1, asked |-> asked, key |-> key,
            session |-> LoadSession(login), expires |-> 0, answer |-> "none"])
  /\ UNCHANGED <<tick, claimed, rates, identityVars, security, crashes, mutated, overrun>>

Live == {c \in claimed : c.expires > tick}

\* Fault in Taken: a pending claim of an equal request is taken over.
TakenIfComplete(h) == {c \in Live : c.key = handling[h].key /\ c.state = "complete"}

\* The live row of the request's key.
Taken(h) == {c \in Live : c.key = handling[h].key}

\* claim: expired rows go in the transaction of a new claim, and only there.
ClaimNew(h) ==
  LET expires == tick + Retention IN
  /\ handling[h].at = "claim" /\ Taken(h) = {}
  /\ claimed' = Live \cup {[key |-> handling[h].key, project |-> handling[h].asked.on,
                           state |-> "pending", expires |-> expires]}
  /\ To(h, [handling[h] EXCEPT !.at = "check", !.expires = expires])
  /\ UNCHANGED <<tick, rates, identityVars, security, boundVars, mutated, overrun>>

\* An equal request is answered with the stored response once it is complete.
ClaimTaken(h) ==
  /\ handling[h].at = "claim"
  /\ \E c \in Taken(h) :
       Ending(h, "answer",
              IF c.project # handling[h].asked.on THEN "conflict"
              ELSE IF c.state = "pending" THEN "in_progress" ELSE "created")
  /\ UNCHANGED <<tick, claimed, rates, identityVars, security, boundVars, mutated, overrun>>

\* The deadline and the cancellation are looked at before the mutation only.
Check(h) ==
  /\ handling[h].at = "check"
  /\ Goto(h, "consume") \/ Raise(h, "error")
  /\ UNCHANGED <<tick, claimed, rates, identityVars, security, boundVars, mutated, overrun>>

-----------------------------------------------------------------------------
(* The limit, the decision and the audit                                   *)

Spent(bucket) == rates[bucket] >= RequestLimit

\* consume: one transaction reads and adds, before the decision.
Consume(h) ==
  LET bucket == <<handling[h].session.actor, handling[h].asked.action>> IN
  /\ handling[h].at = "consume"
  /\ IF Spent(bucket) THEN /\ Ending(h, "refuse", "rate_limited")
                      /\ UNCHANGED rates
     ELSE /\ rates' = [rates EXCEPT ![bucket] = @ + 1]
          /\ Goto(h, "authorize")
  /\ UNCHANGED <<tick, claimed, identityVars, security, boundVars, mutated, overrun>>

Audit(h, decision) == security' = security \cup {[req |-> handling[h].req, decision |-> decision]}

\* authorize_admin_action and authorize_hosted_action over the loaded session.
Authorized(h) ==
  LET s == handling[h].session IN
  /\ s.active
  /\ IF handling[h].asked.action = "search"
     THEN /\ s.roles \cap {"project_reader", "tenant_admin", "service_reader"} # {}
          /\ handling[h].asked.on \in s.projects
     ELSE "tenant_admin" \in s.roles

\* Fault in FirstRow: the mutation is done before its attempt is on record.
FirstRowMissing(h) == UNCHANGED security

FirstRow(h) == Audit(h, "attempted")

\* A mutation is on record before it is made; a search stands for the four reads,
\* which are consume, authorize and a call of the content store alike.
Authorize(h) ==
  /\ handling[h].at = "authorize"
  /\ \/ /\ ~Authorized(h)
        /\ Ending(h, "refuse", "denied") /\ UNCHANGED security
     \/ /\ Authorized(h) /\ handling[h].asked.action # "search"
        /\ Goto(h, "mutate") /\ FirstRow(h)
     \/ /\ Authorized(h) /\ handling[h].asked.action = "search"
        /\ Ending(h, "answer", "found") /\ UNCHANGED security
  /\ UNCHANGED <<tick, claimed, rates, identityVars, boundVars, mutated, overrun>>

\* A refused mutation is on record; a refused read is not.
Refuse(h) ==
  /\ handling[h].at = "refuse"
  /\ IF handling[h].asked.action = "search" THEN UNCHANGED security ELSE Audit(h, "denied")
  /\ Raise(h, handling[h].answer)
  /\ UNCHANGED <<tick, claimed, rates, identityVars, boundVars, mutated, overrun>>

-----------------------------------------------------------------------------
(* The mutation: one disjunct per operation of the identity store.  A row  *)
(* that is there, or whose actor or project is not, is an error.           *)

Provision(project) ==
  /\ roots' = roots \cup {project}
  /\ UNCHANGED <<actors, roles, grants, logins>>
Grant(actor, project) ==
  /\ actor \in actors /\ project \in roots /\ <<actor, project>> \notin grants
  /\ grants' = grants \cup {<<actor, project>>}
  /\ UNCHANGED <<actors, roots, roles, logins>>
RevokeGrant(actor, project) ==
  /\ grants' = grants \ {<<actor, project>>}
  /\ UNCHANGED <<actors, roots, roles, logins>>
AssignRole(actor, role) ==
  /\ actor \in actors /\ <<actor, role>> \notin roles
  /\ roles' = roles \cup {<<actor, role>>}
  /\ UNCHANGED <<actors, roots, grants, logins>>
RevokeRole(actor, role) ==
  /\ roles' = roles \ {<<actor, role>>}
  /\ UNCHANGED <<actors, roots, grants, logins>>
IssueLogin(actor) ==
  /\ actor \in actors /\ \A l \in logins : l.id # "issued"
  /\ logins' = logins \cup {[id |-> "issued", actor |-> actor, revoked |-> FALSE]}
  /\ UNCHANGED <<actors, roots, roles, grants>>
RevokeLogin(id) ==
  /\ logins' = {IF l.id = id THEN [l EXCEPT !.revoked = TRUE] ELSE l : l \in logins}
  /\ UNCHANGED <<actors, roots, roles, grants>>
DeleteActor(actor) ==
  /\ actors' = actors \ {actor}
  /\ roles' = {r \in roles : r[1] # actor} /\ grants' = {g \in grants : g[1] # actor}
  /\ logins' = {l \in logins : l.actor # actor}
  /\ UNCHANGED roots

Operation(o) ==
  \/ o.action = "project_create" /\ Provision(o.on)
  \/ o.action = "grant_admin" /\ o.kind = "grant" /\ Grant(OtherActor, o.on)
  \/ o.action = "grant_admin" /\ o.kind = "revoke" /\ RevokeGrant(OtherActor, o.on)
  \/ o.action = "grant_admin" /\ o.kind = "assign_role" /\ AssignRole(OtherActor, "project_reader")
  \/ o.action = "grant_admin" /\ o.kind = "revoke_role" /\ RevokeRole(OtherActor, "project_reader")
  \/ o.action = "session_admin" /\ o.kind = "issue" /\ IssueLogin(OtherActor)
  \/ o.action = "session_admin" /\ o.kind = "revoke" /\ RevokeLogin(Admin)
  \/ o.action = "actor_delete" /\ DeleteActor(OtherActor)

Mutate(h) ==
  /\ handling[h].at = "mutate"
  /\ Operation(handling[h].asked)
  /\ mutated' = mutated \cup {handling[h].req}
  /\ Goto(h, "allowed")
  /\ UNCHANGED <<tick, claimed, rates, security, boundVars, overrun>>

\* The store refuses, or has no room left.
MutateFails(h) ==
  /\ handling[h].at = "mutate"
  /\ Goto(h, "failed")
  /\ UNCHANGED <<tick, claimed, rates, identityVars, security, boundVars, mutated, overrun>>

RecordFailed(h) ==
  /\ handling[h].at = "failed"
  /\ Audit(h, "failed") /\ Raise(h, "error")
  /\ UNCHANGED <<tick, claimed, rates, identityVars, boundVars, mutated, overrun>>

RecordAllowed(h) ==
  /\ handling[h].at = "allowed"
  /\ Audit(h, "allowed")
  /\ IF ByClaim(h) THEN Goto(h, "complete") ELSE Ending(h, "answer", "done")
  /\ UNCHANGED <<tick, claimed, rates, identityVars, boundVars, mutated, overrun>>

-----------------------------------------------------------------------------
(* The end of the claim and the answer                                     *)

\* Fault in Mine: the row is found by its key alone.
MineByKey(h) == {c \in claimed : c.key = handling[h].key /\ c.state = "pending"}

\* complete and abandon know the request by its digest, not the claim.
Mine(h) == {c \in MineByKey(h) : c.project = handling[h].asked.on}

Complete(h) ==
  /\ handling[h].at = "complete"
  /\ IF Mine(h) = {} THEN Raise(h, "conflict") /\ UNCHANGED claimed
     ELSE /\ claimed' = (claimed \ Mine(h)) \cup {[c EXCEPT !.state = "complete"] : c \in Mine(h)}
          /\ Ending(h, "answer", "created")
  /\ UNCHANGED <<tick, rates, identityVars, security, boundVars, mutated, overrun>>

Abandon(h) ==
  /\ handling[h].at = "abandon"
  /\ claimed' = claimed \ Mine(h)
  /\ Goto(h, "answer")
  /\ UNCHANGED <<tick, rates, identityVars, security, boundVars, mutated, overrun>>

\* The answer; a late deadline may hide it from the client.
Answer(h) ==
  /\ handling[h].at = "answer"
  /\ To(h, NoRequest)
  /\ UNCHANGED <<tick, claimed, rates, identityVars, security, boundVars, mutated, overrun>>

-----------------------------------------------------------------------------
(* The clock and the death of the process                                  *)

InFlight(h) == handling[h].at \in {"check", "consume", "authorize", "refuse", "mutate", "failed",
                                   "allowed", "complete", "abandon"} /\ ByClaim(h)

TickOn ==
  /\ tick < LastTick /\ tick' = tick + 1
  /\ rates' = IF (tick + 1) % RateWindow = 0 THEN NoRates ELSE rates
  /\ overrun' = (overrun \/ \E h \in Handlers : InFlight(h) /\ handling[h].expires <= tick + 1)
  /\ UNCHANGED <<claimed, identityVars, security, handling, boundVars, mutated>>

ProcessDies ==
  /\ crashes < MaxCrashes /\ crashes' = crashes + 1
  /\ handling' = [h \in Handlers |-> NoRequest]
  /\ UNCHANGED <<tick, claimed, rates, identityVars, security, requests, mutated, overrun>>

HandlerStep(h) ==
  \/ \E login \in logins, asked \in Asked, key \in RequestKeys :
       Arrive(h, login, asked, key)
  \/ ClaimNew(h) \/ ClaimTaken(h) \/ Check(h) \/ Consume(h) \/ Authorize(h) \/ Refuse(h)
  \/ Mutate(h) \/ MutateFails(h) \/ RecordFailed(h) \/ RecordAllowed(h)
  \/ Complete(h) \/ Abandon(h) \/ Answer(h)

GatewayNext == TickOn \/ ProcessDies \/ \E h \in Handlers : HandlerStep(h)

GatewaySpec == GatewayInit /\ [][GatewayNext]_gatewayVars

-----------------------------------------------------------------------------
(* Properties                                                              *)

\* "only after the underlying mutation commits": whoever completed a claim,
\* and whichever claims expired meanwhile, the project of a completed one, and
\* of a request answered "created", is there.
CompletedIsTrue ==
  /\ \A c \in claimed : c.state = "complete" => c.project \in roots
  /\ \A h \in Handlers :
       handling[h].at = "answer" /\ handling[h].answer = "created" => handling[h].asked.on \in roots

\* The audit is the truth wherever the process died: a mutation that was
\* committed was on record as attempted before, "allowed" stands for a commit
\* and "failed" and "denied" for none.
AuditIsTrue ==
  LET Rows(decision) == {x.req : x \in {y \in security : y.decision = decision}} IN
  /\ mutated \subseteq Rows("attempted")
  /\ Rows("allowed") \subseteq mutated
  /\ (Rows("failed") \cup Rows("denied")) \cap mutated = {}

\* "Concurrent identical claims return idempotency_in_progress": unless a
\* claim expired under its own request, two requests with a key are never
\* between claim and answer at once, also when one abandons or the process died.
SingleFlight ==
  ~overrun =>
    \A g, h \in Handlers :
      InFlight(g) /\ InFlight(h) /\ handling[g].key = handling[h].key => g = h
=============================================================================
