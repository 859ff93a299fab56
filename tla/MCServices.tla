------------------------------ MODULE MCServices ------------------------------
(***************************************************************************)
(* Instances for TLC of the components that are checked by themselves, in  *)
(* one run: the initial state chooses which of them moves, the others stay *)
(* as they were initialised.  The states are the sum of the components'    *)
(* states, not the product.                                                *)
(***************************************************************************)
EXTENDS Sessions, Investigation, AuditChain, MaintenanceSchedule, Transfer,
        HostedContent, HostedGateway, TLC

VARIABLE part

partVars == <<sessionVars, investigationVars, auditVars, scheduleVars, transferVars,
              contentVars, gatewayVars, part>>

Parts == {"sessions", "investigation", "audit", "schedule", "transfer", "content", "gateway"}

Init ==
  /\ SessionInit /\ InvestigationInit /\ AuditInit /\ ScheduleInit /\ TransferInit
  /\ ContentInit /\ GatewayInit
  /\ part \in Parts
  \* one policy for the components that do not set it
  /\ part # "schedule" => policy.soft + 1 = policy.hard /\ policy.soft = 1

MoveSessions ==
  /\ part = "sessions" /\ SessionNext
  /\ UNCHANGED <<investigationVars, auditVars, scheduleVars, transferVars, contentVars,
                 gatewayVars, part>>
MoveInvestigation ==
  /\ part = "investigation" /\ InvestigationNext
  /\ UNCHANGED <<sessionVars, auditVars, scheduleVars, transferVars, contentVars,
                 gatewayVars, part>>
MoveAudit ==
  /\ part = "audit" /\ AuditNext
  /\ UNCHANGED <<sessionVars, investigationVars, scheduleVars, transferVars, contentVars,
                 gatewayVars, part>>
MoveSchedule ==
  /\ part = "schedule" /\ ScheduleNext
  /\ UNCHANGED <<sessionVars, investigationVars, auditVars, transferVars, contentVars,
                 gatewayVars, part>>
MoveTransfer ==
  /\ part = "transfer" /\ TransferNext
  /\ UNCHANGED <<sessionVars, investigationVars, auditVars, scheduleVars, contentVars,
                 gatewayVars, part>>
MoveContent ==
  /\ part = "content" /\ ContentNext
  /\ UNCHANGED <<sessionVars, investigationVars, auditVars, scheduleVars, transferVars,
                 gatewayVars, part>>
MoveGateway ==
  /\ part = "gateway" /\ GatewayNext
  /\ UNCHANGED <<sessionVars, investigationVars, auditVars, scheduleVars, transferVars,
                 contentVars, part>>

Next ==
  \/ MoveSessions \/ MoveInvestigation \/ MoveAudit \/ MoveSchedule \/ MoveTransfer
  \/ MoveContent \/ MoveGateway

Spec == Init /\ [][Next]_partVars

-----------------------------------------------------------------------------
(* Inputs                                                                  *)

\* Claims that rest on the same request, on claim 1 and on nothing.  Claim 1 is
\* cited by another version of its source or by the other investigation.
Evidence == [role |-> "evidence", refs |-> {}, prior |-> {}, status |-> "active"]
Claim(role, refs, prior) ==
  [role |-> role, refs |-> refs, prior |-> prior, status |-> "proposed"]
Grounded == <<Evidence, Claim("inference", {1}, {})>>
Citing == <<Claim("decision", {}, {1})>>
Groundless == <<Claim("outcome", {}, {})>>
MCRequests ==
  {r \in [investigation : Investigations, version : Versions,
           claims : {Grounded, Citing, Groundless}] :
     \/ r.investigation = "y1" /\ (r.version = "v2" => r.claims # Groundless)
     \/ r.version = "v1" /\ r.claims # Groundless}

\* The creation of two projects and of one by who may not, one request of each
\* other operation of the administration, and a search by the reader.
MCAsked ==
  {[by |-> Admin, action |-> "project_create", on |-> p] : p \in {"p1", "p2"}}
  \cup {[by |-> OtherActor, action |-> "project_create", on |-> "p1"]}
  \cup {[by |-> OtherActor, action |-> "search", on |-> "p0"]}
  \cup {[by |-> Admin, action |-> "actor_delete", on |-> "p0"]}
  \cup {[by |-> Admin, action |-> "grant_admin", on |-> "p0", kind |-> k] :
          k \in {"grant", "revoke", "assign_role", "revoke_role"}}
  \cup {[by |-> Admin, action |-> "session_admin", on |-> "p0", kind |-> k] :
          k \in {"issue", "revoke"}}

\* Each component is symmetric in its own processes and ids.  The components
\* share one set of model values, so that there are two permutations and not
\* one for each combination of components.
MCSymmetry == Permutations(Agents)
ASSUME SharedValues ==
  /\ {Researchers, Operators, Memories, Writers, Handlers} = {Agents}
=============================================================================
