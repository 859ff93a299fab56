---------------------------- MODULE Investigation ----------------------------
(***************************************************************************)
(* Research investigations of one project (persistence/investigation.py):  *)
(* create_investigation, record_source_analysis with its typed claims,     *)
(* request_source_reinspection and complete_investigation.                 *)
(*                                                                         *)
(* A claim is one event and one memory; it is numbered by its event, and   *)
(* its evidence and the status its memory starts with are kept with it.    *)
(* The memory may change status later but is never deleted: the row of the *)
(* claim would be set to NULL, and the trigger of migration 013 refuses    *)
(* that.  Texts, titles and confidences are left out.                      *)
(***************************************************************************)
EXTENDS Naturals, Sequences, FiniteSets

CONSTANTS
  Researchers,    \* processes
  Investigations, \* investigation ids
  Versions,       \* identity of a source: type, stable id and version
  Requests,       \* the analyses clients submit: investigation, version, claims
  AnalysisKeys,   \* idempotency keys of record_source_analysis
  NoAnalysisKey,  \* the key left out
  Reasons,        \* why a source should be looked at again
  MaxAnalyses     \* bound on the analyses recorded

\* Consequences are what a claim of another claim says; only evidence speaks
\* of the source itself.
Consequences == {"inference", "action", "decision", "rationale", "outcome"}
Roles == {"evidence"} \cup Consequences

\* A claim as submitted: its role, the positions of claims of the same
\* request it rests on, the claims of other analyses it rests on, and the
\* status of its memory.
Draft == [role : Roles, refs : SUBSET Nat, prior : SUBSET Nat,
          status : {"proposed", "active"}]

ASSUME InvestigationAssumption ==
  /\ NoAnalysisKey \notin AnalysisKeys
  /\ MaxAnalyses \in Nat
  /\ Requests \subseteq [investigation : Investigations, version : Versions,
                         claims : Seq(Draft)]

VARIABLES
  investigation, \* status of the row of each investigation
  analyses,      \* rows of source_analyses
  claims,        \* rows of investigation_claims with their links and memories
  reinspections, \* rows of source_reinspection_requests
  akeys,         \* rows of idempotency_keys
  answers,       \* history: the analyses answered for each source version
  study          \* the call in progress of each process

investigationVars ==
  <<investigation, analyses, claims, reinspections, akeys, answers, study>>

-----------------------------------------------------------------------------
NoStudy == [op |-> "none"]
ClaimNumbers == 1..Len(claims)
AnalysisNumbers == 1..Len(analyses)

InvestigationInit ==
  /\ investigation = [i \in Investigations |-> "none"]
  /\ analyses = <<>> /\ claims = <<>> /\ reinspections = {}
  /\ akeys = {} /\ answers = {}
  /\ study = [p \in Researchers |-> NoStudy]

Step(p, s) == study' = [study EXCEPT ![p] = s]

\* A call raises or its process dies.
GiveUp(p) ==
  /\ study[p] # NoStudy /\ Step(p, NoStudy)
  /\ UNCHANGED <<investigation, analyses, claims, reinspections, akeys, answers>>

\* create_investigation, one transaction that matters.
CreateInvestigation(i) ==
  /\ investigation[i] = "none"
  /\ investigation' = [investigation EXCEPT ![i] = "open"]
  /\ UNCHANGED <<analyses, claims, reinspections, akeys, answers, study>>

-----------------------------------------------------------------------------
(* record_source_analysis                                                  *)

AnswerOf(p, request, a) ==
  /\ answers' = answers \cup {[investigation |-> request.investigation,
                               version |-> request.version, analysis |-> a]}
  /\ Step(p, NoStudy)

\* The key is looked up first: a row answers an equal request, and refuses
\* any other.
AnalysisLookup(p, request, key) ==
  LET rows == {row \in akeys : row.key = key} IN
  /\ study[p] = NoStudy /\ investigation[request.investigation] # "none"
  /\ IF rows = {}
     THEN /\ Step(p, [op |-> "status", request |-> request, key |-> key])
          /\ UNCHANGED answers
     ELSE \E row \in rows :
            row.request = request /\ AnswerOf(p, request, row.analysis)
  /\ UNCHANGED <<investigation, analyses, claims, reinspections, akeys>>

\* Then the investigation has to be open ...
AnalysisReadStatus(p) ==
  /\ study[p].op = "status"
  /\ investigation[study[p].request.investigation] = "open"
  /\ Step(p, [study[p] EXCEPT !.op = "identity"])
  /\ UNCHANGED <<investigation, analyses, claims, reinspections, akeys, answers>>

SameVersion(request) ==
  {a \in AnalysisNumbers : analyses[a].investigation = request.investigation
                        /\ analyses[a].version = request.version}

\* ... and an analysis of the same version of the source is answered instead
\* of a new one, whatever claims were submitted.
AnalysisReadIdentity(p) ==
  LET request == study[p].request
      same == SameVersion(request)
  IN /\ study[p].op = "identity"
     /\ IF same = {} THEN Step(p, [study[p] EXCEPT !.op = "write"]) /\ UNCHANGED answers
        ELSE \E a \in same : AnswerOf(p, request, a)
     /\ UNCHANGED <<investigation, analyses, claims, reinspections, akeys>>

\* Fault in Admissible: only inferences need evidence.
AdmissibleUngrounded(request, n) ==
  LET d == request.claims[n] IN
  /\ d.refs \subseteq 1..(n - 1)
  /\ d.prior \subseteq {c \in ClaimNumbers : claims[c].investigation = request.investigation}
  /\ d.role = "inference" => d.refs \cup d.prior # {} /\ d.status = "proposed"

\* Fault in Admissible: claims of any investigation may be cited.
AdmissibleElsewhere(request, n) ==
  LET d == request.claims[n] IN
  /\ d.refs \subseteq 1..(n - 1)
  /\ d.prior \subseteq ClaimNumbers
  /\ d.role \in Consequences => d.refs \cup d.prior # {}
  /\ d.role = "inference" => d.status = "proposed"

\* The checks of the n-th claim: earlier claims of the request, existing
\* claims of this investigation, at least one of them for a consequence, and
\* no inference becomes active.
Admissible(request, n) ==
  LET d == request.claims[n] IN
  /\ d.refs \subseteq 1..(n - 1)
  /\ d.prior \subseteq {c \in ClaimNumbers : claims[c].investigation = request.investigation}
  /\ d.role \in Consequences => d.refs \cup d.prior # {}
  /\ d.role = "inference" => d.status = "proposed"

Recorded(request, n, a) ==
  LET d == request.claims[n] IN
  [investigation |-> request.investigation, analysis |-> a, role |-> d.role,
   evidence |-> {Len(claims) + r : r \in d.refs} \cup d.prior,
   memory |-> d.status]

\* Fault in VersionFree: source_analyses has no unique identity.
VersionFreeAlways(request) == TRUE

\* UNIQUE(investigation_id, identity_key).
VersionFree(request) == SameVersion(request) = {}

\* The primary key of idempotency_keys.
AnalysisKeyFree(key) == key = NoAnalysisKey \/ \A row \in akeys : row.key # key

\* One transaction inserts the analysis and all its claims, each with an
\* event, a memory and its links, or nothing.
AnalysisTx(p) ==
  LET request == study[p].request
      a == Len(analyses) + 1
  IN /\ study[p].op = "write"
     /\ a <= MaxAnalyses
     /\ VersionFree(request) /\ AnalysisKeyFree(study[p].key)
     /\ request.claims # <<>>
     /\ \A n \in 1..Len(request.claims) : Admissible(request, n)
     /\ analyses' = Append(analyses, [investigation |-> request.investigation,
                                      version |-> request.version])
     /\ claims' = claims \o [n \in 1..Len(request.claims) |-> Recorded(request, n, a)]
     /\ akeys' = IF study[p].key = NoAnalysisKey THEN akeys
                 ELSE akeys \cup {[key |-> study[p].key, request |-> request,
                                   analysis |-> a]}
     /\ AnswerOf(p, request, a)
     /\ UNCHANGED <<investigation, reinspections>>

-----------------------------------------------------------------------------
\* request_source_reinspection: a note on an analysis; the client fetches.
Reinspect(a, reason) ==
  /\ reinspections' = reinspections \cup {[analysis |-> a, reason |-> reason]}
  /\ UNCHANGED <<investigation, analyses, claims, akeys, answers, study>>

\* complete_investigation returns a completed one as it is.
CompleteRead(p, i) ==
  /\ study[p] = NoStudy /\ investigation[i] = "open"
  /\ Step(p, [op |-> "complete", investigation |-> i])
  /\ UNCHANGED <<investigation, analyses, claims, reinspections, akeys, answers>>

CompleteTx(p) ==
  /\ study[p].op = "complete"
  /\ investigation' = [investigation EXCEPT ![study[p].investigation] = "completed"]
  /\ Step(p, NoStudy)
  /\ UNCHANGED <<analyses, claims, reinspections, akeys, answers>>

InvestigationNext ==
  \/ \E i \in Investigations : CreateInvestigation(i)
  \/ \E p \in Researchers :
       \/ \E request \in Requests, key \in AnalysisKeys \cup {NoAnalysisKey} :
            AnalysisLookup(p, request, key)
       \/ AnalysisReadStatus(p) \/ AnalysisReadIdentity(p) \/ AnalysisTx(p)
       \/ \E i \in Investigations : CompleteRead(p, i)
       \/ CompleteTx(p) \/ GiveUp(p)
  \/ \E a \in AnalysisNumbers, reason \in Reasons :
       Reinspect(a, reason)

InvestigationSpec == InvestigationInit /\ [][InvestigationNext]_investigationVars

-----------------------------------------------------------------------------
(* Properties                                                              *)

\* Claims that rest on no claim outside them, but for the evidence there is
\* among them.
Closed(cs) ==
  \A c \in cs : claims[c].role # "evidence" => claims[c].evidence \subseteq cs

\* The claims a claim rests on, however indirectly, and itself.
Basis(c) ==
  {d \in ClaimNumbers :
     \A cs \in SUBSET ClaimNumbers : c \in cs /\ Closed(cs) => d \in cs}

\* The evidence it comes down to.
Grounds(c) == {g \in Basis(c) : claims[g].role = "evidence"}

\* Every claim comes down to evidence from the sources of its own
\* investigation, through claims recorded before it: no circle, no claim
\* out of thin air, none from elsewhere, however analyses interleave.
ClaimsRestOnEvidence ==
  \A c \in ClaimNumbers :
    /\ claims[c].evidence \subseteq 1..(c - 1)
    /\ Grounds(c) # {}
    /\ \A g \in Grounds(c) : claims[g].investigation = claims[c].investigation

\* What that follows from, claim by claim.
ClaimsCiteEarlier ==
  \A c \in ClaimNumbers :
    /\ claims[c].role \in Consequences => claims[c].evidence # {}
    /\ \A e \in claims[c].evidence :
         e \in 1..(c - 1) /\ claims[e].investigation = claims[c].investigation

\* Retries and racing clients are answered with one analysis of a version of
\* a source, and it is an analysis of that version.
AnswersAgree ==
  /\ \A s, t \in answers :
       s.investigation = t.investigation /\ s.version = t.version => s = t
  /\ \A s \in answers :
       /\ s.analysis \in AnalysisNumbers
       /\ analyses[s.analysis] = [investigation |-> s.investigation,
                                  version |-> s.version]
=============================================================================
