----------------------------- MODULE HostedContent -----------------------------
(***************************************************************************)
(* The content store of one tenant of the hosted service                   *)
(* (hosted_content.py): provisioning, recording under quotas, polling with *)
(* a cursor, retention, erasure, backup and restore.                       *)
(*                                                                         *)
(* Every call uses a connection of its own (RequestScopedHostedContentStore)*)
(* and writes in an immediate transaction.  An event is its number, the    *)
(* time its writer read from the clock before the transaction, its size    *)
(* and, as history, which of all the events ever recorded it is.           *)
(***************************************************************************)
EXTENDS Naturals, FiniteSets, FiniteSetsExt

CONSTANTS
  HostedProjects,   \* project ids of the tenant
  Writers,          \* requests that record events
  Sizes,            \* sizes of event contents
  MaxProjects,      \* max_projects_per_tenant
  MaxProjectEvents, \* max_events_per_project
  MaxTenantBytes,   \* max_tenant_bytes
  MaxRecorded,      \* bound on the events ever recorded
  MaxTime           \* bound on the clock

ASSUME ContentAssumption ==
  /\ Sizes \subseteq Nat
  /\ {MaxProjects, MaxProjectEvents, MaxTenantBytes} \subseteq Nat \ {0}
  /\ MaxRecorded \in Nat /\ MaxTime \in Nat

VARIABLES
  time,     \* the clock
  tenant,   \* whether the row of hosted_content_tenants exists
  projects, \* rows of hosted_content_projects
  events,   \* rows of hosted_content_events
  writing,  \* the event each writer is about to record
  ever,     \* history: how many events were ever recorded
  cursor,   \* the cursor a consumer of each project last got
  polled,   \* history: the events each consumer was given
  gone,     \* history: of each project, the greatest number that was deleted
  excused,  \* history: events under numbers deleted before, and restored ones
  archive   \* the last backup

contentVars ==
  <<time, tenant, projects, events, writing, ever, cursor, polled, gone, excused, archive>>

NotWriting == [project |-> "none"]
NoArchive == [projects |-> {}, events |-> {}, taken |-> FALSE]

ContentInit ==
  /\ time = 0 /\ tenant = FALSE /\ projects = {} /\ events = {}
  /\ writing = [w \in Writers |-> NotWriting]
  /\ ever = 0
  /\ cursor = [p \in HostedProjects |-> 0]
  /\ polled = [p \in HostedProjects |-> {}]
  /\ gone = [p \in HostedProjects |-> 0] /\ excused = {}
  /\ archive = NoArchive

consumerVars == <<cursor, polled>>
deletedVars == <<gone, excused>>

EventsOf(p) == {e \in events : e.project = p}
EventNumbers(es) == {e.seq : e \in es}
TimePasses ==
  /\ time < MaxTime /\ time' = time + 1
  /\ UNCHANGED <<tenant, projects, events, writing, ever, consumerVars, deletedVars, archive>>

-----------------------------------------------------------------------------
(* Provisioning and recording                                              *)

ProvisionTenant ==
  /\ ~tenant /\ tenant' = TRUE
  /\ UNCHANGED <<time, projects, events, writing, ever, consumerVars, deletedVars, archive>>

ProvisionProject(p) ==
  /\ tenant /\ p \notin projects
  /\ Cardinality(projects) < MaxProjects
  /\ projects' = projects \cup {p}
  /\ UNCHANGED <<time, tenant, events, writing, ever, consumerVars, deletedVars, archive>>

\* The clock is read and the size of the event checked first.
RecordStart(w, p, size) ==
  /\ writing[w] = NotWriting
  /\ writing' = [writing EXCEPT ![w] =
                  [project |-> p, size |-> size, at |-> time]]
  /\ UNCHANGED <<time, tenant, projects, events, ever, consumerVars, deletedVars, archive>>

\* The counts are taken inside the transaction.
Room(r) ==
  /\ Cardinality(EventsOf(r.project)) < MaxProjectEvents
  /\ MapThenSumSet(LAMBDA e : e.size, events) + r.size <= MaxTenantBytes

\* FOREIGN KEY(tenant_id, project_id) of the events.
Referenced(r) == r.project \in projects

\* COALESCE(MAX(event_seq), 0) + 1 over the rows there are.
NextNumber(p) == Max({0} \cup EventNumbers(EventsOf(p))) + 1

RecordTx(w) ==
  LET r == writing[w]
      n == NextNumber(r.project)
  IN /\ r # NotWriting /\ ever < MaxRecorded
     /\ Room(r) /\ Referenced(r)
     /\ events' = events \cup {[project |-> r.project, seq |-> n, at |-> r.at,
                                size |-> r.size, id |-> ever + 1]}
     /\ ever' = ever + 1
     /\ excused' = IF n <= gone[r.project] THEN excused \cup {ever + 1} ELSE excused
     /\ writing' = [writing EXCEPT ![w] = NotWriting]
     /\ UNCHANGED <<time, tenant, projects, consumerVars, gone, archive>>

\* A quota or the foreign key refuses the event, or the request dies.
RecordFails(w) ==
  /\ writing[w] # NotWriting
  /\ writing' = [writing EXCEPT ![w] = NotWriting]
  /\ UNCHANGED <<time, tenant, projects, events, ever, consumerVars, deletedVars, archive>>

-----------------------------------------------------------------------------
(* Polling                                                                 *)

\* Fault in After: the cursor's own event is expected again.
AfterInclusive(p) == {e \in EventsOf(p) : e.seq > cursor[p] + 1}

\* The events after the cursor.  A page is LIMIT 100; a longer answer comes
\* in several polls.
After(p) == {e \in EventsOf(p) : e.seq > cursor[p]}

\* poll_events: one SELECT; the next cursor is the last number given.
Poll(p) ==
  LET page == After(p) IN
  /\ page # {}
  /\ polled' = [polled EXCEPT ![p] = @ \cup {e.id : e \in page}]
  /\ cursor' = [cursor EXCEPT ![p] = Max(EventNumbers(page))]
  /\ UNCHANGED <<time, tenant, projects, events, writing, ever, deletedVars, archive>>

\* The signed cursor is older than its TTL and refused: the consumer begins
\* again, and keeps what it was given.
CursorLapses(p) ==
  /\ cursor[p] # 0
  /\ cursor' = [cursor EXCEPT ![p] = 0]
  /\ UNCHANGED <<time, tenant, projects, events, writing, ever, polled, deletedVars, archive>>

-----------------------------------------------------------------------------
(* Retention, erasure, backup                                              *)

\* DELETE of some events; a cursor that passed them stays as it is, since it is
\* the consumer's and signed for the tenant and the route only.
Delete(deleted) ==
  /\ events' = events \ deleted
  /\ gone' = [p \in HostedProjects |->
                Max({gone[p]} \cup EventNumbers(EventsOf(p) \cap deleted))]
  /\ UNCHANGED <<time, writing, ever, consumerVars, excused, archive>>

\* purge_events_before: one DELETE by time, whatever the numbers.
Retain(cutoff) ==
  /\ \E e \in events : e.at < cutoff
  /\ Delete({e \in events : e.at < cutoff})
  /\ UNCHANGED <<tenant, projects>>

\* A root goes with all below it, in one transaction.
EraseProject(p) ==
  /\ p \in projects
  /\ projects' = projects \ {p} /\ Delete(EventsOf(p))
  /\ UNCHANGED tenant

EraseTenant ==
  /\ tenant /\ tenant' = FALSE
  /\ projects' = {} /\ Delete(events)

\* backup_tenant lists the projects and exports one after the other, each
\* with a SELECT of its own; the projects here are exported together.
Backup ==
  /\ projects # {}
  /\ archive' = [projects |-> projects, events |-> events, taken |-> TRUE]
  /\ UNCHANGED <<time, tenant, projects, events, writing, ever, consumerVars, deletedVars>>

\* restore_tenant validates the payload against the quotas and inserts it
\* all, provided the tenant is not there.
RestoreTenant ==
  /\ archive.taken /\ ~tenant
  /\ Cardinality(archive.projects) <= MaxProjects
  /\ \A p \in archive.projects :
       Cardinality({e \in archive.events : e.project = p}) <= MaxProjectEvents
  /\ MapThenSumSet(LAMBDA e : e.size, archive.events) <= MaxTenantBytes
  /\ tenant' = TRUE /\ projects' = archive.projects /\ events' = archive.events
  /\ excused' = excused \cup {e.id : e \in archive.events}
  /\ UNCHANGED <<time, writing, ever, consumerVars, gone, archive>>

ContentNext ==
  \/ TimePasses \/ ProvisionTenant \/ EraseTenant \/ Backup \/ RestoreTenant
  \/ \E p \in HostedProjects :
       ProvisionProject(p) \/ Poll(p) \/ CursorLapses(p) \/ EraseProject(p)
  \/ \E w \in Writers :
       \/ \E p \in HostedProjects, size \in Sizes : RecordStart(w, p, size)
       \/ RecordTx(w) \/ RecordFails(w)
  \/ \E cutoff \in 1..MaxTime : cutoff <= time /\ Retain(cutoff)

ContentSpec == ContentInit /\ [][ContentNext]_contentVars

-----------------------------------------------------------------------------
(* Properties                                                              *)

\* An erasure leaves nothing behind for a request that was on its way: no
\* event without its project, no project without its tenant.
NothingOutlivesItsRoot ==
  /\ \A e \in events : e.project \in projects
  /\ projects # {} => tenant

\* A consumer that follows its cursor is given every event up to it, whatever
\* retention, erasure, backups and lapsed cursors do; but for events a restore
\* brought back, and those whose number, or a greater one, had been deleted
\* before they were recorded: MAX+1 draws it again, behind a cursor that passed.
PolledUpToCursor ==
  \A p \in HostedProjects : \A e \in EventsOf(p) :
    e.seq <= cursor[p] => e.id \in polled[p] \cup excused
=============================================================================
