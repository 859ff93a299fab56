------------------------------- MODULE Transfer -------------------------------
(***************************************************************************)
(* The export of a project and its import into another database            *)
(* (persistence/transfer.py, validate_imported_active_sources of           *)
(* persistence/memory.py).                                                 *)
(*                                                                         *)
(* An export is one SELECT per table, in the order of EXPORT_QUERIES and   *)
(* outside a transaction; other processes write in between.  Of the        *)
(* twenty-two tables the four that refer to each other across an           *)
(* interleaving are kept: events, memories, memory_sources and             *)
(* event_receipts.  The audit tables are in AuditChain.                    *)
(***************************************************************************)
EXTENDS Naturals, Sequences, FiniteSets

CONSTANTS
  Memories,  \* ids of memories
  MaxEvents  \* bound on the events recorded

ASSUME TransferAssumption == MaxEvents \in Nat

VARIABLES
  origin,  \* the tables of the project exported
  export,  \* the records read so far and the table to read next
  target,  \* the tables of the project imported
  writes   \* history: whether anything was written since the export began

transferVars == <<origin, export, target, writes>>

\* Events are append-only and gapless: their numbers and the next one.  A
\* memory is active or not, a source a pair of a memory and an event, the
\* receipt is the acknowledged cursor of one consumer.
Empty == [events |-> {}, next |-> 1, memories |-> {}, active |-> {}, sources |-> {},
          receipt |-> 0]
NoTables == [Empty EXCEPT !.next = 0]

\* event, memory, memory_source and event_receipt come in this order.
Queries == <<"events", "memories", "sources", "receipt">>

TransferInit ==
  /\ origin = Empty /\ target = NoTables /\ writes = FALSE
  /\ export = [table |-> 0, data |-> Empty]

Wrote(tables) ==
  origin' = tables /\ writes' = TRUE /\ UNCHANGED <<export, target>>

\* Writes of other processes.
Record ==
  /\ origin.next <= MaxEvents
  /\ Wrote([origin EXCEPT !.events = @ \cup {origin.next}, !.next = @ + 1])

Remember(m, e) ==
  /\ m \notin origin.memories
  /\ Wrote([origin EXCEPT !.memories = @ \cup {m}, !.active = @ \cup {m},
                          !.sources = @ \cup {<<m, e>>}])

\* The memory is withdrawn, purged with its sources.
Withdraw(m) == m \in origin.active /\ Wrote([origin EXCEPT !.active = @ \ {m}])

Purge(m) ==
  /\ m \in origin.memories \ origin.active
  /\ Wrote([origin EXCEPT !.memories = @ \ {m}, !.sources = {s \in @ : s[1] # m}])

Acknowledge ==
  /\ origin.receipt < origin.next - 1
  /\ Wrote([origin EXCEPT !.receipt = origin.next - 1])

-----------------------------------------------------------------------------
(* export_project                                                          *)

\* The rows of one table; the status of a memory is in its row.
ReadTable(data, table) ==
  CASE table = "events" -> [data EXCEPT !.events = origin.events]
    [] table = "memories" -> [data EXCEPT !.memories = origin.memories, !.active = origin.active]
    [] table = "sources" -> [data EXCEPT !.sources = origin.sources]
    [] table = "receipt" -> [data EXCEPT !.receipt = origin.receipt]

ExportTable ==
  /\ export.table < Len(Queries)
  /\ export' = [table |-> export.table + 1,
                data |-> ReadTable(export.data, Queries[export.table + 1])]
  /\ writes' = (export.table > 0 /\ writes)
  /\ UNCHANGED <<origin, target>>

-----------------------------------------------------------------------------
(* import_project                                                          *)

\* Fault in ActiveSourced: links are checked, but not that there are any.
ActiveSourcedAlways(data) == TRUE

\* Every active memory has a source event of the project.
ActiveSourced(data) ==
  \A m \in data.active : \E s \in data.sources : s[1] = m /\ s[2] \in data.events

\* A source of no memory is refused by its foreign key at COMMIT, one of no
\* event by the validation before.
LinksResolve(data) ==
  \A s \in data.sources : s[1] \in data.memories /\ s[2] \in data.events

\* The next number is one past the number of events imported.
NextAfter(data) == Cardinality(data.events) + 1

\* One transaction inserts every record, sets the cursor and validates; a
\* project that is there already is refused.
Import ==
  /\ export.table = Len(Queries)
  /\ target = NoTables
  /\ LinksResolve(export.data) /\ ActiveSourced(export.data)
  /\ target' = [export.data EXCEPT !.next = NextAfter(export.data)]
  /\ UNCHANGED <<origin, export, writes>>

\* Another export and import: the target database is a new one.
Again ==
  /\ export.table = Len(Queries)
  /\ export' = [table |-> 0, data |-> Empty] /\ target' = NoTables
  /\ UNCHANGED <<origin, writes>>

TransferNext ==
  \/ Record \/ Acknowledge
  \/ \E m \in Memories :
       (\E e \in origin.events : Remember(m, e)) \/ Withdraw(m) \/ Purge(m)
  \/ ExportTable \/ Import \/ Again

TransferSpec == TransferInit /\ [][TransferNext]_transferVars

-----------------------------------------------------------------------------
(* Properties                                                              *)

\* An import is as good as its origin: what was exported while nobody wrote is
\* accepted and equal, and whatever was written during the export, what is
\* accepted is traceable and its next event takes and leaves out no number.
RestoredSound ==
  /\ target # NoTables =>
       /\ \A m \in target.active : \E e \in target.events : <<m, e>> \in target.sources
       /\ \A s \in target.sources : s[1] \in target.memories
       /\ target.events = 1..(target.next - 1)
  /\ export.table = Len(Queries) /\ ~writes =>
       /\ LinksResolve(export.data) /\ ActiveSourced(export.data)
       /\ target # NoTables => target = origin
=============================================================================
