-------------------------- MODULE MaintenanceSchedule --------------------------
(***************************************************************************)
(* The policy of a project, set by get-and-write-back of a whole row, and  *)
(* the persisted schedule of its maintenance (persistence/maintenance.py:  *)
(* set_policy, maintain_scheduled; migrations 004, 009, 011).              *)
(*                                                                         *)
(* What a maintenance run does is in AuditChain and MemoryLifecycle; here  *)
(* it succeeds, fails or dies.  Of the settings the two thresholds that    *)
(* must keep their order and the interval are kept.                        *)
(***************************************************************************)
EXTENDS Integers, Sequences

CONSTANTS
  Operators,  \* processes that set the policy
  Schedulers, \* processes that an external scheduler starts
  Thresholds, \* values of the usage thresholds
  Interval,   \* maintenance_interval_seconds when it is not 0
  Never,      \* a timestamp that is NULL
  MaxClock,   \* bound on the clock
  MaxStarts   \* bound on the runs started

ASSUME ScheduleAssumption ==
  /\ Thresholds \subseteq Nat /\ Interval \in Nat \ {0} /\ MaxClock \in Nat /\ MaxStarts \in Nat
  /\ Never \notin Nat
  /\ Operators \cap Schedulers = {}

VARIABLES
  clock,  \* the wall clock
  policy, \* row of project_policies
  runs,   \* row of maintenance_runs
  duty,   \* the call in progress of each process
  starts  \* history: timestamps of the runs that were started

scheduleVars == <<clock, policy, runs, duty, starts>>

Settings == [soft : Thresholds, hard : Thresholds, interval : {0, Interval}]
Idle == [op |-> "idle"]

ScheduleInit ==
  /\ clock = 0
  /\ policy \in {s \in Settings : s.soft < s.hard /\ s.interval = Interval}
  /\ runs = [started |-> Never, completed |-> Never, error |-> FALSE]
  /\ duty = [p \in Operators \cup Schedulers |-> Idle]
  /\ starts = <<>>

Turn(p, d) == duty' = [duty EXCEPT ![p] = d]

Tick == clock < MaxClock /\ clock' = clock + 1 /\ UNCHANGED <<policy, runs, duty, starts>>

-----------------------------------------------------------------------------
(* set_policy                                                              *)

\* The row is read, changed and checked as a whole before the transaction.
PolicyRead(p, name, value) ==
  LET merged == [policy EXCEPT ![name] = value] IN
  /\ duty[p] = Idle
  /\ merged.soft < merged.hard
  /\ Turn(p, [op |-> "set", settings |-> merged, name |-> name])
  /\ UNCHANGED <<clock, policy, runs, starts>>

\* Fault in Written: only the setting that was changed is updated.
WrittenColumn(d) == [policy EXCEPT ![d.name] = d.settings[d.name]]

\* The UPDATE sets every column to what was read and merged.
Written(d) == d.settings

PolicyWrite(p) ==
  /\ duty[p].op = "set"
  /\ policy' = Written(duty[p])
  /\ Turn(p, Idle)
  /\ UNCHANGED <<clock, runs, starts>>

-----------------------------------------------------------------------------
(* maintain_scheduled                                                      *)

\* The interval and the time are read first; 0 disables the schedule.
ScheduleRead(p) ==
  /\ duty[p] = Idle /\ policy.interval # 0
  /\ Turn(p, [op |-> "check", interval |-> policy.interval, now |-> clock])
  /\ UNCHANGED <<clock, policy, runs, starts>>

\* Fault in Baseline: only completed runs count.
BaselineCompleted == runs.completed

\* The time of the last completion, else of the last start.
Baseline == IF runs.completed # Never THEN runs.completed ELSE runs.started

Due(d) == Baseline = Never \/ Baseline + d.interval <= d.now

\* One transaction finds the run due and marks it started.
ScheduleTx(p) ==
  /\ duty[p].op = "check" /\ Len(starts) < MaxStarts
  /\ IF Due(duty[p])
     THEN /\ runs' = [runs EXCEPT !.started = duty[p].now, !.error = FALSE]
          /\ starts' = Append(starts, duty[p].now)
          /\ Turn(p, [op |-> "maintain"])
     ELSE Turn(p, Idle) /\ UNCHANGED <<runs, starts>>
  /\ UNCHANGED <<clock, policy>>

\* maintain raises: the error is kept, nothing is completed.
RunFails(p) ==
  /\ duty[p].op = "maintain"
  /\ runs' = [runs EXCEPT !.error = TRUE]
  /\ Turn(p, Idle)
  /\ UNCHANGED <<clock, policy, starts>>

\* maintain returns; the completion has the time after it.
RunCompletes(p) ==
  /\ duty[p].op = "maintain"
  /\ runs' = [runs EXCEPT !.completed = clock, !.error = FALSE]
  /\ Turn(p, Idle)
  /\ UNCHANGED <<clock, policy, starts>>

\* The process dies at any point.
SchedulerDies(p) ==
  /\ duty[p] # Idle /\ Turn(p, Idle) /\ UNCHANGED <<clock, policy, runs, starts>>

ScheduleNext ==
  \/ Tick
  \/ \E p \in Operators :
       \/ \E name \in {"soft", "hard"}, value \in Thresholds : PolicyRead(p, name, value)
       \/ \E value \in {0, Interval} : PolicyRead(p, "interval", value)
       \/ PolicyWrite(p)
  \/ \E p \in Schedulers : ScheduleRead(p) \/ ScheduleTx(p) \/ RunFails(p) \/ RunCompletes(p)
  \/ \E p \in Operators \cup Schedulers : SchedulerDies(p)

ScheduleSpec == ScheduleInit /\ [][ScheduleNext]_scheduleVars

-----------------------------------------------------------------------------
(* Properties                                                              *)

\* However calls of set_policy interleave, the warning threshold stays below
\* the one that forces a checkpoint, though each call checks it against a
\* row another may have replaced.
SoftBelowHard == policy.soft < policy.hard

\* Until a run has completed, runs are an interval apart, whoever is started
\* and whatever fails or dies.
FirstRunsApart ==
  runs.completed = Never =>
    \A i, j \in 1..Len(starts) : i < j => starts[i] + Interval <= starts[j]
=============================================================================
