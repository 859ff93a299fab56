--------------------------- MODULE OperationsProofs ---------------------------
(***************************************************************************)
(* Proofs about MaintenanceSchedule, AuditChain and Transfer, for any      *)
(* number of processes and rows.                                           *)
(***************************************************************************)
EXTENDS MaintenanceSchedule, AuditChain, Transfer, FiniteSetTheorems, TLAPS

-----------------------------------------------------------------------------
(* Policy and schedule                                                     *)

\* What a process carries between two steps.
Duties ==
  {Idle}
  \cup {d \in [op : {"set"}, settings : Settings, name : {"soft", "hard", "interval"}] :
          d.settings.soft < d.settings.hard}
  \cup [op : {"check"}, interval : {Interval}, now : Nat]
  \cup [op : {"maintain"}]

ScheduleType ==
  /\ clock \in Nat
  /\ policy \in Settings
  /\ runs \in [started : Nat \cup {Never}, completed : Nat \cup {Never}, error : BOOLEAN]
  /\ duty \in [Operators \cup Schedulers -> Duties]
  /\ starts \in Seq(Nat)

\* The last start is in the row, and no earlier one is nearer than Interval.
StartsApart ==
  /\ starts = <<>> => runs.started = Never
  /\ starts # <<>> => runs.started = starts[Len(starts)]
  /\ runs.completed = Never =>
       \A i, j \in 1..Len(starts) : i < j => starts[i] + Interval <= starts[j]

ScheduleInv == ScheduleType /\ SoftBelowHard /\ StartsApart

LEMMA DutyFields ==
  ASSUME ScheduleType, NEW p \in Operators \cup Schedulers
  PROVE  /\ duty[p].op = "set" =>
              duty[p].settings \in Settings /\ duty[p].settings.soft < duty[p].settings.hard
         /\ duty[p].op = "check" => duty[p].interval = Interval /\ duty[p].now \in Nat
<1>1. duty[p] \in Duties
  BY DEF ScheduleType
<1> QED BY <1>1 DEF Duties, Idle

LEMMA TurnType ==
  ASSUME ScheduleType, NEW p \in Operators \cup Schedulers, NEW d \in Duties, Turn(p, d)
  PROVE  duty' \in [Operators \cup Schedulers -> Duties]
BY DEF ScheduleType, Turn

LEMMA IdleIsDuty == Idle \in Duties /\ [op |-> "maintain"] \in Duties
BY DEF Duties

LEMMA ScheduleStart == ScheduleInit => ScheduleInv
<1> SUFFICES ASSUME ScheduleInit PROVE ScheduleInv
  OBVIOUS
<1>1. duty \in [Operators \cup Schedulers -> Duties]
  BY IdleIsDuty DEF ScheduleInit
<1> QED BY <1>1, ScheduleAssumption
        DEF ScheduleInit, ScheduleInv, ScheduleType, SoftBelowHard, StartsApart, Settings

\* A merged row is a row of settings.
LEMMA MergedSettings ==
  ASSUME ScheduleType,
         NEW name \in {"soft", "hard", "interval"}, NEW value,
         value \in IF name = "interval" THEN {0, Interval} ELSE Thresholds
  PROVE  [policy EXCEPT ![name] = value] \in Settings
<1>1. CASE name = "soft"     BY <1>1 DEF ScheduleType, Settings
<1>2. CASE name = "hard"     BY <1>2 DEF ScheduleType, Settings
<1>3. CASE name = "interval" BY <1>3 DEF ScheduleType, Settings
<1> QED BY <1>1, <1>2, <1>3

LEMMA PolicyReadKeeps ==
  ASSUME ScheduleInv, NEW p \in Operators, NEW name \in {"soft", "hard", "interval"}, NEW value,
         value \in IF name = "interval" THEN {0, Interval} ELSE Thresholds,
         PolicyRead(p, name, value)
  PROVE  ScheduleInv'
<1> DEFINE merged == [policy EXCEPT ![name] = value]
<1>1. merged \in Settings
  BY MergedSettings DEF ScheduleInv
<1>2. merged.soft < merged.hard
  BY DEF PolicyRead
<1>3. [op |-> "set", settings |-> merged, name |-> name] \in Duties
  <2> HIDE DEF merged
  <2> QED BY <1>1, <1>2 DEF Duties
<1>4. duty' \in [Operators \cup Schedulers -> Duties]
  BY <1>3, TurnType DEF PolicyRead, ScheduleInv
<1> QED BY <1>4 DEF PolicyRead, ScheduleInv, ScheduleType, SoftBelowHard, StartsApart

LEMMA PolicyWriteKeeps ==
  ASSUME ScheduleInv, NEW p \in Operators, PolicyWrite(p)
  PROVE  ScheduleInv'
<1>1. duty[p].settings \in Settings /\ duty[p].settings.soft < duty[p].settings.hard
  BY DutyFields DEF PolicyWrite, ScheduleInv
<1>2. duty' \in [Operators \cup Schedulers -> Duties]
  BY TurnType, IdleIsDuty DEF PolicyWrite, ScheduleInv
<1> QED BY <1>1, <1>2
        DEF PolicyWrite, Written, ScheduleInv, ScheduleType, SoftBelowHard, StartsApart

LEMMA ScheduleReadKeeps ==
  ASSUME ScheduleInv, NEW p \in Schedulers, ScheduleRead(p)
  PROVE  ScheduleInv'
<1>1. [op |-> "check", interval |-> policy.interval, now |-> clock] \in Duties
  BY DEF Duties, ScheduleRead, ScheduleInv, ScheduleType, Settings
<1>2. duty' \in [Operators \cup Schedulers -> Duties]
  BY <1>1, TurnType DEF ScheduleRead, ScheduleInv
<1> QED BY <1>2 DEF ScheduleRead, ScheduleInv, ScheduleType, SoftBelowHard, StartsApart

\* A run that is started is due: Interval after the last start, when nothing
\* was completed, and the starts before that one are earlier still.
LEMMA ScheduleTxKeeps ==
  ASSUME ScheduleInv, NEW p \in Schedulers, ScheduleTx(p)
  PROVE  ScheduleInv'
<1>1. CASE ~Due(duty[p])
  <2>1. duty' \in [Operators \cup Schedulers -> Duties]
    BY <1>1, TurnType, IdleIsDuty DEF ScheduleTx, ScheduleInv
  <2> QED BY <1>1, <2>1 DEF ScheduleTx, ScheduleInv, ScheduleType, SoftBelowHard, StartsApart
<1>2. CASE Due(duty[p])
  <2> DEFINE now == duty[p].now
  <2>1. duty[p].interval = Interval /\ now \in Nat /\ Interval \in Nat \ {0} /\ Never \notin Nat
    BY DutyFields, ScheduleAssumption DEF ScheduleTx, ScheduleInv
  <2>2. /\ runs' = [runs EXCEPT !.started = now, !.error = FALSE]
        /\ starts' = Append(starts, now)
        /\ Turn(p, [op |-> "maintain"])
        /\ UNCHANGED <<clock, policy>>
    BY <1>2 DEF ScheduleTx
  <2>3. duty' \in [Operators \cup Schedulers -> Duties]
    BY <2>2, TurnType, IdleIsDuty DEF ScheduleInv
  <2>4. /\ runs' \in [started : Nat \cup {Never}, completed : Nat \cup {Never}, error : BOOLEAN]
        /\ runs'.started = now /\ runs'.completed = runs.completed
    BY <2>1, <2>2 DEF ScheduleInv, ScheduleType
  <2>5. /\ starts' \in Seq(Nat) /\ Len(starts') = Len(starts) + 1 /\ Len(starts) \in Nat
        /\ starts'[Len(starts) + 1] = now
        /\ \A i \in 1..Len(starts) : starts'[i] = starts[i] /\ starts[i] \in Nat
    BY <2>1, <2>2 DEF ScheduleInv, ScheduleType
  <2>6. ASSUME runs.completed = Never, NEW i \in 1..Len(starts)
        PROVE  starts[i] + Interval <= now
    <3> DEFINE n == Len(starts)
    <3>1. n \in Nat /\ n >= 1 /\ starts # <<>>
      BY <2>5, <2>6 DEF ScheduleInv, ScheduleType
    <3>2. starts[n] \in Nat /\ starts[i] \in Nat
      BY <3>1, <2>5
    <3>3. Baseline = starts[n]
      BY <2>6, <3>1 DEF Baseline, ScheduleInv, StartsApart
    <3>4. starts[n] + Interval <= now
      BY <1>2, <3>2, <3>3, <2>1 DEF Due
    <3>5. CASE i = n
      BY <3>5, <3>4
    <3>6. CASE i < n
      <4>1. starts[i] + Interval <= starts[n]
        BY <3>1, <3>6, <2>6 DEF ScheduleInv, StartsApart
      <4> HIDE DEF now
      <4> QED BY <4>1, <3>2, <3>4, <2>1
    <3> QED BY <3>1, <3>5, <3>6, <2>6
  <2>7. ASSUME runs.completed = Never, NEW i \in 1..Len(starts'), NEW j \in 1..Len(starts'), i < j
        PROVE  starts'[i] + Interval <= starts'[j]
    <3>1. CASE j = Len(starts) + 1
      <4>1. i \in 1..Len(starts)
        BY <3>1, <2>7, <2>5
      <4> QED BY <4>1, <3>1, <2>5, <2>6, <2>7
    <3>2. CASE j # Len(starts) + 1
      <4>0. i \in Int /\ j \in Int /\ 1 <= i /\ i < j /\ j <= Len(starts) + 1
            /\ Len(starts) \in Nat
        BY <2>7, <2>5
      <4>1. i \in 1..Len(starts) /\ j \in 1..Len(starts)
        BY <4>0, <3>2
      <4>2. starts[i] + Interval <= starts[j]
        BY <4>1, <2>7 DEF ScheduleInv, StartsApart
      <4> QED BY <4>1, <4>2, <2>5
    <3> QED BY <3>1, <3>2
  <2>8. StartsApart'
    BY <2>4, <2>5, <2>7 DEF StartsApart
  <2> QED BY <2>2, <2>3, <2>4, <2>5, <2>8 DEF ScheduleInv, ScheduleType, SoftBelowHard
<1> QED BY <1>1, <1>2

LEMMA RunEndsKeeps ==
  ASSUME ScheduleInv, NEW p \in Operators \cup Schedulers,
         \/ p \in Schedulers /\ (RunFails(p) \/ RunCompletes(p))
         \/ SchedulerDies(p)
  PROVE  ScheduleInv'
<1>1. duty' \in [Operators \cup Schedulers -> Duties]
  BY TurnType, IdleIsDuty DEF RunFails, RunCompletes, SchedulerDies, ScheduleInv
<1>2. CASE RunFails(p)
  BY <1>1, <1>2 DEF RunFails, ScheduleInv, ScheduleType, SoftBelowHard, StartsApart
<1>3. CASE RunCompletes(p)
  BY <1>1, <1>3, ScheduleAssumption
     DEF RunCompletes, ScheduleInv, ScheduleType, SoftBelowHard, StartsApart
<1>4. CASE SchedulerDies(p)
  BY <1>1, <1>4 DEF SchedulerDies, ScheduleInv, ScheduleType, SoftBelowHard, StartsApart
<1> QED BY <1>2, <1>3, <1>4

LEMMA ScheduleStep == ScheduleInv /\ [ScheduleNext]_scheduleVars => ScheduleInv'
<1> SUFFICES ASSUME ScheduleInv, [ScheduleNext]_scheduleVars PROVE ScheduleInv'
  OBVIOUS
<1>1. CASE Tick
  BY <1>1 DEF Tick, ScheduleInv, ScheduleType, SoftBelowHard, StartsApart
<1>2. ASSUME NEW p \in Operators, NEW name \in {"soft", "hard"}, NEW value \in Thresholds,
             PolicyRead(p, name, value)
      PROVE  ScheduleInv'
  BY <1>2, PolicyReadKeeps
<1>3. ASSUME NEW p \in Operators, NEW value \in {0, Interval}, PolicyRead(p, "interval", value)
      PROVE  ScheduleInv'
  BY <1>3, PolicyReadKeeps
<1>4. ASSUME NEW p \in Operators, PolicyWrite(p) PROVE ScheduleInv'
  BY <1>4, PolicyWriteKeeps
<1>5. ASSUME NEW p \in Schedulers, ScheduleRead(p) PROVE ScheduleInv'
  BY <1>5, ScheduleReadKeeps
<1>6. ASSUME NEW p \in Schedulers, ScheduleTx(p) PROVE ScheduleInv'
  BY <1>6, ScheduleTxKeeps
<1>7. ASSUME NEW p \in Schedulers, RunFails(p) \/ RunCompletes(p) PROVE ScheduleInv'
  BY <1>7, RunEndsKeeps
<1>8. ASSUME NEW p \in Operators \cup Schedulers, SchedulerDies(p) PROVE ScheduleInv'
  BY <1>8, RunEndsKeeps
<1>9. CASE UNCHANGED scheduleVars
  BY <1>9 DEF scheduleVars, ScheduleInv, ScheduleType, SoftBelowHard, StartsApart
<1> QED BY <1>1, <1>2, <1>3, <1>4, <1>5, <1>6, <1>7, <1>8, <1>9 DEF ScheduleNext

THEOREM ScheduleInvariant == ScheduleSpec => []ScheduleInv
BY ScheduleStart, ScheduleStep, PTL DEF ScheduleSpec

\* set_policy never leaves a project whose warning threshold is not below the
\* one that forces a checkpoint, however its calls interleave.
THEOREM ThresholdsStayOrdered == ScheduleSpec => []SoftBelowHard
<1>1. ScheduleInv => SoftBelowHard
  BY DEF ScheduleInv
<1> QED BY <1>1, ScheduleInvariant, PTL

\* maintain_scheduled: until one run has completed, two starts are Interval
\* apart, for any number of schedulers.
THEOREM StartsStayApart == ScheduleSpec => []FirstRunsApart
<1>1. ScheduleInv => FirstRunsApart
  BY DEF ScheduleInv, StartsApart, FirstRunsApart
<1> QED BY <1>1, ScheduleInvariant, PTL

-----------------------------------------------------------------------------
(* The log and the chain of checkpoints                                    *)

LogSound ==
  /\ seq \in Nat
  /\ rows \subseteq recorded /\ recorded \subseteq 1..seq
  /\ \A s \in recorded \ rows : \E c \in chain : Covers(c, s)

Ranges ==
  \A c \in chain : c.from \in Nat /\ c.through \in Nat /\ c.from <= c.through /\ c.through <= seq

Beyond == \A c \in chain, s \in rows : c.through < s

Disjoint == \A c, d \in chain : c # d => c.through < d.from \/ d.through < c.from

CoveredBy(c, recordedRows) == {s \in recordedRows : Covers(c, s)}

Counted == \A c \in chain : c.count = Cardinality(CoveredBy(c, recorded)) /\ c.count >= 1

Earlier(c, checkpoints) == {d \in checkpoints : d.through < c.through}

Linked == \A c \in chain : c.previous = HeadOf(Earlier(c, chain))

\* An export in progress holds an initial part of the chain.
PrefixOf(b, checkpoints) ==
  /\ b.checkpoints \subseteq checkpoints
  /\ \A c \in b.checkpoints, d \in checkpoints : d.through <= c.through => d \in b.checkpoints
  /\ b.head = HeadOf(b.checkpoints)

ExportsSound == \A p \in Exporters : reading[p] # NoBundle => PrefixOf(reading[p], chain)

AuditInv ==
  /\ LogSound /\ Ranges /\ Beyond /\ Disjoint /\ Counted /\ Linked
  /\ DOMAIN reading = Exporters /\ ExportsSound /\ ExportVerifies

LEMMA AuditStart == AuditInit => AuditInv
BY DEF AuditInit, AuditInv, LogSound, Ranges, Beyond, Disjoint, Counted, Linked, ExportsSound,
       ExportVerifies

\* The rows a maintenance meets, its own included, lie beyond the chain.
LEMMA RowsBeyond ==
  ASSUME LogSound, Ranges, Beyond, NEW n \in Nat, NEW s \in rows \cup (seq + 1)..(seq + n)
  PROVE  /\ s \in Nat /\ 1 <= s /\ s <= seq + n
         /\ \A c \in chain : c.through < s
<1>1. CASE s \in rows
  BY <1>1 DEF LogSound, Beyond
<1>2. CASE s \in (seq + 1)..(seq + n)
  BY <1>2 DEF LogSound, Ranges
<1> QED BY <1>1, <1>2

\* A row older than an outdated one is outdated.
LEMMA OutdatedDownward ==
  ASSUME NEW all, IsFiniteSet(all), all \subseteq Nat, NEW keep \in Nat,
         NEW s \in all, NEW t \in all, s <= t, Outdated(all, keep, t)
  PROVE  Outdated(all, keep, s)
<1> DEFINE newer == {v \in all : v > s}
           newest == {v \in all : v > t}
<1>1. newest \in SUBSET newer
  <2>1. s \in Nat /\ t \in Nat
    OBVIOUS
  <2>2. ASSUME NEW v \in all, v > t PROVE v > s
    <3>1. v \in Nat
      OBVIOUS
    <3> QED BY <2>1, <2>2, <3>1
  <2> QED BY <2>2
<1>2. IsFiniteSet(newer)
  BY FS_Subset, newer \in SUBSET all
<1>3. IsFiniteSet(newest) /\ Cardinality(newest) <= Cardinality(newer)
  BY <1>1, <1>2, FS_Subset
<1>4. Cardinality(newest) \in Nat /\ Cardinality(newer) \in Nat
  BY <1>2, <1>3, FS_CardinalityType
<1>5. Cardinality(newest) >= keep
  BY DEF Outdated
<1>6. Cardinality(newer) >= keep
  <2> HIDE DEF newer, newest
  <2> QED BY <1>3, <1>4, <1>5
<1> QED BY <1>6 DEF Outdated

\* Rows that are written lie beyond every checkpoint: nothing a checkpoint says
\* of the recorded rows changes.
LEMMA RecordedBehind ==
  ASSUME LogSound, Ranges, NEW n \in Nat, NEW c \in chain
  PROVE  CoveredBy(c, recorded \cup (seq + 1)..(seq + n)) = CoveredBy(c, recorded)
<1>1. ASSUME NEW s \in (seq + 1)..(seq + n) PROVE ~Covers(c, s)
  BY <1>1 DEF LogSound, Ranges, Covers
<1> QED BY <1>1 DEF CoveredBy

LEMMA ChainUnchanged ==
  ASSUME AuditInv, UNCHANGED <<chain, reading, bundle>>
  PROVE  Disjoint' /\ Linked' /\ DOMAIN reading' = Exporters /\ ExportsSound' /\ ExportVerifies'
<1>1. Disjoint' /\ DOMAIN reading' = Exporters
  BY DEF AuditInv, Disjoint
<1>2. Linked'
  BY DEF AuditInv, Linked, Earlier, HeadOf
<1>3. ExportsSound'
  BY DEF AuditInv, ExportsSound, PrefixOf, HeadOf
<1>4. ExportVerifies'
  BY DEF AuditInv, ExportVerifies
<1> QED BY <1>1, <1>2, <1>3, <1>4

LEMMA AuditedWriteKeeps == AuditInv /\ AuditedWrite => AuditInv'
<1> SUFFICES ASSUME AuditInv, AuditedWrite PROVE AuditInv'
  OBVIOUS
<1>1. /\ recorded' = recorded \cup (seq + 1)..(seq + 1)
      /\ rows' = rows \cup (seq + 1)..(seq + 1) /\ seq' = seq + 1 /\ seq \in Nat
      /\ UNCHANGED <<chain, reading, bundle>>
  BY DEF AuditedWrite, AuditInv, LogSound
<1>2. LogSound' /\ Ranges'
  BY <1>1 DEF AuditInv, LogSound, Ranges, Covers
<1>3. Beyond'
  BY <1>1, RowsBeyond DEF AuditInv, Beyond
<1>4. Counted'
  BY <1>1, RecordedBehind DEF AuditInv, Counted, CoveredBy, Covers
<1> QED BY <1>1, <1>2, <1>3, <1>4, ChainUnchanged DEF AuditInv

LEMMA WriteElsewhereKeeps == AuditInv /\ WriteElsewhere => AuditInv'
<1> SUFFICES ASSUME AuditInv, WriteElsewhere PROVE AuditInv'
  OBVIOUS
<1>1. seq' = seq + 1 /\ seq \in Nat /\ UNCHANGED <<rows, recorded, chain, reading, bundle>>
  BY DEF WriteElsewhere, AuditInv, LogSound
<1>2. LogSound' /\ Ranges' /\ Beyond'
  BY <1>1 DEF AuditInv, LogSound, Ranges, Beyond, Covers
<1>3. Counted'
  BY <1>1 DEF AuditInv, Counted, CoveredBy, Covers
<1> QED BY <1>1, <1>2, <1>3, ChainUnchanged DEF AuditInv

\* maintain without anything to prune: rows are only added.
LEMMA PurgeOnlyKeeps ==
  ASSUME AuditInv, NEW n \in Nat, seq' = seq + n,
         recorded' = recorded \cup (seq + 1)..(seq + n), rows' = rows \cup (seq + 1)..(seq + n),
         UNCHANGED <<chain, reading, bundle>>
  PROVE  AuditInv'
<1>1. LogSound' /\ Ranges'
  BY DEF AuditInv, LogSound, Ranges, Covers
<1>2. Beyond'
  BY RowsBeyond DEF AuditInv, Beyond
<1>3. Counted'
  BY RecordedBehind DEF AuditInv, Counted, CoveredBy, Covers
<1> QED BY <1>1, <1>2, <1>3, ChainUnchanged DEF AuditInv

\* maintain with a prune: the rows under the new checkpoint are those deleted.
LEMMA PruneKeeps ==
  ASSUME AuditInv, NEW n \in Nat, NEW keep \in Nat, NEW all, NEW pruned,
         all = rows \cup (seq + 1)..(seq + n),
         pruned = {s \in all : Outdated(all, keep, s)},
         NEW first \in pruned, NEW last \in pruned,
         \A s \in pruned : first <= s /\ s <= last,
         NEW new, new = Checkpoint(pruned, first, last),
         seq' = seq + n, recorded' = recorded \cup (seq + 1)..(seq + n),
         chain' = chain \cup {new}, rows' = Left(all, last),
         UNCHANGED <<reading, bundle>>
  PROVE  AuditInv'
<1>1. /\ seq \in Nat /\ all \subseteq 1..(seq + n) /\ all \subseteq recorded'
      /\ \A s \in all : s \in Nat /\ \A c \in chain : c.through < s
  BY RowsBeyond DEF AuditInv, LogSound
<1>2. IsFiniteSet(all)
  <2>1. IsFiniteSet(1..(seq + n))
    BY <1>1, FS_Interval
  <2> QED BY <1>1, <2>1, FS_Subset
<1>3. /\ new.from = first /\ new.through = last /\ new.count = Cardinality(pruned)
      /\ new.previous = LatestDigest
  BY DEF Checkpoint
<1>4. first \in all /\ last \in all /\ first <= last /\ pruned \subseteq all
  OBVIOUS
<1>5. \A c \in chain : c.from \in Nat /\ c.through \in Nat /\ c.through < first /\ c.from <= c.through
  BY <1>1, <1>4 DEF AuditInv, Ranges
<1>6. ASSUME NEW s \in all PROVE s \in pruned <=> s <= last
  <2>1. ASSUME s <= last PROVE s \in pruned
    <3>1. Outdated(all, keep, last)
      OBVIOUS
    <3>2. Outdated(all, keep, s)
      BY <1>1, <1>2, <1>4, <2>1, <3>1, OutdatedDownward
    <3> QED BY <3>2
  <2> QED BY <2>1
<1>7. CoveredBy(new, recorded') = pruned
  <2>1. ASSUME NEW s \in pruned PROVE s \in CoveredBy(new, recorded')
    BY <2>1, <1>1, <1>3, <1>4 DEF CoveredBy, Covers
  <2>2. ASSUME NEW s \in recorded', Covers(new, s) PROVE s \in pruned
    <3>1. first <= s /\ s <= last
      BY <2>2, <1>3 DEF Covers
    <3>2. CASE s \in all
      BY <3>1, <3>2, <1>6
    <3>3. CASE s \notin all
      <4>1. s \in recorded \ rows
        BY <3>3, <2>2
      <4>2. PICK c \in chain : Covers(c, s)
        BY <4>1 DEF AuditInv, LogSound
      <4>3. s <= c.through /\ c.through < first /\ s \in Nat /\ first \in Nat /\ c.through \in Nat
        BY <4>1, <4>2, <1>1, <1>4, <1>5 DEF Covers, AuditInv, LogSound
      <4> QED BY <3>1, <4>3
    <3> QED BY <3>2, <3>3
  <2> QED BY <2>1, <2>2 DEF CoveredBy
<1>8. new \notin chain /\ \A c \in chain : c.through < new.from /\ c.through < new.through
  <2>1. first \in Nat /\ last \in Nat /\ first <= last
    BY <1>1, <1>4
  <2>2. \A c \in chain : c.through < first /\ c.through < last /\ c.through \in Nat
    BY <2>1, <1>5
  <2>3. new \notin chain
    BY <2>1, <2>2, <1>3
  <2> QED BY <2>2, <2>3, <1>3
<1>9. LogSound'
  <2>0. rows' \subseteq all
    BY DEF Left
  <2>1a. seq' \in Nat
    BY <1>1
  <2>1. rows' \subseteq recorded'
    BY <1>1, <2>0
  <2>3. recorded' \subseteq 1..seq'
    BY <1>1 DEF AuditInv, LogSound
  <2>2. ASSUME NEW s \in recorded' \ rows' PROVE \E c \in chain' : Covers(c, s)
    <3>1. CASE s \in all
      <4>1. s <= last
        BY <3>1, <2>2, <1>1, <1>4 DEF Left
      <4>2. Covers(new, s)
        BY <4>1, <3>1, <1>6, <1>3 DEF Covers
      <4> QED BY <4>2
    <3>2. CASE s \notin all
      <4>1. s \in recorded \ rows
        BY <3>2, <2>2
      <4> QED BY <4>1 DEF AuditInv, LogSound
    <3> QED BY <3>1, <3>2
  <2> QED BY <2>1a, <2>1, <2>2, <2>3 DEF LogSound, Covers
<1>10. Ranges'
  <2>1. new.from \in Nat /\ new.through \in Nat /\ new.from <= new.through /\ new.through <= seq'
    BY <1>1, <1>3, <1>4
  <2>2. \A c \in chain : c.through <= seq'
    BY <1>1 DEF AuditInv, Ranges
  <2> QED BY <2>1, <2>2, <1>5 DEF Ranges
<1>11. Beyond'
  <2>1. \A s \in rows' : s \in all /\ last < s
    BY <1>1, <1>4 DEF Left
  <2> QED BY <2>1, <1>1, <1>3 DEF Beyond
<1>12. Disjoint'
  <2> QED BY <1>8 DEF AuditInv, Disjoint
<1>13. Counted'
  <2>1. Cardinality(pruned) \in Nat /\ Cardinality(pruned) # 0
    <3>1. IsFiniteSet(pruned) /\ pruned # {}
      BY <1>2, <1>4, FS_Subset
    <3> QED BY <3>1, FS_CardinalityType, FS_EmptySet
  <2>2. \A c \in chain : c.count = Cardinality(CoveredBy(c, recorded')) /\ c.count >= 1
    BY RecordedBehind DEF AuditInv, Counted
  <2>3. new.count = Cardinality(CoveredBy(new, recorded')) /\ new.count >= 1
    <3>1. Cardinality(pruned) >= 1
      BY <2>1
    <3> QED BY <3>1, <1>3, <1>7
  <2>4. ASSUME NEW c \in chain'
        PROVE  c.count = Cardinality(CoveredBy(c, recorded')) /\ c.count >= 1
    <3>1. CASE c = new
      BY <3>1, <2>3
    <3>2. CASE c \in chain
      BY <3>2, <2>2
    <3> QED BY <3>1, <3>2
  <2> QED BY <2>4 DEF Counted, CoveredBy, Covers
<1>14. Linked'
  <2>1. Earlier(new, chain') = chain
    <3> QED BY <1>8, <1>10 DEF Earlier, Ranges
  <2>2. ASSUME NEW c \in chain PROVE Earlier(c, chain') = Earlier(c, chain)
    <3> QED BY <1>8, <1>10 DEF Earlier, Ranges
  <2>3. new.previous = HeadOf(chain)
    BY <1>3 DEF LatestDigest, HeadOf
  <2>4. ASSUME NEW c \in chain' PROVE c.previous = HeadOf(Earlier(c, chain'))
    <3>1. CASE c = new
      BY <3>1, <2>1, <2>3
    <3>2. CASE c \in chain
      BY <3>2, <2>2 DEF AuditInv, Linked
    <3> QED BY <3>1, <3>2
  <2> QED BY <2>4 DEF Linked, Earlier, HeadOf
<1>15. ExportsSound'
  <2>1. ASSUME NEW p \in Exporters, reading[p] # NoBundle PROVE PrefixOf(reading[p], chain')
    <3>1. PrefixOf(reading[p], chain)
      BY <2>1 DEF AuditInv, ExportsSound
    <3>2. \A c \in reading[p].checkpoints : ~(new.through <= c.through)
      <4>1. new.through \in Nat
        BY <1>10 DEF Ranges
      <4>2. reading[p].checkpoints \subseteq chain
        BY <3>1 DEF PrefixOf
      <4>3. ASSUME NEW c \in chain PROVE ~(new.through <= c.through)
        BY <4>1, <1>8, <1>5
      <4> QED BY <4>2, <4>3
    <3> QED BY <3>1, <3>2 DEF PrefixOf, HeadOf
  <2> QED BY <2>1 DEF ExportsSound
<1> QED BY <1>9, <1>10, <1>11, <1>12, <1>13, <1>14, <1>15 DEF AuditInv, ExportVerifies

LEMMA MaintainKeeps ==
  ASSUME AuditInv, NEW keep \in KeepValues, NEW n \in Purges, Maintain(keep, n)
  PROVE  AuditInv'
<1> DEFINE all == rows \cup (seq + 1)..(seq + n)
           pruned == {s \in all : Outdated(all, keep, s)}
<1>1. n \in Nat /\ keep \in Nat
  BY AuditAssumption
<1>2. /\ seq' = seq + n /\ recorded' = recorded \cup (seq + 1)..(seq + n)
      /\ UNCHANGED <<reading, bundle>>
  BY DEF Maintain
<1>3. CASE pruned = {}
  <2>1. rows' = all /\ UNCHANGED chain
    BY <1>3 DEF Maintain
  <2> QED BY <1>1, <1>2, <2>1, PurgeOnlyKeeps
<1>4. CASE pruned # {}
  <2>1. PICK first, last \in pruned :
          /\ \A s \in pruned : first <= s /\ s <= last
          /\ chain' = chain \cup {Checkpoint(pruned, first, last)}
          /\ rows' = Left(all, last)
    BY <1>4 DEF Maintain
  <2> HIDE DEF pruned
  <2>2. pruned = {s \in all : Outdated(all, keep, s)}
    BY DEF pruned
  <2> HIDE DEF all
  <2>3. all = rows \cup (seq + 1)..(seq + n)
    BY DEF all
  <2> QED BY <1>1, <1>2, <2>1, <2>2, <2>3, PruneKeeps
<1> QED BY <1>3, <1>4

\* A reader that holds an initial part of the chain, and the rows there are
\* afterwards, has a bundle that verifies.
LEMMA PrefixVerifies ==
  ASSUME AuditInv, NEW b, PrefixOf(b, chain), NEW e, e.checkpoints = b.checkpoints,
         e.head = b.head, e.entries = rows
  PROVE  Verifies(e)
<1>1. b.checkpoints \subseteq chain
  BY DEF PrefixOf
<1>2. ASSUME NEW c \in e.checkpoints
      PROVE  /\ c.from <= c.through /\ c.count >= 1 /\ c.count <= c.through - c.from + 1
             /\ c.previous = HeadOf({d \in e.checkpoints : d.through < c.through})
             /\ \A d \in e.checkpoints \ {c} : d.through < c.from \/ c.through < d.from
             /\ \A s \in e.entries : s > c.through
  <2>1. c \in chain /\ c.from \in Nat /\ c.through \in Nat /\ c.from <= c.through
    BY <1>1, <1>2 DEF AuditInv, Ranges
  <2>2. c.count = Cardinality(CoveredBy(c, recorded)) /\ c.count >= 1
    BY <2>1 DEF AuditInv, Counted
  <2>3. c.count <= c.through - c.from + 1
    <3>1. ASSUME NEW s \in CoveredBy(c, recorded) PROVE s \in c.from..c.through
      <4>1. s \in Nat /\ c.from <= s /\ s <= c.through
        BY DEF CoveredBy, Covers, AuditInv, LogSound
      <4> QED BY <4>1, <2>1
    <3>2. /\ IsFiniteSet(c.from..c.through)
          /\ Cardinality(c.from..c.through) = c.through - c.from + 1
      <4>1. c.from \in Int /\ c.through \in Int /\ ~(c.from > c.through)
        BY <2>1
      <4> QED BY <4>1, FS_Interval
    <3>3. Cardinality(CoveredBy(c, recorded)) <= Cardinality(c.from..c.through)
      BY <3>1, <3>2, FS_Subset
    <3> QED BY <2>2, <3>2, <3>3
  <2>4. {d \in e.checkpoints : d.through < c.through} = Earlier(c, chain)
    <3>1. ASSUME NEW d \in chain, d.through < c.through PROVE d \in b.checkpoints
      <4>1. d.through \in Nat
        BY <3>1 DEF AuditInv, Ranges
      <4>2. d.through <= c.through
        BY <2>1, <3>1, <4>1
      <4> QED BY <4>2, <1>2 DEF PrefixOf
    <3> QED BY <3>1, <1>1 DEF Earlier
  <2>5. c.previous = HeadOf(Earlier(c, chain))
    BY <2>1 DEF AuditInv, Linked
  <2>6. \A d \in e.checkpoints \ {c} : d.through < c.from \/ c.through < d.from
    BY <1>1, <2>1 DEF AuditInv, Disjoint
  <2>7. \A s \in e.entries : s > c.through
    <3>1. ASSUME NEW s \in rows PROVE s > c.through
      <4>1. s \in Nat /\ c.through < s
        BY <2>1 DEF AuditInv, Beyond, LogSound
      <4> QED BY <4>1, <2>1
    <3> QED BY <3>1
  <2> QED BY <2>1, <2>2, <2>3, <2>4, <2>5, <2>6, <2>7
<1>3. e.head = HeadOf(e.checkpoints)
  BY DEF PrefixOf
<1> QED BY <1>2, <1>3 DEF Verifies

LEMMA ExportKeeps ==
  ASSUME AuditInv, NEW p \in Exporters, ExportStart(p) \/ ExportEnd(p)
  PROVE  AuditInv'
<1>1. UNCHANGED <<seq, rows, recorded, chain>>
  BY DEF ExportStart, ExportEnd
<1>2. LogSound' /\ Ranges' /\ Beyond' /\ Disjoint'
  BY <1>1 DEF AuditInv, LogSound, Ranges, Beyond, Disjoint, Covers
<1>3. Counted'
  BY <1>1 DEF AuditInv, Counted, CoveredBy, Covers
<1>4. Linked'
  BY <1>1 DEF AuditInv, Linked, Earlier, HeadOf
<1>5. ASSUME NEW q \in Exporters, reading'[q] # NoBundle PROVE PrefixOf(reading'[q], chain')
  <2>1. CASE ExportStart(p) /\ q = p
    <3>1. reading'[q] = ExportFirst
      BY <2>1 DEF ExportStart, AuditInv
    <3> QED BY <3>1, <1>1 DEF ExportFirst, PrefixOf, HeadOf
  <2>2. CASE ExportEnd(p) \/ q # p
    <3>1. reading'[q] = reading[q]
      BY <2>2, <1>5 DEF ExportStart, ExportEnd, AuditInv
    <3>2. PrefixOf(reading[q], chain)
      BY <3>1, <1>5 DEF AuditInv, ExportsSound
    <3> QED BY <3>1, <3>2, <1>1 DEF PrefixOf, HeadOf
  <2> QED BY <2>1, <2>2
<1>6. ExportsSound' /\ DOMAIN reading' = Exporters
  BY <1>5 DEF ExportsSound, AuditInv, ExportStart, ExportEnd
<1>7. ExportVerifies'
  <2>1. CASE ExportStart(p)
    BY <2>1 DEF ExportStart, AuditInv, ExportVerifies
  <2>2. CASE ExportEnd(p)
    <3>1. PrefixOf(reading[p], chain)
      BY <2>2 DEF ExportEnd, AuditInv, ExportsSound
    <3>2. Verifies(bundle')
      <4>1. bundle' = [reading[p] EXCEPT !.entries = rows]
        BY <2>2 DEF ExportEnd, ExportSecond
      <4>2. /\ bundle'.checkpoints = reading[p].checkpoints /\ bundle'.head = reading[p].head
            /\ bundle'.entries = rows
        BY <4>1, <3>1 DEF AuditInv
      <4> QED BY <3>1, <4>2, PrefixVerifies
    <3> QED BY <3>2 DEF ExportVerifies
  <2> QED BY <2>1, <2>2
<1> QED BY <1>2, <1>3, <1>4, <1>6, <1>7 DEF AuditInv

LEMMA AuditStep == AuditInv /\ [AuditNext]_auditVars => AuditInv'
<1> SUFFICES ASSUME AuditInv, [AuditNext]_auditVars PROVE AuditInv'
  OBVIOUS
<1>1. CASE AuditedWrite
  BY <1>1, AuditedWriteKeeps
<1>2. CASE WriteElsewhere
  BY <1>2, WriteElsewhereKeeps
<1>3. ASSUME NEW keep \in KeepValues, NEW n \in Purges, Maintain(keep, n) PROVE AuditInv'
  BY <1>3, MaintainKeeps
<1>4. ASSUME NEW p \in Exporters, ExportStart(p) \/ ExportEnd(p) PROVE AuditInv'
  BY <1>4, ExportKeeps
<1>5. CASE UNCHANGED auditVars
  <2>1. UNCHANGED <<seq, rows, recorded, chain, reading, bundle>>
    BY <1>5 DEF auditVars
  <2>2. LogSound' /\ Ranges' /\ Beyond'
    BY <2>1 DEF AuditInv, LogSound, Ranges, Beyond, Covers
  <2>3. Counted'
    BY <2>1 DEF AuditInv, Counted, CoveredBy, Covers
  <2> QED BY <2>1, <2>2, <2>3, ChainUnchanged DEF AuditInv
<1> QED BY <1>1, <1>2, <1>3, <1>4, <1>5 DEF AuditNext

THEOREM AuditInvariant == AuditSpec => []AuditInv
BY AuditStart, AuditStep, PTL DEF AuditSpec

\* Every audited write of a project is in the log or under exactly one
\* checkpoint, and a checkpoint counts what it replaced (maintain).
THEOREM NoRowLost == AuditSpec => []EveryRowOnce
<1>1. AuditInv => EveryRowOnce
  <2> SUFFICES ASSUME AuditInv PROVE EveryRowOnce
    OBVIOUS
  <2>1. ASSUME NEW s \in recorded
        PROVE  IF s \in rows THEN \A c \in chain : ~Covers(c, s)
               ELSE \E c \in chain : Covers(c, s) /\ \A d \in chain : Covers(d, s) => d = c
    <3>1. s \in Nat
      BY DEF AuditInv, LogSound
    <3>2. CASE s \in rows
      BY <3>1, <3>2 DEF AuditInv, Beyond, Ranges, Covers
    <3>3. CASE s \notin rows
      <4>1. PICK c \in chain : Covers(c, s)
        BY <3>3 DEF AuditInv, LogSound
      <4>2. ASSUME NEW d \in chain, Covers(d, s), d # c PROVE FALSE
        <5>1. /\ c.from <= s /\ s <= c.through /\ d.from <= s /\ s <= d.through
              /\ c.from \in Nat /\ c.through \in Nat /\ d.from \in Nat /\ d.through \in Nat
          BY <4>1, <4>2 DEF AuditInv, Ranges, Covers
        <5>2. c.through < d.from \/ d.through < c.from
          BY <4>2 DEF AuditInv, Disjoint
        <5> QED BY <5>1, <5>2, <3>1
      <4> QED BY <3>3, <4>1, <4>2
    <3> QED BY <3>2, <3>3
  <2>2. \A c \in chain : c.count = Cardinality({s \in recorded : Covers(c, s)})
    BY DEF AuditInv, Counted, CoveredBy
  <2> QED BY <2>1, <2>2 DEF EveryRowOnce
<1> QED BY <1>1, AuditInvariant, PTL

\* Every bundle of export_audit_chain passes verify_audit_chain_bundle, with
\* any number of writes and prunes between its two reads.
THEOREM EveryExportVerifies == AuditSpec => []ExportVerifies
<1>1. AuditInv => ExportVerifies
  BY DEF AuditInv
<1> QED BY <1>1, AuditInvariant, PTL

\* The rows and checkpoints in the database always verify.
THEOREM ChainIsSound == AuditSpec => []ChainSound
<1>1. AuditInv => ChainSound
  <2> SUFFICES ASSUME AuditInv PROVE ChainSound
    OBVIOUS
  <2> DEFINE e == [project |-> "exported", checkpoints |-> chain, head |-> HeadOf(chain),
                   entries |-> rows]
  <2>1. PrefixOf(e, chain)
    BY DEF PrefixOf
  <2>2. e.checkpoints = e.checkpoints /\ e.head = e.head /\ e.entries = rows
    OBVIOUS
  <2>3. Verifies(e)
    <3> HIDE DEF e
    <3> QED BY <2>1, <2>2, PrefixVerifies
  <2> QED BY <2>3 DEF ChainSound
<1> QED BY <1>1, AuditInvariant, PTL

-----------------------------------------------------------------------------
(* Export and import                                                       *)

Tables == [events : SUBSET Nat, next : Nat, memories : SUBSET Memories,
           active : SUBSET Memories, sources : SUBSET (Memories \X Nat), receipt : Nat]

\* What the tables of the project exported always satisfy.
OriginSound ==
  /\ origin \in Tables
  /\ origin.next >= 1 /\ origin.events = 1..(origin.next - 1)
  /\ origin.active \subseteq origin.memories
  /\ \A s \in origin.sources : s[1] \in origin.memories /\ s[2] \in origin.events
  /\ \A m \in origin.active : \E e \in origin.events : <<m, e>> \in origin.sources

\* Without writes every table read is still the one in the database.
ReadIsCurrent ==
  /\ export.table >= 1 => export.data.events = origin.events
  /\ export.table >= 2 =>
       export.data.memories = origin.memories /\ export.data.active = origin.active
  /\ export.table >= 3 => export.data.sources = origin.sources
  /\ export.table >= 4 => export.data.receipt = origin.receipt

ExportSound ==
  /\ export \in [table : 0..4, data : Tables]
  /\ \E k \in Nat : export.data.events = 1..k
  /\ writes \in BOOLEAN
  /\ ~writes => ReadIsCurrent

TargetSound ==
  target # NoTables =>
    /\ export.table = 4
    /\ LinksResolve(export.data) /\ ActiveSourced(export.data)
    /\ target = [export.data EXCEPT !.next = NextAfter(export.data)]

TransferInv == OriginSound /\ ExportSound /\ TargetSound

LEMMA EmptyIsTables == Empty \in Tables /\ NoTables \in Tables
BY DEF Empty, NoTables, Tables

LEMMA TransferStart == TransferInit => TransferInv
<1> SUFFICES ASSUME TransferInit PROVE TransferInv
  OBVIOUS
<1>1. OriginSound
  BY EmptyIsTables DEF TransferInit, OriginSound, Empty
<1>2. ExportSound
  <2>1. export = [table |-> 0, data |-> Empty] /\ export.data.events = 1..0 /\ writes = FALSE
    BY DEF TransferInit, Empty
  <2>2. export \in [table : 0..4, data : Tables]
    BY <2>1, EmptyIsTables
  <2>3. ReadIsCurrent
    BY <2>1 DEF ReadIsCurrent
  <2>4. \E k \in Nat : export.data.events = 1..k
    BY <2>1, 0 \in Nat
  <2> QED BY <2>1, <2>2, <2>3, <2>4 DEF ExportSound
<1>3. TargetSound
  BY DEF TransferInit, TargetSound
<1> QED BY <1>1, <1>2, <1>3 DEF TransferInv

\* A write changes neither what was exported nor what was imported.
LEMMA WriteKeeps ==
  ASSUME TransferInv, NEW tables, Wrote(tables), OriginSound'
  PROVE  TransferInv'
<1>1. ExportSound'
  BY DEF Wrote, TransferInv, ExportSound
<1>2. TargetSound'
  BY DEF Wrote, TransferInv, TargetSound, LinksResolve, ActiveSourced, NextAfter, NoTables, Empty
<1> QED BY <1>1, <1>2 DEF TransferInv

LEMMA RecordKeeps == TransferInv /\ Record => TransferInv'
<1> SUFFICES ASSUME TransferInv, Record PROVE TransferInv'
  OBVIOUS
<1> DEFINE tables == [origin EXCEPT !.events = @ \cup {origin.next}, !.next = @ + 1]
<1>1. Wrote(tables) /\ origin' = tables
  BY DEF Record, Wrote
<1>2. /\ origin'.events = origin.events \cup {origin.next} /\ origin'.next = origin.next + 1
      /\ origin'.memories = origin.memories /\ origin'.active = origin.active
      /\ origin'.sources = origin.sources /\ origin' \in Tables
  <2>1. /\ origin \in Tables /\ origin.next \in Nat /\ origin.next + 1 \in Nat
        /\ origin.events \cup {origin.next} \in SUBSET Nat
    BY DEF TransferInv, OriginSound, Tables
  <2> QED BY <1>1, <2>1 DEF Tables
<1>3. origin'.events = 1..(origin'.next - 1) /\ origin'.next >= 1
  <2>1. origin.next \in Nat /\ origin.next >= 1 /\ origin.events = 1..(origin.next - 1)
    BY DEF TransferInv, OriginSound, Tables
  <2> QED BY <2>1, <1>2
<1>4. OriginSound'
  BY <1>2, <1>3 DEF TransferInv, OriginSound
<1> QED BY <1>1, <1>4, WriteKeeps

LEMMA RememberKeeps ==
  ASSUME TransferInv, NEW m \in Memories, NEW e \in origin.events, Remember(m, e)
  PROVE  TransferInv'
<1> DEFINE tables == [origin EXCEPT !.memories = @ \cup {m}, !.active = @ \cup {m},
                                    !.sources = @ \cup {<<m, e>>}]
<1>1. Wrote(tables) /\ origin' = tables
  BY DEF Remember, Wrote
<1>2. /\ origin'.events = origin.events /\ origin'.next = origin.next
      /\ origin'.memories = origin.memories \cup {m} /\ origin'.active = origin.active \cup {m}
      /\ origin'.sources = origin.sources \cup {<<m, e>>}
      /\ origin' \in Tables
  <2>1. origin \in Tables /\ e \in Nat
    BY DEF TransferInv, OriginSound, Tables
  <2>2. /\ origin.memories \cup {m} \in SUBSET Memories
        /\ origin.active \cup {m} \in SUBSET Memories
        /\ origin.sources \cup {<<m, e>>} \in SUBSET (Memories \X Nat)
    BY <2>1 DEF Tables
  <2> QED BY <1>1, <2>1, <2>2 DEF Tables
<1>3. OriginSound'
  BY <1>2 DEF TransferInv, OriginSound
<1> QED BY <1>1, <1>3, WriteKeeps

LEMMA WithdrawKeeps ==
  ASSUME TransferInv, NEW m \in Memories, Withdraw(m)
  PROVE  TransferInv'
<1> DEFINE tables == [origin EXCEPT !.active = @ \ {m}]
<1>1. Wrote(tables) /\ origin' = tables
  BY DEF Withdraw, Wrote
<1>2. /\ origin'.events = origin.events /\ origin'.next = origin.next
      /\ origin'.memories = origin.memories /\ origin'.active = origin.active \ {m}
      /\ origin'.sources = origin.sources /\ origin' \in Tables
  BY <1>1 DEF TransferInv, OriginSound, Tables
<1>3. OriginSound'
  BY <1>2 DEF TransferInv, OriginSound
<1> QED BY <1>1, <1>3, WriteKeeps

\* Only memories that are not active are purged: no active one loses a source.
LEMMA PurgeKeeps ==
  ASSUME TransferInv, NEW m \in Memories, Purge(m)
  PROVE  TransferInv'
<1> DEFINE tables == [origin EXCEPT !.memories = @ \ {m}, !.sources = {s \in @ : s[1] # m}]
<1>1. Wrote(tables) /\ origin' = tables /\ m \notin origin.active
  BY DEF Purge, Wrote
<1>2. /\ origin'.events = origin.events /\ origin'.next = origin.next
      /\ origin'.memories = origin.memories \ {m} /\ origin'.active = origin.active
      /\ origin'.sources = {s \in origin.sources : s[1] # m} /\ origin' \in Tables
  BY <1>1 DEF TransferInv, OriginSound, Tables
<1>3. OriginSound'
  <2>1. ASSUME NEW n \in origin.active, NEW e \in origin.events, <<n, e>> \in origin.sources
        PROVE  <<n, e>> \in origin'.sources
    BY <2>1, <1>1, <1>2
  <2> QED BY <1>1, <1>2, <2>1 DEF TransferInv, OriginSound
<1> QED BY <1>1, <1>3, WriteKeeps

LEMMA AcknowledgeKeeps == TransferInv /\ Acknowledge => TransferInv'
<1> SUFFICES ASSUME TransferInv, Acknowledge PROVE TransferInv'
  OBVIOUS
<1> DEFINE tables == [origin EXCEPT !.receipt = origin.next - 1]
<1>1. Wrote(tables) /\ origin' = tables
  BY DEF Acknowledge, Wrote
<1>2. /\ origin'.events = origin.events /\ origin'.next = origin.next
      /\ origin'.memories = origin.memories /\ origin'.active = origin.active
      /\ origin'.sources = origin.sources /\ origin' \in Tables
  BY <1>1 DEF TransferInv, OriginSound, Tables
<1>3. OriginSound'
  BY <1>2 DEF TransferInv, OriginSound
<1> QED BY <1>1, <1>3, WriteKeeps

\* The first table starts an export without writes; each next one is current
\* unless something was written.
LEMMA ExportTableKeeps == TransferInv /\ ExportTable => TransferInv'
<1> SUFFICES ASSUME TransferInv, ExportTable PROVE TransferInv'
  OBVIOUS
<1> DEFINE n == export.table
<1>1. /\ n \in 0..3 /\ export.data \in Tables /\ origin \in Tables
      /\ UNCHANGED <<origin, target>> /\ writes' = (n > 0 /\ writes)
      /\ export' = [table |-> n + 1, data |-> ReadTable(export.data, Queries[n + 1])]
  BY DEF ExportTable, Queries, TransferInv, ExportSound, OriginSound
<1>2. PICK k \in Nat : export.data.events = 1..k
  BY DEF TransferInv, ExportSound
<1>3. ~writes' => n = 0 \/ ReadIsCurrent
  BY <1>1 DEF TransferInv, ExportSound
<1>4. ExportSound'
  <2>0. writes' \in BOOLEAN
    BY <1>1
  <2>1. CASE n = 0
    <3>1. export' = [table |-> 1, data |-> [export.data EXCEPT !.events = origin.events]]
      BY <1>1, <2>1 DEF ReadTable, Queries
    <3>2. export'.data \in Tables /\ export'.data.events = origin.events /\ export'.table = 1
      BY <3>1, <1>1 DEF Tables
    <3>3. origin.next - 1 \in Nat /\ origin.events = 1..(origin.next - 1)
      BY DEF TransferInv, OriginSound, Tables
    <3>4. export' \in [table : 0..4, data : Tables]
      BY <3>1, <3>2
    <3>5. ReadIsCurrent'
      BY <3>2, <1>1 DEF ReadIsCurrent
    <3> QED BY <2>0, <3>2, <3>3, <3>4, <3>5 DEF ExportSound
  <2>2. CASE n = 1
    <3>1. export' = [table |-> 2, data |-> [export.data EXCEPT !.memories = origin.memories,
                                                              !.active = origin.active]]
      BY <1>1, <2>2 DEF ReadTable, Queries
    <3>2. /\ export'.data \in Tables /\ export'.data.events = export.data.events
          /\ export'.table = 2 /\ export'.data.memories = origin.memories
          /\ export'.data.active = origin.active
      <4> DEFINE read == [export.data EXCEPT !.memories = origin.memories,
                                             !.active = origin.active]
      <4>1. read \in Tables
        BY <1>1 DEF Tables
      <4>2. /\ read.events = export.data.events /\ read.memories = origin.memories
            /\ read.active = origin.active
        BY <1>1 DEF Tables
      <4>3. export'.data = read /\ export'.table = 2
        BY <3>1
      <4> HIDE DEF read
      <4> QED BY <4>1, <4>2, <4>3
    <3>3. ~writes' => ReadIsCurrent'
      BY <3>2, <2>2, <1>1, <1>3 DEF ReadIsCurrent
    <3>4. export' \in [table : 0..4, data : Tables]
      BY <3>1, <3>2
    <3> QED BY <2>0, <3>2, <3>3, <3>4, <1>2 DEF ExportSound
  <2>3. CASE n = 2
    <3>1. export' = [table |-> 3, data |-> [export.data EXCEPT !.sources = origin.sources]]
      BY <1>1, <2>3 DEF ReadTable, Queries
    <3>2. /\ export'.data \in Tables /\ export'.data.events = export.data.events
          /\ export'.table = 3 /\ export'.data.memories = export.data.memories
          /\ export'.data.active = export.data.active
          /\ export'.data.sources = origin.sources
      BY <3>1, <1>1 DEF Tables
    <3>3. ~writes' => ReadIsCurrent'
      BY <3>2, <2>3, <1>1, <1>3 DEF ReadIsCurrent
    <3>4. export' \in [table : 0..4, data : Tables]
      BY <3>1, <3>2
    <3> QED BY <2>0, <3>2, <3>3, <3>4, <1>2 DEF ExportSound
  <2>4. CASE n = 3
    <3>1. export' = [table |-> 4, data |-> [export.data EXCEPT !.receipt = origin.receipt]]
      BY <1>1, <2>4 DEF ReadTable, Queries
    <3>2. /\ export'.data \in Tables /\ export'.data.events = export.data.events
          /\ export'.table = 4 /\ export'.data.memories = export.data.memories
          /\ export'.data.active = export.data.active
          /\ export'.data.sources = export.data.sources
          /\ export'.data.receipt = origin.receipt
      BY <3>1, <1>1 DEF Tables
    <3>3. ~writes' => ReadIsCurrent'
      BY <3>2, <2>4, <1>1, <1>3 DEF ReadIsCurrent
    <3>4. export' \in [table : 0..4, data : Tables]
      BY <3>1, <3>2
    <3> QED BY <2>0, <3>2, <3>3, <3>4, <1>2 DEF ExportSound
  <2> QED BY <1>1, <2>1, <2>2, <2>3, <2>4
<1>5. OriginSound'
  BY <1>1 DEF TransferInv, OriginSound
<1>6. target' = NoTables
  BY <1>1 DEF TransferInv, TargetSound
<1>7. TargetSound'
  BY <1>6 DEF TargetSound, NoTables, Empty
<1> QED BY <1>4, <1>5, <1>7 DEF TransferInv

LEMMA ImportKeeps == TransferInv /\ (Import \/ Again) => TransferInv'
<1> SUFFICES ASSUME TransferInv, Import \/ Again PROVE TransferInv'
  OBVIOUS
<1>1. OriginSound'
  BY DEF Import, Again, TransferInv, OriginSound
<1>2. CASE Import
  <2>1. ExportSound'
    BY <1>2 DEF Import, TransferInv, ExportSound, ReadIsCurrent
  <2>2. TargetSound'
    BY <1>2 DEF Import, Queries, TargetSound, LinksResolve, ActiveSourced, NextAfter
  <2> QED BY <1>1, <2>1, <2>2 DEF TransferInv
<1>3. CASE Again
  <2>1. /\ export' = [table |-> 0, data |-> Empty] /\ target' = NoTables /\ writes' = writes
        /\ export'.data.events = 1..0 /\ export'.table = 0
    BY <1>3 DEF Again, Empty
  <2>2. ExportSound'
    <3>1. export' \in [table : 0..4, data : Tables]
      BY <2>1, EmptyIsTables
    <3>2. ReadIsCurrent'
      BY <2>1 DEF ReadIsCurrent
    <3>3. \E k \in Nat : export'.data.events = 1..k
      BY <2>1, 0 \in Nat
    <3> QED BY <2>1, <3>1, <3>2, <3>3 DEF ExportSound, TransferInv
  <2>3. TargetSound'
    BY <2>1 DEF TargetSound, NoTables, Empty
  <2> QED BY <1>1, <2>2, <2>3 DEF TransferInv
<1> QED BY <1>2, <1>3

LEMMA TransferStep == TransferInv /\ [TransferNext]_transferVars => TransferInv'
<1> SUFFICES ASSUME TransferInv, [TransferNext]_transferVars PROVE TransferInv'
  OBVIOUS
<1>1. CASE Record \/ Acknowledge
  BY <1>1, RecordKeeps, AcknowledgeKeeps
<1>2. ASSUME NEW m \in Memories, NEW e \in origin.events, Remember(m, e) PROVE TransferInv'
  BY <1>2, RememberKeeps
<1>3. ASSUME NEW m \in Memories, Withdraw(m) \/ Purge(m) PROVE TransferInv'
  BY <1>3, WithdrawKeeps, PurgeKeeps
<1>4. CASE ExportTable
  BY <1>4, ExportTableKeeps
<1>5. CASE Import \/ Again
  BY <1>5, ImportKeeps
<1>6. CASE UNCHANGED transferVars
  BY <1>6 DEF transferVars, TransferInv, OriginSound, ExportSound, ReadIsCurrent, TargetSound,
              LinksResolve, ActiveSourced, NextAfter, NoTables, Empty
<1> QED BY <1>1, <1>2, <1>3, <1>4, <1>5, <1>6 DEF TransferNext

THEOREM TransferInvariant == TransferSpec => []TransferInv
BY TransferStart, TransferStep, PTL DEF TransferSpec

\* What import_project accepts is traceable and its next event takes and leaves
\* out no number, whatever was written while export_project read the tables;
\* without writes it is accepted and equal to its origin.
THEOREM RestoresAreSound == TransferSpec => []RestoredSound
<1>1. TransferInv => RestoredSound
  <2> SUFFICES ASSUME TransferInv PROVE RestoredSound
    OBVIOUS
  <2>1. ASSUME target # NoTables
        PROVE  /\ \A m \in target.active : \E e \in target.events : <<m, e>> \in target.sources
               /\ \A s \in target.sources : s[1] \in target.memories
               /\ target.events = 1..(target.next - 1)
    <3>1. /\ target = [export.data EXCEPT !.next = NextAfter(export.data)]
          /\ LinksResolve(export.data) /\ ActiveSourced(export.data)
          /\ export.data \in Tables
      BY <2>1 DEF TransferInv, TargetSound, ExportSound
    <3>2. /\ target.active = export.data.active /\ target.events = export.data.events
          /\ target.sources = export.data.sources /\ target.memories = export.data.memories
          /\ target.next = NextAfter(export.data)
      BY <3>1 DEF Tables
    <3>3. PICK k \in Nat : export.data.events = 1..k
      BY DEF TransferInv, ExportSound
    <3>4. Cardinality(1..k) = k
      <4>1. 1 \in Int /\ k \in Int
        BY <3>3
      <4>2. Cardinality(1..k) = IF 1 > k THEN 0 ELSE k - 1 + 1
        BY <4>1, FS_Interval
      <4> QED BY <4>2, <3>3
    <3>5. target.events = 1..(target.next - 1)
      <4>1. target.next = k + 1
        BY <3>2, <3>3, <3>4 DEF NextAfter
      <4> QED BY <4>1, <3>2, <3>3
    <3>6. ASSUME NEW m \in target.active
          PROVE  \E e \in target.events : <<m, e>> \in target.sources
      <4>1. PICK s \in export.data.sources : s[1] = m /\ s[2] \in export.data.events
        BY <3>1, <3>2, <3>6 DEF ActiveSourced
      <4>2. s = <<m, s[2]>>
        BY <4>1, <3>1 DEF Tables
      <4> QED BY <4>1, <4>2, <3>2
    <3>7. \A s \in target.sources : s[1] \in target.memories
      BY <3>1, <3>2 DEF LinksResolve
    <3> QED BY <3>5, <3>6, <3>7
  <2>2. ASSUME export.table = Len(Queries), ~writes
        PROVE  /\ LinksResolve(export.data) /\ ActiveSourced(export.data)
               /\ target # NoTables => target = origin
    <3>1. export.table = 4 /\ export.data \in Tables /\ origin \in Tables
      BY <2>2 DEF Queries, TransferInv, ExportSound, OriginSound
    <3>2. /\ export.data.events = origin.events /\ export.data.memories = origin.memories
          /\ export.data.active = origin.active /\ export.data.sources = origin.sources
          /\ export.data.receipt = origin.receipt
      BY <2>2, <3>1 DEF TransferInv, ExportSound, ReadIsCurrent
    <3>3. LinksResolve(export.data)
      BY <3>2 DEF LinksResolve, TransferInv, OriginSound
    <3>4. ActiveSourced(export.data)
      <4>1. ASSUME NEW m \in origin.active
            PROVE  \E s \in origin.sources : s[1] = m /\ s[2] \in origin.events
        <5>1. PICK e \in origin.events : <<m, e>> \in origin.sources
          BY <4>1 DEF TransferInv, OriginSound
        <5> QED BY <5>1
      <4> QED BY <3>2, <4>1 DEF ActiveSourced
    <3>5. ASSUME target # NoTables PROVE target = origin
      <4>1. target = [export.data EXCEPT !.next = NextAfter(export.data)]
        BY <3>5 DEF TransferInv, TargetSound
      <4>2. NextAfter(export.data) = origin.next
        <5>1. origin.next \in Nat /\ origin.next >= 1 /\ origin.events = 1..(origin.next - 1)
          BY DEF TransferInv, OriginSound, Tables
        <5>2. Cardinality(1..(origin.next - 1)) = origin.next - 1
          <6>1. 1 \in Int /\ origin.next - 1 \in Int
            BY <5>1
          <6>2. Cardinality(1..(origin.next - 1))
                  = IF 1 > origin.next - 1 THEN 0 ELSE (origin.next - 1) - 1 + 1
            BY <6>1, FS_Interval
          <6> QED BY <6>2, <5>1
        <5> QED BY <3>2, <5>1, <5>2 DEF NextAfter
      <4> QED BY <4>1, <4>2, <3>1, <3>2 DEF Tables
    <3> QED BY <3>3, <3>4, <3>5
  <2> QED BY <2>1, <2>2 DEF RestoredSound
<1> QED BY <1>1, TransferInvariant, PTL
=============================================================================
