SPECIFICATION Spec
CONSTANTS
  \* Sessions
  Agents = {x1, x2}
  SessionIds = {s1}
  ClientKeys = {k1}
  HookModes = {"interim", "final"}
  Goals = {g1}
  NoGoal = NoGoal
  Usages = {8}
  NoUsage = NoUsage
  NoEvent = NoEvent
  MaxLog = 3
  Lag = 1
  MaxCalls = 2
  \* Investigation
  Researchers = {x1, x2}
  Investigations = {"y1", "y2"}
  Versions = {"v1", "v2"}
  Reasons = {"old"}
  Requests <- MCRequests
  AnalysisKeys = {k1}
  NoAnalysisKey = NoAnalysisKey
  MaxAnalyses = 2
  \* AuditChain
  Exporters = {e1}
  KeepValues = {1, 2}
  Purges = {0, 1}
  MaxSeq = 6
  \* MaintenanceSchedule
  Operators = {x1, x2}
  Schedulers = {y1, y2}
  Thresholds = {1, 2, 3}
  Interval = 2
  Never = Never
  MaxClock = 2
  MaxStarts = 2
  \* Transfer
  Memories = {x1, x2}
  MaxEvents = 2
  \* HostedContent
  HostedProjects = {p1}
  Writers = {x1, x2}
  Sizes = {1, 2}
  MaxProjects = 1
  MaxProjectEvents = 2
  MaxTenantBytes = 3
  MaxRecorded = 3
  MaxTime = 1
  \* HostedGateway
  Handlers = {x1, x2}
  RequestKeys = {k1}
  Asked <- MCAsked
  Admin = a1
  OtherActor = a2
  Root = "p0"
  Retention = 1
  RequestLimit = 1
  RateWindow = 2
  LastTick = 2
  MaxRequests = 2
  MaxCrashes = 1
SYMMETRY MCSymmetry
INVARIANTS
  QuietMeansCovered
  HandoffReplacedOnce
  OneCandidatePerEvent
  ClaimsRestOnEvidence
  AnswersAgree
  EveryRowOnce
  ExportVerifies
  SoftBelowHard
  FirstRunsApart
  RestoredSound
  PolledUpToCursor
  CompletedIsTrue
  AuditIsTrue
  SingleFlight
CHECK_DEADLOCK FALSE
