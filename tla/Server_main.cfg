SPECIFICATION MCSpec
CONSTANTS
  Parts = {"lazy", "cache", "queries", "orchestrator", "experiments", "hypotheses", "stress", "patterns", "suggestions", "reload", "observe", "budget", "issues", "profiler", "memory", "anomalies", "registry", "deadlocks", "pools", "inspector", "builder", "overlays", "processor", "rpc"}
  Callers = {c1, c2}
  Requested = {"visual_overlay_processor", "query_builder_processor", "memory_profiler_processor", "issue_detector_processor", "performance_budget_processor", "debug_command_router"}
  Features = {"entity-inspection", "performance-profiling", "session-management"}
  CacheTools = {"observe", "debug", "experiment"}
  Args = {a1, a2}
  MaxCached = 2
  MaxSize = 1
  MaxRuns = 4
  QueryEntities = {e1, e2}
  QueryComponents = {k1, k2, k3}
  Requests <- SomeRequests
  MaxStates = 1
  EnoughFor = 1
  EntityBatch = 2
  Permits = 1
  MaxHistory = 1
  MaxAsked = 2
  MaxChanges = 1
  Tools = {"observe", "experiment", "stress"}
  Pipelines <- SomePipelines
  MaxPipelines = 2
  MaxEntities = 2
  MaxBatch = 2
  Rate = 2
  MaxSpawned = 2
  Made = 1
  Target = 1
  Duration = 2
  Threshold = 2
  ResetTimeout = 1
  MaxAlive = 3
  MaxBackups = 1
  MaxWrites = 2
  MaxSeconds = 1
  MaxForced = 1
  Requesters = {c1}
  Sessions = {s1}
  Kinds <- SomeKinds
  Handlers <- SomeHandlers
  SessionEntities = {e1}
  RequestSizes = {0, 1}
  MaxRequestSize = 0
  RateLimit = 1
  RateWindow = 2
  Enforced = TRUE
  MaxClock = 3
  MaxRequests = 4
  MaxUpdates = 1
  GamePools = {"v"}
  NullPools = {"j"}
  Tiers = {"small", "large"}
  PoolLimit = 1
  BufferSizes = {1, 3}
  TierOf <- SomeTier
  MaxTakes = 4
  WarmUps = 1
  WarmCount = 2
  OverlayTypes = {"highlight", "markers"}
  Markers = "markers"
  MarkerIds = {m}
  Times = {1, 3}
  FrameWindow = 1
  Budget = 2
  WarnEvery = 1
  GlobalOn = TRUE
  MaxTime = 1
  MaxCalls = 3
  LockThreads = {"t1", "t2"}
  TrackedLocks = {"a", "b"}
  LockModes = {"write"}
  MaxLockOps = 5
  IssuePatterns = {"leak"}
  IssueChecks <- SomeChecks
  IssueTriggers = {Trigger}
  MaxMonitors = 2
  AlertThrottle = 2
  KeptAlerts = 2
  MaxIssueTime = 1
  MaxIssueAlerts = 2
  Inspectors = {c1}
  Inspected = {"e1", "e2"}
  InspectedKinds = {"k1"}
  ParentKind = "P"
  InspectedValues = {"v1"}
  RecentFrames = 1
  InspectionTtl = 1
  MaxInspected = 1
  InspectionKept = 2
  MaxInspectBatch = 2
  MaxInspectTime = 1
  MaxInspectChanges = 1
  MaxInspections = 2
  Observers = {c1}
  Observed = {"e1"}
  ObservedKinds = {"k1"}
  ObservedValues = {0, 1, 3}
  Tolerance = 1
  ImmutableKinds = {}
  MaxDrift = 1
  LeastValue = 0
  GreatestValue = 2
  ObservationTtl = 0
  KeptSnapshots = 2
  MaxObserveTime = 1
  MaxObservations = 3
  RpcEntities = {1, 2}
  RpcTypes = {"GlobalTransform", "Transform"}
  RpcNames = {"GlobalTransform", "Transform"}
  NameEndsIn <- SomeEnding
  TypeLists <- SomeLists
  RpcValues = {1}
  RpcLimits = {1}
  MaxRpcChanges = 1
  MaxRpcRequests = 1
  TestIterations = {0, 2}
  ConfirmThresholds = {0, 95}
  KeptExamples = 1
  MaxTestEntities = 1
  BudgetedSystems = {"s1"}
  GreatestMetric = 1
  PlatformBudget = 0
  KeptViolations = 2
  KeptSamples = 2
  MaxBudgetTime = 1
  MaxBudgetChecks = 2
  ProfiledSystems = {"s1", "s2"}
  Profilers = {"c1"}
  ProfileDurations = {1, 2, None}
  DefaultDuration = 2
  LongestProfileWait = 1
  ProfiledAtOnce = 1
  ExecutionTimes = {1, 3}
  AverageWindow = 1
  KeptFrames = 1
  MaxProfileTime = 2
  MaxProfiles = 2
  MaxProfileSamples = 2
  OverlayTasks = {"t1", "t2"}
  ProcessedTypes = {"a", "b"}
  OverlayConfigs = {"c", "d"}
  LargeConfigs = {"d"}
  RenderTimes = {0, 3}
  RenderBudget = 2
  MaxOverlayCommands = 3
  None = None
INVARIANTS TypesOK    SummariesTrue  AlarmsGiven
PROPERTIES EvictsLru  
CHECK_DEADLOCK FALSE
