---------------------------- MODULE ServerParts ----------------------------
(* The parts of the MCP server and its tools about which more is proved than   *)
(* TLC checks: the instances of their modules that the run of MCServer         *)
(* exercises, the inductive invariants of each, and the proofs that its steps  *)
(* keep them, for any number of callers, tools, entities, overlays, pools and  *)
(* requests and for any limits that the assumptions of the parts allow.  All   *)
(* of them use v1, v2, ... for their variables, each in the order of its       *)
(* VARIABLES.                                                                  *)
EXTENDS Naturals, Integers, SequenceTheorems, FiniteSetTheorems,
        WellFoundedInduction, TLAPS

CONSTANTS
  Callers,     \* the tasks that share the components, the cache, the queries,
               \* the pools and the overlays
  Requested, Features,                                          \* see LazyInit
  CacheTools, Args, MaxCached, MaxSize, MaxRuns,                \* see CommandCache
  QueryEntities, QueryComponents, Requests, MaxStates, EnoughFor, EntityBatch,
  Permits, MaxHistory, MaxAsked, MaxChanges,                    \* see QueryExecutor
  Tools, Pipelines, MaxPipelines,                               \* see Orchestrator
  MaxEntities, MaxBatch,                                        \* see Experiments
  Rate, MaxSpawned, Made, Target, Duration, Threshold, ResetTimeout,
  MaxAlive,                                                     \* see StressTests
  MaxBackups, MaxWrites, MaxSeconds, MaxForced,                 \* see HotReload
  Requesters, Sessions, Kinds, Handlers, SessionEntities, RequestSizes,
  MaxRequestSize, RateLimit, RateWindow, Enforced, MaxClock, MaxRequests,
  MaxUpdates,                                                   \* see Registry
  GamePools, NullPools, Tiers, PoolLimit, BufferSizes, TierOf(_), MaxTakes,
  WarmUps, WarmCount,                                           \* see Pools
  OverlayTypes, Markers, MarkerIds, Times, FrameWindow, Budget, WarnEvery, GlobalOn,
  MaxTime, MaxCalls,                                                   \* see Overlays
  LockThreads, TrackedLocks, LockModes, MaxLockOps,             \* see DeadlockDetector
  IssuePatterns, IssueChecks, IssueTriggers, MaxMonitors, AlertThrottle, KeptAlerts,
  MaxIssueTime, MaxIssueAlerts,                                 \* see Issues
  Inspectors, Inspected, InspectedKinds, ParentKind, InspectedValues, RecentFrames,
  InspectionTtl, MaxInspected, InspectionKept, MaxInspectBatch, MaxInspectTime,
  MaxInspectChanges, MaxInspections,                            \* see Inspector
  Observers, Observed, ObservedKinds, ObservedValues, Tolerance, ImmutableKinds,
  MaxDrift, LeastValue, GreatestValue, ObservationTtl, KeptSnapshots,
  MaxObserveTime, MaxObservations,                              \* see Observe
  RpcEntities, RpcTypes, RpcNames, NameEndsIn(_, _), TypeLists, RpcValues, RpcLimits,
  MaxRpcChanges, MaxRpcRequests,                                \* see JsonRpc
  TestIterations, ConfirmThresholds, KeptExamples, MaxTestEntities, \* see Hypotheses
  BudgetedSystems, GreatestMetric, PlatformBudget, KeptViolations, KeptSamples,
  MaxBudgetTime, MaxBudgetChecks,                               \* see Budget
  ProfiledSystems, Profilers, ProfileDurations, DefaultDuration, LongestProfileWait,
  ProfiledAtOnce, ExecutionTimes, AverageWindow, KeptFrames, MaxProfileTime,
  MaxProfiles, MaxProfileSamples,                               \* see SystemProfiler
  OverlayTasks, ProcessedTypes, OverlayConfigs, LargeConfigs, RenderTimes,
  RenderBudget, MaxOverlayCommands,                             \* see OverlayProcessor
  None

VARIABLES
  v1, v2, v3, v4, v5, v6, v7, v8, v9, v10, v11, v12, v13, v14, v15

-----------------------------------------------------------------------------
(* The processors that have no parts and are not preloaded.                    *)
Leaves ==
  SelectSeq(
    <<"visual_overlay_processor", "query_builder_processor", "memory_profiler_processor",
      "issue_detector_processor", "performance_budget_processor">>,
    LAMBDA x : x \in Requested)

LZ == INSTANCE LazyInit WITH
  Alike <- Leaves, built <- v1, cell <- v2, owner <- v3, stack <- v4,
  todo <- v5

CC == INSTANCE CommandCache WITH
  Tools <- CacheTools, MaxEntries <- MaxCached, cache <- v1, order <- v2,
  entries <- v3, bytes <- v4, left <- v5, call <- v6, runs <- v7

QE == INSTANCE QueryExecutor WITH
  Entities <- QueryEntities, Components <- QueryComponents, BatchSize <- EntityBatch,
  world <- v1, states <- v2, results <- v3, last <- v4, history <- v5,
  readers <- v6, writer <- v7, client <- v8, permits <- v9, job <- v10,
  asked <- v11, changes <- v12

TO == INSTANCE Orchestrator WITH
  MaxRuns <- MaxPipelines, result_cache <- v1, pipeline <- v2, context <- v3,
  results <- v4, attempt <- v5, tasks <- v6, local <- v7, produced <- v8,
  reports <- v9, runs <- v10

EX == INSTANCE Experiments WITH
  alive <- v1, made <- v2, undo_stack <- v3, redo_stack <- v4,
  transactions <- v5, batch <- v6

ST == INSTANCE StressTests WITH
  MaxEntities <- MaxAlive, tests <- v1, phase <- v2, left <- v3, batch <- v4,
  total <- v5, known <- v6, failure_count <- v7, is_open <- v8, since <- v9,
  error_count <- v10, monitor <- v11, report <- v12, alive <- v13,
  owner <- v14, refused <- v15

HR == INSTANCE HotReload WITH
  MaxTime <- MaxSeconds, now <- v1, files <- v2, writes <- v3, order <- v4,
  running <- v5, reports <- v6, last_reload <- v7, queue <- v8, step <- v9,
  loaded <- v10, model_version <- v11, asked <- v12

CR == INSTANCE Registry WITH
  Callers <- Requesters, Entities <- SessionEntities, Sizes <- RequestSizes,
  MaxSize <- MaxRequestSize, Window <- RateWindow, MaxTime <- MaxClock,
  now <- v1, handlers <- v2, sessions <- v3, existing <- v4, request <- v5,
  passed <- v6, handled <- v7, requests <- v8, updates <- v9

RP == INSTANCE Pools WITH
  Tasks <- Callers, Limit <- PoolLimit, Sizes <- BufferSizes, objects <- v1,
  current <- v2, doing <- v3, takes <- v4, warmed <- v5, counts <- v6,
  stats <- v7

OV == INSTANCE Overlays WITH
  Tasks <- Callers, Types <- OverlayTypes, Ids <- MarkerIds, Window <- FrameWindow,
  states <- v1, writer <- v2,
  readers <- v3, tracker <- v4, client <- v5, held <- v6, job <- v7,
  game <- v8, now <- v9, calls <- v10

DD == INSTANCE DeadlockDetector WITH
  Threads <- LockThreads, Locks <- TrackedLocks, Modes <- LockModes,
  MaxOps <- MaxLockOps, held <- v1, graph <- v2, detections <- v3, wants <- v4,
  guards <- v5, got <- v6, reported <- v7, dropped <- v8, ops <- v9

ID == INSTANCE Issues WITH
  Patterns <- IssuePatterns, Checks <- IssueChecks, Triggers <- IssueTriggers,
  MaxStarts <- MaxMonitors, Throttle <- AlertThrottle, MaxHistory <- KeptAlerts,
  MaxTime <- MaxIssueTime, MaxAlerts <- MaxIssueAlerts,
  now <- v1, rules <- v2, alert_history <- v3, throttle_map <- v4, stats <- v5,
  detect <- v6, alerts <- v7, starts <- v8, handle <- v9, stopping <- v10,
  signalled <- v11, task <- v12, checking <- v13, position <- v14,
  monitoring_active <- v15

EI == INSTANCE Inspector WITH
  Callers <- Inspectors, Entities <- Inspected, Components <- InspectedKinds,
  Parent <- ParentKind, Values <- InspectedValues, Recent <- RecentFrames,
  Ttl <- InspectionTtl, MaxCached <- MaxInspected, KeptFor <- InspectionKept,
  MaxBatch <- MaxInspectBatch, MaxTime <- MaxInspectTime,
  MaxChanges <- MaxInspectChanges, MaxRequests <- MaxInspections,
  world <- v1, cache <- v2, modified <- v3, frame <- v4, now <- v5,
  client <- v6, job <- v7, requests <- v8, changes <- v9, touched <- v10

OB == INSTANCE Observe WITH
  Callers <- Observers, Entities <- Observed, Components <- ObservedKinds,
  Values <- ObservedValues, Epsilon <- Tolerance, Immutable <- ImmutableKinds,
  MaxRate <- MaxDrift, MinValue <- LeastValue, MaxValue <- GreatestValue,
  Ttl <- ObservationTtl, MaxHistory <- KeptSnapshots, MaxTime <- MaxObserveTime,
  MaxSnapshots <- MaxObservations, now <- v1, world <- v2, connected <- v3,
  cache <- v4, last_snapshot <- v5, history <- v6, generation <- v7, call <- v8,
  answer <- v9

JR == INSTANCE JsonRpc WITH
  Entities <- RpcEntities, Types <- RpcTypes, Names <- RpcNames, EndsIn <- NameEndsIn,
  Lists <- TypeLists, Values <- RpcValues, Limits <- RpcLimits,
  MaxChanges <- MaxRpcChanges, MaxRequests <- MaxRpcRequests, world <- v1,
  listed <- v2, cache <- v3, connected <- v4, job <- v5, answer <- v6,
  changes <- v7, requests <- v8

HY == INSTANCE Hypotheses WITH
  Iterations <- TestIterations, Thresholds <- ConfirmThresholds,
  MaxExamples <- KeptExamples, MaxEntities <- MaxTestEntities,
  test <- v1, outcomes <- v2, successes <- v3, failures <- v4, examples <- v5,
  edge_cases <- v6, verdict <- v7, alive <- v8, made <- v9

PB == INSTANCE Budget WITH
  Systems <- BudgetedSystems, Limit <- GreatestMetric, Override <- PlatformBudget,
  MaxViolations <- KeptViolations, MaxSamples <- KeptSamples,
  MaxTime <- MaxBudgetTime, MaxChecks <- MaxBudgetChecks, now <- v1, config <- v2,
  monitoring_active <- v3, active_violations <- v4, violation_history <- v5,
  compliance_samples <- v6, stats <- v7, task <- v8, found <- v9, state <- v10,
  report <- v11

SP == INSTANCE SystemProfiler WITH
  Systems <- ProfiledSystems, Callers <- Profilers, Durations <- ProfileDurations,
  Default <- DefaultDuration, LongestWait <- LongestProfileWait,
  MaxConcurrent <- ProfiledAtOnce, Times <- ExecutionTimes, Window <- AverageWindow,
  MaxFrames <- KeptFrames, MaxTime <- MaxProfileTime, MaxSessions <- MaxProfiles,
  MaxSamples <- MaxProfileSamples, now <- v1, sessions <- v2, made <- v3,
  command <- v4, timers <- v5, frames <- v6, current_frame <- v7, window <- v8,
  sum <- v9, anomalies <- v10, samples <- v11

OP == INSTANCE OverlayProcessor WITH
  Tasks <- OverlayTasks, Types <- ProcessedTypes, Configs <- OverlayConfigs,
  Large <- LargeConfigs, Renders <- RenderTimes, Budget <- RenderBudget,
  MaxCalls <- MaxOverlayCommands, overlays <- v1, total <- v2, lock <- v3,
  link <- v4, job <- v5, game <- v6, answer <- v7, acked <- v8, calls <- v9

ASSUME ProvedPartsAssumption ==
  /\ LZ!CallersAssumption /\ LZ!RequestedAssumption /\ CC!SizesAssumption
  /\ QE!ExecutorAssumption /\ EX!ExperimentsAssumption /\ ST!StressAssumption
  /\ HR!HotReloadAssumption /\ CR!RegistryAssumption /\ RP!PoolsAssumption
  /\ OV!OverlaysAssumption /\ DD!DetectorAssumption /\ ID!IssuesAssumption
  /\ EI!InspectorAssumption /\ OB!ObserveAssumption /\ JR!JsonRpcAssumption
  /\ HY!HypothesesAssumption /\ PB!BudgetAssumption /\ SP!ProfilerAssumption
  /\ OP!OverlayProcessorAssumption

-----------------------------------------------------------------------------
(* Overlays.  Whoever sends a request holds a read guard of the states, so the *)
(* state it carries cannot have changed since it was read.                     *)
OverlaysInv ==
  /\ v2 # None => v3 = {}
  /\ DOMAIN v7 = Callers
  /\ \A t \in Callers : v7[t].at = "send" =>
       /\ t \in v3 /\ v7[t].type \in DOMAIN v1
       /\ v7[t].sent = OV!Shown(v1[v7[t].type])

LEMMA OverlaysStart == ASSUME OV!Init PROVE OverlaysInv
  BY DEF OV!Init, OV!NoJob, OverlaysInv

LEMMA OverlaysStep ==
  ASSUME OverlaysInv, [OV!Next]_(OV!vars)
  PROVE  OverlaysInv'
<1> USE DEF OverlaysInv
<1>1. CASE OV!Tick
  BY <1>1 DEF OV!Tick
<1>2. ASSUME NEW t \in Callers, NEW y \in OverlayTypes, NEW on \in BOOLEAN, OV!set_overlay_enabled(t, y, on)
      PROVE  OverlaysInv'
  BY <1>2 DEF OV!set_overlay_enabled, OV!Free
<1>3. ASSUME NEW t \in Callers, NEW m \in MarkerIds, OV!MarkersChange(t, m) PROVE OverlaysInv'
  BY <1>3 DEF OV!MarkersChange, OV!Free
<1>4. ASSUME NEW t \in Callers, OV!clear_all_overlays(t) PROVE OverlaysInv'
  BY <1>4 DEF OV!clear_all_overlays, OV!Free
<1>5. ASSUME NEW t \in Callers, OV!SyncReads(t) PROVE OverlaysInv'
  <2>1. CASE v7[t].type \in DOMAIN v1
    BY <1>5, <2>1 DEF OV!SyncReads, OV!Guarded
  <2>2. CASE v7[t].type \notin DOMAIN v1
    BY <1>5, <2>2 DEF OV!SyncReads, OV!NoJob
  <2> QED
    BY <2>1, <2>2
<1>6. ASSUME NEW t \in Callers, OV!SyncTakesClient(t) PROVE OverlaysInv'
  BY <1>6 DEF OV!SyncTakesClient
<1>7. ASSUME NEW t \in Callers, OV!SyncEnds(t) PROVE OverlaysInv'
  BY <1>7 DEF OV!SyncEnds, OV!NoJob
<1>8. ASSUME NEW t \in Callers, NEW y \in OverlayTypes, NEW x \in Times, OV!update_performance_metrics(t, y, x)
      PROVE  OverlaysInv'
  BY <1>8 DEF OV!update_performance_metrics
<1>9. ASSUME NEW t \in Callers, OV!ImpactIsStored(t) PROVE OverlaysInv'
  BY <1>9 DEF OV!ImpactIsStored, OV!Free, OV!NoJob
<1>10. CASE UNCHANGED OV!vars
  BY <1>10 DEF OV!vars
<1> QED
  BY <1>1, <1>2, <1>3, <1>4, <1>5, <1>6, <1>7, <1>8, <1>9, <1>10 DEF OV!Next

(* A request that was applied shows what the manager holds.                    *)
LEMMA OverlaysApply ==
  ASSUME OverlaysInv, [OV!Next]_(OV!vars)
  PROVE  OV!Applies
<1> SUFFICES ASSUME NEW t \in Callers, v5 = t, v5' = None, v8' # v8
             PROVE  v8'[v7[t].type] = OV!Shown(v1'[v7[t].type])
  BY DEF OV!Applies
<1>1. OV!SyncEnds(t)
  BY DEF OV!Next, OV!vars, OV!Tick, OV!set_overlay_enabled, OV!MarkersChange,
     OV!clear_all_overlays, OV!SyncReads, OV!SyncTakesClient, OV!SyncEnds,
     OV!update_performance_metrics, OV!ImpactIsStored
<1> QED
  BY <1>1 DEF OV!SyncEnds, OV!With, OverlaysInv

-----------------------------------------------------------------------------
(* Lazy components.  A getter that builds holds init_mutex, has not filled its *)
(* cell and has the parts it counts; the getters it calls wait for nothing but *)
(* the same mutex, so no stack is deeper than two.                             *)
Frame == [of : LZ!Components, at : {"look", "lock", "build"}, got : Nat]
Wanted(f) == LZ!PartsOf(f.of)

Builds(p, f) ==
  /\ v3 = p /\ f.of \notin v2 /\ f.got <= Len(Wanted(f))
  /\ \A k \in 1..f.got : Wanted(f)[k] \in v2

Stack(p, s) ==
  \/ s = <<>>
  \/ \E f \in Frame : s = <<f>> /\ (IF f.at = "build" THEN Builds(p, f) ELSE f.got = 0)
  \/ \E f, g \in Frame :
       /\ s = <<f, g>> /\ f.at # "build" /\ f.got = 0 /\ g.at = "build" /\ Builds(p, g)
       /\ g.got < Len(Wanted(g)) /\ f.of = Wanted(g)[g.got + 1]

LazyInv ==
  /\ DOMAIN v4 = LZ!Processes /\ \A p \in LZ!Processes : Stack(p, v4[p])
  /\ v5 \in Seq(LZ!Components)
  /\ DOMAIN v1 = LZ!Components /\ LZ!BuiltOnce
  /\ LZ!BuiltFromParts

LEMMA Pushed ==
  ASSUME NEW a, NEW b
  PROVE  <<a>> \o <<b>> = <<a, b>> /\ <<a>> \o <<>> = <<a>>
<1>1. <<a>> \o <<>> = <<a>>
  OBVIOUS
<1> DEFINE s == <<a>>
           t == <<b>>
           u == <<a, b>>
<1>2. s \in Seq({a, b}) /\ t \in Seq({a, b}) /\ u \in Seq({a, b})
  OBVIOUS
<1>3. Len(s) = 1 /\ Len(t) = 1 /\ Len(u) = 2 /\ s[1] = a /\ t[1] = b /\ u[1] = a /\ u[2] = b
  OBVIOUS
<1> HIDE DEF s, t, u
<1>4. s \o t \in Seq({a, b}) /\ Len(s \o t) = 2 /\ (s \o t)[1] = a /\ (s \o t)[2] = b
  BY <1>2, <1>3, ConcatProperties
<1>5. s \o t = u
  BY <1>2, <1>3, <1>4, SeqEqual
<1> QED
  BY <1>1, <1>5 DEF s, t, u

LEMMA PartsAreComponents ==
  ASSUME NEW x \in LZ!Components
  PROVE  LZ!PartsOf(x) \in Seq(LZ!Components)
<1>1. CASE x \in {"entity_processor", "profiler_processor", "suggestion_engine"}
  BY <1>1 DEF LZ!PartsOf, LZ!Components
<1>2. CASE x = "debug_command_router"
  BY <1>2 DEF LZ!PartsOf, LZ!Components, LZ!Processors
<1>3. CASE x = "workflow_automation"
  BY <1>3 DEF LZ!PartsOf, LZ!Components
<1>4. CASE x = "hot_reload_system"
  BY <1>4 DEF LZ!PartsOf, LZ!Components
<1>5. CASE x \notin {"entity_processor", "profiler_processor", "suggestion_engine",
                     "debug_command_router", "workflow_automation", "hot_reload_system"}
  <2>1. LZ!PartsOf(x) = <<>>
    BY <1>5 DEF LZ!PartsOf
  <2> QED
    BY <2>1
<1> QED
  BY <1>1, <1>2, <1>3, <1>4, <1>5

LEMMA LazyStart == ASSUME LZ!Init PROVE LazyInv
<1>1. v5 \in Seq(LZ!Components)
  <2> DEFINE a == LZ!If("entity-inspection", <<"entity_inspector", "entity_processor">>)
             b == LZ!If("performance-profiling", <<"system_profiler", "profiler_processor">>)
             c == LZ!If("session-management", <<"session_processor">>)
  <2>1. a \in Seq(LZ!Components)
    <3>1. <<"entity_inspector", "entity_processor">> \in Seq(LZ!Components)
      BY DEF LZ!Components, LZ!Processors
    <3> QED
      BY <3>1 DEF LZ!If
  <2>2. b \in Seq(LZ!Components)
    <3>1. <<"system_profiler", "profiler_processor">> \in Seq(LZ!Components)
      BY DEF LZ!Components, LZ!Processors
    <3> QED
      BY <3>1 DEF LZ!If
  <2>3. c \in Seq(LZ!Components)
    <3>1. <<"session_processor">> \in Seq(LZ!Components)
      BY DEF LZ!Components, LZ!Processors
    <3> QED
      BY <3>1 DEF LZ!If
  <2>4. v5 = (a \o b) \o c
    BY DEF LZ!Init, LZ!preload_critical_components
  <2> HIDE DEF a, b, c
  <2> QED
    BY <2>1, <2>2, <2>3, <2>4, ConcatProperties
<1> QED
  BY <1>1 DEF LZ!Init, LazyInv, Stack, LZ!BuiltOnce, LZ!BuiltFromParts

(* One stack changes and nothing is built.                                     *)
LEMMA LazyKept ==
  ASSUME LazyInv, NEW p \in LZ!Processes, NEW s, Stack(p, s), v4' = [v4 EXCEPT ![p] = s],
         v1' = v1, v2' = v2, v3' = v3, v5' \in Seq(LZ!Components)
  PROVE  LazyInv'
<1>1. DOMAIN v4' = LZ!Processes /\ \A q \in LZ!Processes : Stack(q, v4'[q])
  BY DEF LazyInv
<1>2. \A q, t : Stack(q, t) <=> Stack(q, t)'
  BY DEF Stack, Builds
<1>3. LZ!BuiltOnce' /\ LZ!BuiltFromParts' /\ DOMAIN v1' = LZ!Components
  BY DEF LazyInv, LZ!BuiltOnce, LZ!BuiltFromParts
<1>4. \A q \in LZ!Processes : Stack(q, v4[q])'
  BY <1>1, <1>2
<1> QED
  BY <1>1, <1>3, <1>4 DEF LazyInv

LEMMA LazyCalls ==
  ASSUME LazyInv, NEW p \in LZ!Processes, NEW x \in LZ!Components, v4[p] = <<>>,
         v4' = [v4 EXCEPT ![p] = <<LZ!Getter(x)>>],
         v1' = v1, v2' = v2, v3' = v3, v5' \in Seq(LZ!Components)
  PROVE  LazyInv'
<1>1. LZ!Getter(x) \in Frame /\ LZ!Getter(x).at # "build" /\ LZ!Getter(x).got = 0
  BY DEF Frame, LZ!Getter
<1>2. Stack(p, <<LZ!Getter(x)>>)
  BY <1>1 DEF Stack
<1> QED
  BY <1>2, LazyKept

LEMMA LazyLooks ==
  ASSUME LazyInv, NEW p \in LZ!Processes, LZ!Look(p)
  PROVE  LazyInv'
<1>1. v4[p] # <<>> /\ Head(v4[p]).at = "look" /\ Stack(p, v4[p]) /\ v1' = v1 /\ v2' = v2
      /\ v3' = v3 /\ v5' = v5
  BY DEF LazyInv, LZ!Look, LZ!In
<1>2. CASE \E f \in Frame : v4[p] = <<f>>
  <2>1. PICK f \in Frame : v4[p] = <<f>>
    BY <1>2
  <2>2. Head(v4[p]) = f /\ Tail(v4[p]) = <<>>
    BY <2>1
  <2> DEFINE g == [f EXCEPT !.at = "lock"]
             s == IF f.of \in v2 THEN <<>> ELSE <<g>> \o <<>>
  <2>3. v4' = [v4 EXCEPT ![p] = s]
    BY <2>2 DEF LZ!Look, LZ!Return, LZ!SetTop, LZ!Top
  <2>4. g \in Frame /\ g.at = "lock" /\ g.got = f.got /\ <<g>> \o <<>> = <<g>>
    BY DEF Frame
  <2>5. f.got = 0
    <3>1. f.at # "build" /\ \A a, b : v4[p] # <<a, b>>
      BY <1>1, <2>1, <2>2
    <3> QED
      BY <1>1, <2>1, <3>1 DEF Stack
  <2> HIDE DEF g
  <2>6. Stack(p, s)
    BY <2>4, <2>5 DEF Stack
  <2> QED
    BY <1>1, <2>3, <2>6, LazyKept DEF LazyInv
<1>3. CASE \E f, g \in Frame : v4[p] = <<f, g>>
  <2>1. PICK f \in Frame, g \in Frame :
          /\ v4[p] = <<f, g>> /\ f.at # "build" /\ f.got = 0 /\ g.at = "build" /\ Builds(p, g)
          /\ g.got < Len(Wanted(g)) /\ f.of = Wanted(g)[g.got + 1]
    <3>1. v4[p] # <<>> /\ \A f : v4[p] # <<f>>
      BY <1>3
    <3> QED
      BY <1>1, <3>1 DEF Stack
  <2>2. Head(v4[p]) = f /\ Tail(v4[p]) = <<g>> /\ Head(<<g>>) = g /\ Tail(<<g>>) = <<>>
    BY <2>1
  <2> DEFINE h == [f EXCEPT !.at = "lock"]
             k == [g EXCEPT !.got = @ + 1]
  <2>3. h \in Frame /\ h.at = "lock" /\ h.of = f.of /\ h.got = f.got
    BY DEF Frame
  <2>4. k \in Frame /\ k.at = "build" /\ k.of = g.of /\ k.got = g.got + 1
    BY <2>1 DEF Frame
  <2>5. CASE f.of \in v2
    <3>1. v4' = [v4 EXCEPT ![p] = <<k>>]
      <4>1. <<k>> \o <<>> = <<k>> /\ <<g>> # <<>>
        BY Pushed
      <4>2. v4' = [v4 EXCEPT ![p] = IF <<g>> = <<>> THEN <<>> ELSE <<k>> \o <<>>]
        BY <2>2, <2>5 DEF LZ!Look, LZ!Return, LZ!Top
      <4> HIDE DEF k
      <4> QED
        BY <4>1, <4>2
    <3>2. Builds(p, k)
      <4>1. g.got \in Nat /\ Len(Wanted(g)) \in Nat /\ Wanted(k) = Wanted(g)
        BY <2>4, PartsAreComponents, LenProperties DEF Frame, Wanted
      <4> HIDE DEF k
      <4>2. \A i \in 1..k.got : Wanted(k)[i] \in v2
        BY <2>1, <2>4, <2>5, <4>1 DEF Builds
      <4>3. k.got <= Len(Wanted(k))
        BY <2>1, <2>4, <4>1
      <4> QED
        BY <2>1, <2>4, <4>2, <4>3 DEF Builds
    <3> HIDE DEF k
    <3>3. Stack(p, <<k>>)
      BY <2>4, <3>2 DEF Stack
    <3> QED
      BY <1>1, <3>1, <3>3, LazyKept DEF LazyInv
  <2>6. CASE f.of \notin v2
    <3>1. v4' = [v4 EXCEPT ![p] = <<h>> \o <<g>>]
      BY <2>2, <2>6 DEF LZ!Look, LZ!SetTop, LZ!Top
    <3> HIDE DEF h
    <3>2. <<h>> \o <<g>> = <<h, g>>
      BY Pushed
    <3>3. Stack(p, <<h, g>>)
      BY <2>1, <2>3 DEF Stack
    <3> QED
      BY <1>1, <3>1, <3>2, <3>3, LazyKept DEF LazyInv
  <2> QED
    BY <2>5, <2>6
<1> QED
  BY <1>1, <1>2, <1>3 DEF Stack

(* While somebody holds the mutex, nobody else builds.                         *)
LEMMA LazyOthers ==
  ASSUME LazyInv, NEW q \in LZ!Processes, v3 # q
  PROVE  v4[q] = <<>> \/ \E f \in Frame : v4[q] = <<f>> /\ f.at # "build" /\ f.got = 0
BY DEF LazyInv, Stack, Builds

LEMMA LazyLocks ==
  ASSUME LazyInv, NEW p \in LZ!Processes, LZ!Lock(p)
  PROVE  LazyInv'
<1>1. v3 = LZ!Nobody /\ v4[p] # <<>> /\ v1' = v1 /\ v2' = v2 /\ v5' = v5
  BY DEF LZ!Lock, LZ!In
<1>2. LZ!Nobody \notin LZ!Processes
  BY ProvedPartsAssumption
     DEF LZ!CallersAssumption, LZ!Processes, LZ!Nobody, LZ!Preload
<1>3. PICK f \in Frame : v4[p] = <<f>> /\ f.at # "build" /\ f.got = 0
  BY <1>1, <1>2, LazyOthers
<1>4. Head(v4[p]) = f /\ Tail(v4[p]) = <<>>
  BY <1>3
<1>5. CASE f.of \in v2
  <2>1. v4' = [v4 EXCEPT ![p] = <<>>] /\ v3' = v3
    BY <1>4, <1>5 DEF LZ!Lock, LZ!Return, LZ!Top
  <2> QED
    BY <1>1, <2>1, LazyKept DEF LazyInv, Stack
<1>6. CASE f.of \notin v2
  <2> DEFINE g == [f EXCEPT !.at = "build"]
  <2>1. v4' = [v4 EXCEPT ![p] = <<g>> \o <<>>] /\ v3' = p
    BY <1>4, <1>6 DEF LZ!Lock, LZ!SetTop, LZ!Top
  <2>2. g \in Frame /\ g.of = f.of /\ g.got = 0 /\ g.at = "build" /\ <<g>> \o <<>> = <<g>>
    BY <1>3 DEF Frame
  <2> HIDE DEF g
  <2>3. Builds(p, g)'
    <3>1. Len(Wanted(g)) \in Nat
      BY <2>2, PartsAreComponents, LenProperties DEF Frame, Wanted
    <3> QED
      BY <1>1, <1>6, <2>1, <2>2, <3>1 DEF Builds, Wanted
  <2>4. ASSUME NEW q \in LZ!Processes PROVE Stack(q, v4[q])'
    <3>1. CASE q = p
      BY <2>1, <2>2, <2>3, <3>1 DEF LazyInv, Stack
    <3>2. CASE q # p
      BY <1>1, <1>2, <2>1, <3>2, LazyOthers DEF LazyInv, Stack
    <3> QED
      BY <3>1, <3>2
  <2> QED
    BY <1>1, <2>1, <2>4 DEF LazyInv, LZ!BuiltOnce, LZ!BuiltFromParts
<1> QED
  BY <1>5, <1>6

(* A getter at the top of a stack that builds is the only one in it.           *)
LEMMA LazyBuilder ==
  ASSUME LazyInv, NEW p \in LZ!Processes, LZ!In(p, "build")
  PROVE  \E f \in Frame : v4[p] = <<f>> /\ f.at = "build" /\ Builds(p, f) /\ Head(v4[p]) = f
                          /\ Tail(v4[p]) = <<>>
<1>1. v4[p] # <<>> /\ Head(v4[p]).at = "build" /\ Stack(p, v4[p])
  BY DEF LazyInv, LZ!In
<1>2. ASSUME NEW f, NEW g, v4[p] = <<f, g>>, f.at # "build" PROVE FALSE
  BY <1>1, <1>2
<1>3. PICK f \in Frame : v4[p] = <<f>> /\ (IF f.at = "build" THEN Builds(p, f) ELSE f.got = 0)
  BY <1>1, <1>2 DEF Stack
<1> QED
  BY <1>1, <1>3

LEMMA LazyGetsPart ==
  ASSUME LazyInv, NEW p \in LZ!Processes, LZ!GetPart(p)
  PROVE  LazyInv'
<1>1. PICK g \in Frame : v4[p] = <<g>> /\ g.at = "build" /\ Builds(p, g) /\ Head(v4[p]) = g
  BY LazyBuilder DEF LZ!GetPart
<1> DEFINE x == Wanted(g)[g.got + 1]
           f == LZ!Getter(x)
<1>2. v4' = [v4 EXCEPT ![p] = <<f>> \o <<g>>] /\ g.got < Len(Wanted(g))
      /\ v1' = v1 /\ v2' = v2 /\ v3' = v3 /\ v5' = v5
  BY <1>1 DEF LZ!GetPart, LZ!Top, Wanted
<1>3. x \in LZ!Components
  <2>1. Wanted(g) \in Seq(LZ!Components) /\ g.got \in Nat
    BY PartsAreComponents DEF Frame, Wanted
  <2> QED
    BY <1>2, <2>1, LenProperties
<1>4. f \in Frame /\ f.of = x /\ f.at # "build" /\ f.got = 0
  BY <1>3 DEF Frame, LZ!Getter
<1> HIDE DEF f
<1>5. <<f>> \o <<g>> = <<f, g>>
  BY Pushed
<1>6. Stack(p, <<f, g>>)
  BY <1>1, <1>2, <1>4 DEF Stack
<1> QED
  BY <1>2, <1>5, <1>6, LazyKept DEF LazyInv

LEMMA LazyFills ==
  ASSUME LazyInv, NEW p \in LZ!Processes, LZ!Fill(p)
  PROVE  LazyInv'
<1>1. PICK f \in Frame : v4[p] = <<f>> /\ f.at = "build" /\ Builds(p, f) /\ Head(v4[p]) = f
                         /\ Tail(v4[p]) = <<>>
  BY LazyBuilder DEF LZ!Fill
<1>2. /\ f.got = Len(Wanted(f)) /\ v2' = v2 \cup {f.of} /\ v1' = [v1 EXCEPT ![f.of] = @ + 1]
      /\ v3' = LZ!Nobody /\ v4' = [v4 EXCEPT ![p] = <<>>] /\ v5' = v5
  BY <1>1 DEF LZ!Fill, LZ!Top, LZ!Return, Wanted
<1>3. ASSUME NEW q \in LZ!Processes PROVE Stack(q, v4[q])'
  <2>1. CASE q = p
    BY <1>2, <2>1 DEF LazyInv, Stack
  <2>2. CASE q # p
    BY <1>1, <1>2, <2>2, LazyOthers DEF LazyInv, Stack, Builds
  <2> QED
    BY <2>1, <2>2
<1>4. f.of \in LZ!Components /\ f.of \notin v2 /\ \A k \in 1..f.got : Wanted(f)[k] \in v2
  BY <1>1 DEF Frame, Builds
<1>5. LZ!BuiltOnce' /\ DOMAIN v1' = LZ!Components
  BY <1>2, <1>4 DEF LazyInv, LZ!BuiltOnce
<1>6. LZ!BuiltFromParts'
  <2>1. DOMAIN Wanted(f) = 1..Len(Wanted(f))
    BY <1>4, PartsAreComponents, LenProperties DEF Wanted
  <2> QED
    BY <1>2, <1>4, <2>1 DEF LazyInv, LZ!BuiltFromParts, Wanted
<1> QED
  BY <1>2, <1>3, <1>5, <1>6 DEF LazyInv

LEMMA LazyStep ==
  ASSUME LazyInv, [LZ!Next]_(LZ!vars)
  PROVE  LazyInv'
<1>1. ASSUME NEW c \in Callers, NEW x \in Requested, LZ!Get(c, x) PROVE LazyInv'
  BY <1>1, LazyCalls, ProvedPartsAssumption
     DEF LZ!Get, LZ!Processes, LZ!RequestedAssumption, LazyInv
<1>2. CASE LZ!PreloadNext
  <2>1. Head(v5) \in LZ!Components /\ Tail(v5) \in Seq(LZ!Components)
    BY <1>2, HeadTailProperties DEF LZ!PreloadNext, LazyInv
  <2> QED
    BY <1>2, <2>1, LazyCalls DEF LZ!PreloadNext, LZ!Processes, LazyInv
<1>3. CASE UNCHANGED LZ!vars
  BY <1>3 DEF LZ!vars, LazyInv, Stack, Builds, LZ!BuiltOnce, LZ!BuiltFromParts
<1> QED
  BY <1>1, <1>2, <1>3, LazyLooks, LazyLocks, LazyGetsPart, LazyFills DEF LZ!Next, LZ!Step

LEMMA LazyKeepsPromises == ASSUME LazyInv PROVE LZ!BuiltOnce /\ LZ!BuiltFromParts
  BY DEF LazyInv

-----------------------------------------------------------------------------
(* Command cache.  What is kept of the order of uses is the set of its keys    *)
(* and the pairs of which one stands before the other.                         *)
KeysIn(s) == {s[i] : i \in 1..Len(s)}

LEMMA BeforeMeans ==
  ASSUME NEW S, NEW s \in Seq(S), NEW a, NEW b
  PROVE  <<a, b>> \in CC!Before(s)
           <=> \E i, j \in 1..Len(s) : i < j /\ s[i] = a /\ s[j] = b
<1>1. Len(s) \in Nat /\ DOMAIN s = 1..Len(s)
  BY LenProperties
<1>2. ASSUME NEW j \in 1..Len(s), NEW i \in 1..(j - 1), <<a, b>> = <<s[i], s[j]>>
      PROVE  \E x, y \in 1..Len(s) : x < y /\ s[x] = a /\ s[y] = b
  <2>1. i \in 1..Len(s) /\ i < j /\ s[i] = a /\ s[j] = b
    BY <1>1, <1>2
  <2> QED
    BY <2>1
<1>3. ASSUME NEW i \in 1..Len(s), NEW j \in 1..Len(s), i < j, s[i] = a, s[j] = b
      PROVE  i \in 1..(j - 1) /\ <<a, b>> = <<s[i], s[j]>>
  BY <1>1, <1>3
<1>4. <<a, b>> \in CC!Before(s)
        <=> \E j \in 1..Len(s) : \E i \in 1..(j - 1) : <<a, b>> = <<s[i], s[j]>>
  BY <1>1 DEF CC!Before
<1> QED
  BY <1>2, <1>3, <1>4

LEMMA BeforePairs ==
  ASSUME NEW s, NEW p \in CC!Before(s)
  PROVE  p = <<p[1], p[2]>>
<1>1. \E j \in DOMAIN s : \E i \in 1..(j - 1) : p = <<s[i], s[j]>>
  BY DEF CC!Before
<1> QED
  BY <1>1

LEMMA Appended ==
  ASSUME NEW S, NEW s \in Seq(S), NEW x \in S
  PROVE  /\ Append(s, x) \in Seq(S)
         /\ KeysIn(Append(s, x)) = KeysIn(s) \cup {x}
         /\ \A a, b : <<a, b>> \in CC!Before(Append(s, x))
                        <=> <<a, b>> \in CC!Before(s) \/ (a \in KeysIn(s) /\ b = x)
<1> DEFINE t == Append(s, x)
           n == Len(s)
<1>1. n \in Nat /\ t \in Seq(S) /\ Len(t) = n + 1 /\ t[n + 1] = x /\ \A i \in 1..n : t[i] = s[i]
  BY AppendProperties, LenProperties
<1> HIDE DEF t, n
<1>2. KeysIn(t) = KeysIn(s) \cup {x}
  <2>1. \A i \in 1..(n + 1) : i \in 1..n \/ i = n + 1
    BY <1>1
  <2>2. \A i \in 1..n : i \in 1..(n + 1)
    BY <1>1
  <2>3. n + 1 \in 1..(n + 1)
    BY <1>1
  <2> QED
    BY <1>1, <2>1, <2>2, <2>3 DEF KeysIn, n
<1>3. ASSUME NEW a, NEW b
      PROVE  <<a, b>> \in CC!Before(t) <=> <<a, b>> \in CC!Before(s) \/ (a \in KeysIn(s) /\ b = x)
  <2>1. ASSUME <<a, b>> \in CC!Before(t)
        PROVE  <<a, b>> \in CC!Before(s) \/ (a \in KeysIn(s) /\ b = x)
    <3>1. PICK i \in 1..(n + 1), j \in 1..(n + 1) : i < j /\ t[i] = a /\ t[j] = b
      BY <1>1, <2>1, BeforeMeans
    <3>2. i \in 1..n /\ s[i] = a
      BY <1>1, <3>1
    <3>3. CASE j = n + 1
      BY <1>1, <3>1, <3>2, <3>3 DEF KeysIn, n
    <3>4. CASE j # n + 1
      <4>1. j \in 1..n /\ s[j] = b
        BY <1>1, <3>1, <3>4
      <4> QED
        BY <3>1, <3>2, <4>1, BeforeMeans DEF n
    <3> QED
      BY <3>3, <3>4
  <2>2. ASSUME <<a, b>> \in CC!Before(s) PROVE <<a, b>> \in CC!Before(t)
    <3>1. PICK i \in 1..n, j \in 1..n : i < j /\ s[i] = a /\ s[j] = b
      BY <2>2, BeforeMeans DEF n
    <3>2. i \in 1..(n + 1) /\ j \in 1..(n + 1) /\ t[i] = a /\ t[j] = b
      BY <1>1, <3>1
    <3> QED
      BY <1>1, <3>1, <3>2, BeforeMeans
  <2>3. ASSUME a \in KeysIn(s), b = x PROVE <<a, b>> \in CC!Before(t)
    <3>1. PICK i \in 1..n : s[i] = a
      BY <2>3 DEF KeysIn, n
    <3>2. i \in 1..(n + 1) /\ n + 1 \in 1..(n + 1) /\ i < n + 1 /\ t[i] = a /\ t[n + 1] = b
      BY <1>1, <2>3, <3>1
    <3> QED
      BY <1>1, <3>2, BeforeMeans
  <2> QED
    BY <2>1, <2>2, <2>3
<1> QED
  BY <1>1, <1>2, <1>3 DEF t

LEMMA MovedToFront ==
  ASSUME NEW S, NEW s \in Seq(S), NEW x \in S
  PROVE  /\ <<x>> \o s \in Seq(S)
         /\ KeysIn(<<x>> \o s) = {x} \cup KeysIn(s)
         /\ \A a, b : <<a, b>> \in CC!Before(<<x>> \o s)
                        <=> <<a, b>> \in CC!Before(s) \/ (a = x /\ b \in KeysIn(s))
<1> DEFINE u == <<x>>
           t == u \o s
           n == Len(s)
<1>1. u \in Seq(S) /\ Len(u) = 1 /\ u[1] = x
  OBVIOUS
<1> HIDE DEF u
<1>2. n \in Nat /\ t \in Seq(S) /\ Len(t) = n + 1 /\ t[1] = x
  <2>1. n \in Nat
    BY LenProperties
  <2>2. t \in Seq(S) /\ Len(t) = Len(u) + Len(s)
    BY <1>1, ConcatProperties
  <2>3. \A k \in 1..(Len(u) + Len(s)) : t[k] = IF k <= Len(u) THEN u[k] ELSE s[k - Len(u)]
    BY <1>1, ConcatProperties
  <2>4. 1 \in 1..(Len(u) + Len(s))
    BY <1>1, <2>1
  <2> HIDE DEF t
  <2>5. t[1] = u[1]
    BY <1>1, <2>3, <2>4
  <2> QED
    BY <1>1, <2>1, <2>2, <2>5
<1>3. \A i \in 1..n : i + 1 \in 1..(n + 1) /\ t[i + 1] = s[i]
  <2> SUFFICES ASSUME NEW i \in 1..n PROVE i + 1 \in 1..(n + 1) /\ t[i + 1] = s[i]
    OBVIOUS
  <2>1. i + 1 \in 1..(n + 1) /\ ~(i + 1 <= 1) /\ (i + 1) - 1 = i
    BY <1>2
  <2>2. \A k \in 1..(Len(u) + Len(s)) : t[k] = IF k <= Len(u) THEN u[k] ELSE s[k - Len(u)]
    BY <1>1, ConcatProperties
  <2>3. i + 1 \in 1..(Len(u) + Len(s))
    BY <1>1, <1>2, <2>1
  <2> HIDE DEF t, n
  <2> QED
    BY <1>1, <2>1, <2>2, <2>3
<1>4. \A k \in 1..(n + 1) : k = 1 \/ (k - 1 \in 1..n /\ t[k] = s[k - 1])
  <2> SUFFICES ASSUME NEW k \in 1..(n + 1), k # 1 PROVE k - 1 \in 1..n /\ t[k] = s[k - 1]
    OBVIOUS
  <2>1. k - 1 \in 1..n /\ (k - 1) + 1 = k
    BY <1>2
  <2> QED
    BY <1>3, <2>1
<1> HIDE DEF t, n
<1>5. KeysIn(t) = {x} \cup KeysIn(s)
  <2>1. 1 \in 1..(n + 1)
    BY <1>2
  <2>2. KeysIn(t) = {t[i] : i \in 1..(n + 1)} /\ KeysIn(s) = {s[i] : i \in 1..n}
    BY <1>2 DEF KeysIn, n
  <2>3. ASSUME NEW k \in 1..(n + 1) PROVE t[k] \in {x} \cup KeysIn(s)
    <3>1. CASE k = 1
      BY <1>2, <3>1
    <3>2. CASE k # 1
      BY <1>4, <2>2, <3>2
    <3> QED
      BY <3>1, <3>2
  <2>4. ASSUME NEW i \in 1..n PROVE s[i] \in KeysIn(t)
    BY <1>3, <2>2
  <2>5. x \in KeysIn(t)
    BY <1>2, <2>1, <2>2
  <2> QED
    BY <2>2, <2>3, <2>4, <2>5
<1>6. ASSUME NEW a, NEW b
      PROVE  <<a, b>> \in CC!Before(t) <=> <<a, b>> \in CC!Before(s) \/ (a = x /\ b \in KeysIn(s))
  <2>1. ASSUME <<a, b>> \in CC!Before(t)
        PROVE  <<a, b>> \in CC!Before(s) \/ (a = x /\ b \in KeysIn(s))
    <3>1. PICK i \in 1..(n + 1), j \in 1..(n + 1) : i < j /\ t[i] = a /\ t[j] = b
      BY <1>2, <2>1, BeforeMeans
    <3>2. j - 1 \in 1..n /\ s[j - 1] = b
      <4>1. j # 1
        BY <1>2, <3>1
      <4> QED
        BY <1>4, <3>1, <4>1
    <3>3. CASE i = 1
      BY <1>2, <3>1, <3>2, <3>3 DEF KeysIn, n
    <3>4. CASE i # 1
      <4>1. i - 1 \in 1..n /\ s[i - 1] = a
        BY <1>4, <3>1, <3>4
      <4>2. i - 1 < j - 1
        BY <1>2, <3>1
      <4> QED
        BY <3>2, <4>1, <4>2, BeforeMeans DEF n
    <3> QED
      BY <3>3, <3>4
  <2>2. ASSUME <<a, b>> \in CC!Before(s) PROVE <<a, b>> \in CC!Before(t)
    <3>1. PICK i \in 1..n, j \in 1..n : i < j /\ s[i] = a /\ s[j] = b
      BY <2>2, BeforeMeans DEF n
    <3>2. i + 1 \in 1..(n + 1) /\ j + 1 \in 1..(n + 1) /\ t[i + 1] = a /\ t[j + 1] = b
      BY <1>3, <3>1
    <3>3. i + 1 < j + 1
      BY <1>2, <3>1
    <3> QED
      BY <1>2, <3>2, <3>3, BeforeMeans
  <2>3. ASSUME a = x, b \in KeysIn(s) PROVE <<a, b>> \in CC!Before(t)
    <3>1. PICK j \in 1..n : s[j] = b
      BY <2>3 DEF KeysIn, n
    <3>2. j + 1 \in 1..(n + 1) /\ t[j + 1] = b
      BY <1>3, <3>1
    <3>3. 1 \in 1..(n + 1) /\ 1 < j + 1
      BY <1>2, <3>1
    <3> QED
      BY <1>2, <2>3, <3>2, <3>3, BeforeMeans
  <2> QED
    BY <2>1, <2>2, <2>3
<1> QED
  BY <1>2, <1>5, <1>6 DEF t, u

LEMMA LeastNatural ==
  ASSUME NEW T \in SUBSET Nat, T # {}
  PROVE  \E m \in T : \A k \in Nat : k < m => k \notin T
<1>1. PICK m \in T : \A k \in T : <<k, m>> \notin OpToRel(<, Nat)
  BY NatLessThanWellFounded, WFMin, Zenon
<1> QED
  BY <1>1 DEF OpToRel

(* The recursion that takes the keys out goes through.                         *)
LEMMA WithoutRecurs ==
  ASSUME NEW S, NEW s \in Seq(S), NEW ks
  PROVE  \E kept : /\ kept = [n \in 0..Len(s) |->
                              IF n = 0 THEN <<>>
                              ELSE IF s[n] \in ks THEN kept[n - 1] ELSE Append(kept[n - 1], s[n])]
                   /\ CC!Without(s, ks) = kept[Len(s)]
<1> DEFINE N == Len(s)
           Next(g, n) == IF n = 0 THEN <<>>
                         ELSE IF s[n] \in ks THEN g[n - 1] ELSE Append(g[n - 1], s[n])
           Works(g, m) == g = [n \in 0..m |-> g[n]] /\ \A n \in 0..m : g[n] = Next(g, n)
           T == {m \in Nat : ~(\E g : Works(g, m))}
<1>1. N \in Nat
  BY LenProperties
<1>2. ASSUME T # {} PROVE FALSE
  <2>1. PICK m \in T : \A k \in Nat : k < m => k \notin T
    BY <1>2, LeastNatural
  <2>2. CASE m = 0
    <3> DEFINE g == [n \in 0..0 |-> <<>>]
    <3>1. Works(g, 0)
      OBVIOUS
    <3> QED
      BY <2>2, <3>1
  <2>3. CASE m # 0
    <3>1. m - 1 \in Nat /\ m - 1 < m /\ m \in Nat
      BY <2>3
    <3>2. PICK g : Works(g, m - 1)
      BY <2>1, <3>1
    <3> DEFINE h == [n \in 0..m |-> IF n = m THEN Next(g, m) ELSE g[n]]
    <3>3. h = [n \in 0..m |-> h[n]]
      OBVIOUS
    <3>4. ASSUME NEW n \in 0..m PROVE h[n] = Next(h, n)
      <4>1. CASE n = 0
        BY <2>3, <3>1, <3>2, <4>1
      <4>2. CASE n # 0
        <5>1. n - 1 \in 0..(m - 1) /\ n - 1 \in 0..m /\ n - 1 # m
          BY <3>1, <4>2
        <5>2. h[n - 1] = g[n - 1]
          BY <5>1
        <5>3. CASE n = m
          BY <4>2, <5>2, <5>3
        <5>4. CASE n # m
          <6>1. n \in 0..(m - 1) /\ h[n] = g[n]
            BY <3>1, <5>4
          <6> QED
            BY <3>2, <4>2, <5>2, <6>1
        <5> QED
          BY <5>3, <5>4
      <4> QED
        BY <4>1, <4>2
    <3> QED
      BY <2>1, <3>3, <3>4
  <2> QED
    BY <2>2, <2>3
<1>3. PICK g : Works(g, N)
  BY <1>1, <1>2
<1>4. g = [n \in 0..N |-> Next(g, n)]
  BY <1>3
<1> DEFINE f == CHOOSE kept : kept = [n \in 0..N |-> Next(kept, n)]
<1>5. f = [n \in 0..N |-> Next(f, n)]
  BY <1>4
<1>6. CC!Without(s, ks) = f[N]
  BY DEF CC!Without
<1> QED
  BY <1>5, <1>6

LEMMA WithoutLeaves ==
  ASSUME NEW S, NEW s \in Seq(S), NEW ks
  PROVE  /\ CC!Without(s, ks) \in Seq(S)
         /\ KeysIn(CC!Without(s, ks)) = KeysIn(s) \ ks
         /\ \A a, b : <<a, b>> \in CC!Before(CC!Without(s, ks))
                        <=> <<a, b>> \in CC!Before(s) /\ a \notin ks /\ b \notin ks
<1> DEFINE N == Len(s)
           First(n) == {s[i] : i \in 1..n}
           Earlier(a, b, n) == \E i, j \in 1..n : i < j /\ s[i] = a /\ s[j] = b
           Left(t, n) == /\ t \in Seq(S)
                         /\ KeysIn(t) = First(n) \ ks
                         /\ \A a, b : <<a, b>> \in CC!Before(t)
                                        <=> Earlier(a, b, n) /\ a \notin ks /\ b \notin ks
<1>1. PICK f : /\ f = [n \in 0..N |->
                          IF n = 0 THEN <<>>
                          ELSE IF s[n] \in ks THEN f[n - 1] ELSE Append(f[n - 1], s[n])]
               /\ CC!Without(s, ks) = f[N]
  BY WithoutRecurs
<1>2. N \in Nat /\ \A i \in 1..N : s[i] \in S
  BY LenProperties, ElementOfSeq
<1>3. \A n \in 0..N : f[n] = IF n = 0 THEN <<>>
                             ELSE IF s[n] \in ks THEN f[n - 1] ELSE Append(f[n - 1], s[n])
  BY <1>1
<1> HIDE DEF N
<1>4. Left(<<>>, 0)
  <2>1. <<>> \in Seq(S) /\ Len(<<>>) = 0 /\ 1..0 = {}
    OBVIOUS
  <2>2. KeysIn(<<>>) = First(0) \ ks
    BY <2>1 DEF KeysIn
  <2>3. \A a, b : <<a, b>> \notin CC!Before(<<>>) /\ ~Earlier(a, b, 0)
    BY <2>1, BeforeMeans
  <2> QED
    BY <2>1, <2>2, <2>3
<1>5. ASSUME NEW n \in 1..N, Left(f[n - 1], n - 1) PROVE Left(f[n], n)
  <2>1. n \in 0..N /\ n # 0 /\ n - 1 \in Nat /\ s[n] \in S
    BY <1>2
  <2>2. \A i \in 1..n : i \in 1..(n - 1) \/ i = n
    BY <1>2
  <2>3. \A i \in 1..(n - 1) : i \in 1..n /\ i < n
    BY <1>2
  <2>4. n \in 1..n
    BY <1>2
  <2>5. First(n) = First(n - 1) \cup {s[n]}
    BY <2>2, <2>3, <2>4
  <2>6. ASSUME NEW a, NEW b
        PROVE  Earlier(a, b, n) <=> Earlier(a, b, n - 1) \/ (a \in First(n - 1) /\ b = s[n])
    <3>1. ASSUME Earlier(a, b, n) PROVE Earlier(a, b, n - 1) \/ (a \in First(n - 1) /\ b = s[n])
      <4>1. PICK i \in 1..n, j \in 1..n : i < j /\ s[i] = a /\ s[j] = b
        BY <3>1
      <4>2. i \in 1..(n - 1)
        BY <1>2, <4>1
      <4> QED
        BY <2>2, <4>1, <4>2
    <3>2. ASSUME Earlier(a, b, n - 1) PROVE Earlier(a, b, n)
      BY <2>3, <3>2
    <3>3. ASSUME a \in First(n - 1), b = s[n] PROVE Earlier(a, b, n)
      BY <2>3, <2>4, <3>3
    <3> QED
      BY <3>1, <3>2, <3>3
  <2>7. CASE s[n] \in ks
    <3>1. f[n] = f[n - 1]
      BY <1>3, <2>1, <2>7
    <3>2. First(n) \ ks = First(n - 1) \ ks
      BY <2>5, <2>7
    <3> HIDE DEF First, Earlier
    <3>3. \A a, b : (Earlier(a, b, n) /\ a \notin ks /\ b \notin ks)
                      <=> (Earlier(a, b, n - 1) /\ a \notin ks /\ b \notin ks)
      BY <2>6, <2>7
    <3> QED
      BY <1>5, <3>1, <3>2, <3>3
  <2>8. CASE s[n] \notin ks
    <3> DEFINE t == f[n - 1]
               u == Append(t, s[n])
    <3>1. f[n] = u
      BY <1>3, <2>1, <2>8
    <3>2. t \in Seq(S) /\ KeysIn(t) = First(n - 1) \ ks
      BY <1>5
    <3>3. \A a, b : <<a, b>> \in CC!Before(t) <=> Earlier(a, b, n - 1) /\ a \notin ks /\ b \notin ks
      BY <1>5
    <3> HIDE DEF t
    <3>4. /\ u \in Seq(S) /\ KeysIn(u) = KeysIn(t) \cup {s[n]}
          /\ \A a, b : <<a, b>> \in CC!Before(u)
                          <=> <<a, b>> \in CC!Before(t) \/ (a \in KeysIn(t) /\ b = s[n])
      BY <2>1, <3>2, Appended
    <3> HIDE DEF u, First, Earlier
    <3>5. KeysIn(u) = First(n) \ ks
      BY <2>5, <2>8, <3>2, <3>4
    <3>6. ASSUME NEW a, NEW b
          PROVE  <<a, b>> \in CC!Before(u) <=> Earlier(a, b, n) /\ a \notin ks /\ b \notin ks
      <4>1. <<a, b>> \in CC!Before(u)
              <=> <<a, b>> \in CC!Before(t) \/ (a \in KeysIn(t) /\ b = s[n])
        BY <3>4
      <4>2. <<a, b>> \in CC!Before(t) <=> Earlier(a, b, n - 1) /\ a \notin ks /\ b \notin ks
        BY <3>3
      <4>3. a \in KeysIn(t) <=> a \in First(n - 1) /\ a \notin ks
        BY <3>2
      <4>4. Earlier(a, b, n) <=> Earlier(a, b, n - 1) \/ (a \in First(n - 1) /\ b = s[n])
        BY <2>6
      <4> QED
        BY <2>8, <4>1, <4>2, <4>3, <4>4
    <3> QED
      BY <3>1, <3>4, <3>5, <3>6
  <2> QED
    BY <2>7, <2>8
<1> HIDE DEF Left
<1> DEFINE T == {m \in 0..N : ~Left(f[m], m)}
<1>6. ASSUME T # {} PROVE FALSE
  <2>1. T \in SUBSET Nat
    OBVIOUS
  <2>2. PICK m \in T : \A k \in Nat : k < m => k \notin T
    BY <1>6, <2>1, LeastNatural
  <2>3. m # 0
    BY <1>2, <1>3, <1>4, <2>2
  <2>4. m \in 1..N /\ m - 1 \in Nat /\ m - 1 < m /\ m - 1 \in 0..N
    BY <1>2, <2>2, <2>3
  <2>5. Left(f[m - 1], m - 1)
    BY <2>2, <2>4
  <2> QED
    BY <1>5, <2>2, <2>4, <2>5
<1>7. Left(f[N], N)
  BY <1>2, <1>6
<1> USE DEF Left
<1>8. First(N) = KeysIn(s)
  BY DEF KeysIn, N
<1>9. \A a, b : <<a, b>> \in CC!Before(s) <=> Earlier(a, b, N)
  BY BeforeMeans DEF N
<1> HIDE DEF First, Earlier
<1>10. f[N] \in Seq(S) /\ KeysIn(f[N]) = KeysIn(s) \ ks
  BY <1>7, <1>8
<1>11. \A a, b : <<a, b>> \in CC!Before(f[N])
                   <=> <<a, b>> \in CC!Before(s) /\ a \notin ks /\ b \notin ks
  BY <1>7, <1>9
<1> QED
  BY <1>1, <1>10, <1>11

(* The key used goes to the front, the others keep their order.                *)
LEMMA TouchedMoves ==
  ASSUME NEW S, NEW s \in Seq(S), NEW k \in S
  PROVE  /\ CC!Touched(s, k) \in Seq(S)
         /\ KeysIn(CC!Touched(s, k)) = {k} \cup KeysIn(s)
         /\ \A a, b : <<a, b>> \in CC!Before(CC!Touched(s, k))
                        <=> \/ <<a, b>> \in CC!Before(s) /\ a # k /\ b # k
                            \/ a = k /\ b \in KeysIn(s) \ {k}
<1> DEFINE t == CC!Without(s, {k})
<1>1. /\ t \in Seq(S) /\ KeysIn(t) = KeysIn(s) \ {k}
      /\ \A a, b : <<a, b>> \in CC!Before(t) <=> <<a, b>> \in CC!Before(s) /\ a \notin {k} /\ b \notin {k}
  BY WithoutLeaves
<1> HIDE DEF t
<1>2. /\ <<k>> \o t \in Seq(S) /\ KeysIn(<<k>> \o t) = {k} \cup KeysIn(t)
      /\ \A a, b : <<a, b>> \in CC!Before(<<k>> \o t)
                      <=> <<a, b>> \in CC!Before(t) \/ (a = k /\ b \in KeysIn(t))
  BY <1>1, MovedToFront
<1> QED
  BY <1>1, <1>2 DEF CC!Touched, t

LEMMA KeysAreFinite ==
  ASSUME NEW S, NEW s \in Seq(S)
  PROVE  IsFiniteSet(KeysIn(s)) /\ Cardinality(KeysIn(s)) \in Nat /\ Cardinality(KeysIn(s)) <= Len(s)
<1> DEFINE I == 1..Len(s)
           f == [i \in I |-> s[i]]
<1>1. Len(s) \in Nat
  BY LenProperties
<1>2. IsFiniteSet(I) /\ Cardinality(I) = Len(s)
  BY <1>1, FS_Interval
<1>3. f \in Surjection(I, KeysIn(s))
  BY DEF Surjection, KeysIn
<1>4. IsFiniteSet(KeysIn(s)) /\ Cardinality(KeysIn(s)) <= Cardinality(I)
  BY <1>2, <1>3, FS_Surjection
<1>5. Cardinality(KeysIn(s)) \in Nat
  BY <1>4, FS_CardinalityType
<1> QED
  BY <1>2, <1>4, <1>5

LEMMA CacheCounts ==
  /\ \A S : CC!Cardinality(S) = Cardinality(S)
  /\ \A S : CC!Lru!Cardinality(S) = Cardinality(S)
BY DEF CC!Cardinality, CC!Lru!Cardinality, Cardinality, CC!IsFiniteSet, CC!Lru!IsFiniteSet, IsFiniteSet

Call(x) ==
  /\ x \in [at : {"idle", "run", "store"}, key : CC!Keys \cup {CC!NoKey}, size : Nat]
  /\ x.at # "idle" => x.key \in CC!Keys

(* Every cached key is in the order once, and the keys there that are not      *)
(* cached are those that removals have left.                                   *)
OrderKept ==
  /\ v2 \in Seq(CC!Keys) /\ (\A k : <<k, k>> \notin CC!Before(v2))
  /\ CC!Cached \subseteq KeysIn(v2)
  /\ v5 \in Nat /\ Cardinality(KeysIn(v2) \ CC!Cached) <= v5

CacheInv ==
  /\ OrderKept
  /\ CC!GrowthBounded
  /\ DOMAIN v6 = Callers /\ \A c \in Callers : Call(v6[c])

LEMMA CacheStart == ASSUME CC!Init PROVE CacheInv
<1>1. v2 = <<>> /\ CC!Cached = {} /\ v5 = 0 /\ v6 = [c \in Callers |-> CC!Idle]
  BY DEF CC!Init, CC!Cached
<1>2. v2 \in Seq(CC!Keys) /\ KeysIn(v2) = {}
  BY <1>1 DEF KeysIn
<1>3. \A k : <<k, k>> \notin CC!Before(v2)
  <2>1. Len(v2) = 0 /\ 1..0 = {}
    BY <1>1
  <2> QED
    BY <1>2, <2>1, BeforeMeans
<1>4. OrderKept
  BY <1>1, <1>2, <1>3, FS_EmptySet DEF OrderKept
<1>5. CC!GrowthBounded
  BY <1>1, FS_EmptySet, CacheCounts, ProvedPartsAssumption DEF CC!GrowthBounded, CC!SizesAssumption
<1>6. Call(CC!Idle)
  BY DEF Call, CC!Idle
<1> QED
  BY <1>1, <1>4, <1>5, <1>6 DEF CacheInv

LEMMA CachedAreFinite ==
  ASSUME OrderKept
  PROVE  /\ IsFiniteSet(CC!Cached) /\ Cardinality(CC!Cached) \in Nat
         /\ IsFiniteSet(KeysIn(v2) \ CC!Cached) /\ Cardinality(KeysIn(v2) \ CC!Cached) \in Nat
         /\ Cardinality(CC!Cached) <= Len(v2)
<1>1. IsFiniteSet(KeysIn(v2)) /\ Cardinality(KeysIn(v2)) \in Nat /\ Cardinality(KeysIn(v2)) <= Len(v2)
  BY KeysAreFinite DEF OrderKept
<1>2. IsFiniteSet(CC!Cached) /\ Cardinality(CC!Cached) <= Cardinality(KeysIn(v2))
  BY <1>1, FS_Subset DEF OrderKept
<1>3. IsFiniteSet(KeysIn(v2) \ CC!Cached)
  BY <1>1, FS_Difference
<1>4. Cardinality(CC!Cached) \in Nat /\ Cardinality(KeysIn(v2) \ CC!Cached) \in Nat
  BY <1>2, <1>3, FS_CardinalityType
<1>5. Len(v2) \in Nat
  BY LenProperties DEF OrderKept
<1> QED
  BY <1>1, <1>2, <1>3, <1>4, <1>5

(* A key is used and others may go: the order is kept, and so is what the      *)
(* abstract cache calls a use.                                                 *)
LEMMA KeyIsUsed ==
  ASSUME OrderKept, NEW k \in CC!Keys, NEW kept \in SUBSET CC!Cached,
         CC!Cached' = kept \cup {k}, v2' = CC!Touched(v2, k),
         v5' = v5 + Cardinality(CC!Cached \ kept)
  PROVE  OrderKept' /\ CC!Lru!Used(k, kept)
<1>1. /\ v2' \in Seq(CC!Keys) /\ KeysIn(v2') = {k} \cup KeysIn(v2)
      /\ \A a, b : <<a, b>> \in CC!Before(v2')
                     <=> \/ <<a, b>> \in CC!Before(v2) /\ a # k /\ b # k
                         \/ a = k /\ b \in KeysIn(v2) \ {k}
  BY TouchedMoves DEF OrderKept
<1>2. \A j : <<j, j>> \notin CC!Before(v2')
  BY <1>1 DEF OrderKept
<1>3. IsFiniteSet(CC!Cached \ kept) /\ Cardinality(CC!Cached \ kept) \in Nat
  BY CachedAreFinite, FS_Difference, FS_CardinalityType
<1>4. Cardinality((KeysIn(v2) \ CC!Cached) \cup (CC!Cached \ kept)) <= v5'
      /\ IsFiniteSet((KeysIn(v2) \ CC!Cached) \cup (CC!Cached \ kept))
  <2> DEFINE A == KeysIn(v2) \ CC!Cached
             B == CC!Cached \ kept
  <2>1. IsFiniteSet(A) /\ IsFiniteSet(B) /\ Cardinality(A) \in Nat /\ Cardinality(B) \in Nat
    BY <1>3, CachedAreFinite
  <2>2. Cardinality(A) <= v5 /\ v5 \in Nat /\ v5' = v5 + Cardinality(B)
    BY DEF OrderKept
  <2> HIDE DEF A, B
  <2>3. IsFiniteSet(A \cup B) /\ Cardinality(A \cup B) = Cardinality(A) + Cardinality(B) - Cardinality(A \cap B)
    BY <2>1, FS_Union
  <2>4. Cardinality(A \cap B) \in Nat
    BY <2>1, FS_Intersection, FS_CardinalityType
  <2>5. Cardinality(A \cup B) <= v5'
    BY <2>1, <2>2, <2>3, <2>4
  <2> QED
    BY <2>3, <2>5 DEF A, B
<1>5. KeysIn(v2') \ CC!Cached' \subseteq (KeysIn(v2) \ CC!Cached) \cup (CC!Cached \ kept)
  BY <1>1
<1>6. Cardinality(KeysIn(v2') \ CC!Cached') <= v5'
  <2> DEFINE A == KeysIn(v2') \ CC!Cached'
             B == (KeysIn(v2) \ CC!Cached) \cup (CC!Cached \ kept)
  <2>1. A \subseteq B /\ IsFiniteSet(B) /\ Cardinality(B) <= v5' /\ v5' \in Nat
    BY <1>3, <1>4, <1>5 DEF OrderKept
  <2> HIDE DEF A, B
  <2>2. Cardinality(A) <= Cardinality(B) /\ Cardinality(A) \in Nat /\ Cardinality(B) \in Nat
    BY <2>1, FS_Subset, FS_CardinalityType
  <2>3. Cardinality(A) <= v5'
    BY <2>1, <2>2
  <2> QED
    BY <2>3 DEF A
<1>7. v5' \in Nat /\ CC!Cached' \subseteq KeysIn(v2')
  BY <1>1, <1>3 DEF OrderKept
<1>8. OrderKept'
  BY <1>1, <1>2, <1>6, <1>7 DEF OrderKept, KeysIn
<1>9. CC!Newer' = {<<k, j>> : j \in kept \ {k}} \cup {p \in CC!Newer : {p[1], p[2]} \subseteq kept \ {k}}
  <2> DEFINE N == {<<k, j>> : j \in kept \ {k}} \cup {p \in CC!Newer : {p[1], p[2]} \subseteq kept \ {k}}
  <2>1. ASSUME NEW a, NEW b
        PROVE  <<a, b>> \in CC!Newer' <=> <<a, b>> \in N
    <3>1. <<a, b>> \in CC!Newer' <=> <<a, b>> \in CC!Before(v2') /\ a \in kept \cup {k} /\ b \in kept \cup {k}
      BY DEF CC!Newer
    <3>2. <<a, b>> \in N <=> \/ a = k /\ b \in kept \ {k}
                             \/ <<a, b>> \in CC!Before(v2) /\ a \in kept \ {k} /\ b \in kept \ {k}
      BY DEF CC!Newer
    <3> QED
      BY <1>1, <3>1, <3>2 DEF OrderKept
  <2>2. ASSUME NEW p \in CC!Newer' PROVE p = <<p[1], p[2]>>
    BY BeforePairs DEF CC!Newer
  <2>3. ASSUME NEW p \in N PROVE p = <<p[1], p[2]>>
    BY BeforePairs DEF CC!Newer
  <2> QED
    BY <2>1, <2>2, <2>3
<1> QED
  BY <1>8, <1>9 DEF CC!Lru!Used

LEMMA KeysLeave ==
  ASSUME OrderKept, NEW ks \in SUBSET CC!Cached, CC!Cached' = CC!Cached \ ks,
         v2' = CC!Without(v2, ks), v5' = v5
  PROVE  OrderKept' /\ CC!Lru!Remove(ks)
<1>1. /\ v2' \in Seq(CC!Keys) /\ KeysIn(v2') = KeysIn(v2) \ ks
      /\ \A a, b : <<a, b>> \in CC!Before(v2') <=> <<a, b>> \in CC!Before(v2) /\ a \notin ks /\ b \notin ks
  BY WithoutLeaves DEF OrderKept
<1>2. KeysIn(v2') \ CC!Cached' = KeysIn(v2) \ CC!Cached
  BY <1>1
<1>3. OrderKept'
  BY <1>1, <1>2 DEF OrderKept, KeysIn
<1>4. CC!Newer' = {p \in CC!Newer : {p[1], p[2]} \cap ks = {}}
  <2> DEFINE N == {p \in CC!Newer : {p[1], p[2]} \cap ks = {}}
  <2>1. ASSUME NEW a, NEW b PROVE <<a, b>> \in CC!Newer' <=> <<a, b>> \in N
    <3>1. <<a, b>> \in CC!Newer' <=> <<a, b>> \in CC!Before(v2') /\ a \in CC!Cached \ ks /\ b \in CC!Cached \ ks
      BY DEF CC!Newer
    <3>2. <<a, b>> \in N <=> <<a, b>> \in CC!Before(v2) /\ a \in CC!Cached /\ b \in CC!Cached /\ a \notin ks /\ b \notin ks
      BY DEF CC!Newer
    <3> QED
      BY <1>1, <3>1, <3>2
  <2>2. ASSUME NEW p \in CC!Newer' PROVE p = <<p[1], p[2]>>
    BY BeforePairs DEF CC!Newer
  <2>3. ASSUME NEW p \in N PROVE p = <<p[1], p[2]>>
    BY BeforePairs DEF CC!Newer
  <2> QED
    BY <2>1, <2>2, <2>3
<1> QED
  BY <1>3, <1>4 DEF CC!Lru!Remove

(* Keys each once in a sequence are as many as their places.                   *)
LEMMA KeysOfPlaces ==
  ASSUME NEW S, NEW s \in Seq(S), \A k : <<k, k>> \notin CC!Before(s),
         NEW m \in 0..Len(s)
  PROVE  /\ IsFiniteSet({s[i] : i \in (m + 1)..Len(s)})
         /\ Cardinality({s[i] : i \in (m + 1)..Len(s)}) = Len(s) - m
<1> DEFINE n == Len(s)
           I == (m + 1)..n
           K == {s[i] : i \in I}
           f == [i \in I |-> s[i]]
<1>1. n \in Nat /\ m \in Nat /\ m <= n
  BY LenProperties
<1>2. IsFiniteSet(I) /\ Cardinality(I) = n - m
  <2>1. m + 1 \in Int /\ n \in Int
    BY <1>1
  <2>2. IsFiniteSet(I) /\ Cardinality(I) = IF m + 1 > n THEN 0 ELSE n - (m + 1) + 1
    BY <2>1, FS_Interval
  <2> HIDE DEF I, n
  <2>3. (IF m + 1 > n THEN 0 ELSE n - (m + 1) + 1) = n - m
    BY <1>1
  <2> QED
    BY <2>2, <2>3
<1>3. ASSUME NEW i \in I, NEW j \in I, s[i] = s[j] PROVE i = j
  <2>1. i \in 1..n /\ j \in 1..n
    BY <1>1
  <2>2. ~(i < j) /\ ~(j < i)
    BY <1>3, <2>1, BeforeMeans
  <2> QED
    BY <2>1, <2>2
<1>4. f \in Surjection(I, K)
  BY DEF Surjection
<1>5. f \in Injection(I, K)
  BY <1>3, <1>4 DEF Surjection, Injection, IsInjective
<1>6. IsFiniteSet(K) /\ Cardinality(K) = Cardinality(I)
  BY <1>2, <1>4, <1>5, FS_Surjection
<1> QED
  BY <1>2, <1>6

Excess == CC!SatSub(CC!Cardinality(CC!Cached) + 1, MaxCached)

(* What is evicted was used before all that stays, and if that is less than    *)
(* what there is too much, the rest are keys that a removal left.              *)
LEMMA EvictedAreLast ==
  ASSUME OrderKept
  PROVE  /\ CC!evicted \subseteq CC!Cached
         /\ Cardinality(CC!Cached) < MaxCached => CC!evicted = {}
         /\ \A p \in CC!Newer : p[2] \in CC!Cached \ CC!evicted => p[1] \in CC!Cached \ CC!evicted
         /\ Cardinality(CC!Cached) >= MaxCached =>
              Cardinality(CC!Cached) + 1 <= MaxCached + Cardinality(CC!evicted) + v5
<1> DEFINE n == Len(v2)
           c == Cardinality(CC!Cached)
           x == (c + 1) - MaxCached
           m == n - x
           K == {v2[i] : i \in (m + 1)..n}
<1>1. n \in Nat /\ c \in Nat /\ c <= n /\ MaxCached \in Nat /\ MaxCached >= 1 /\ DOMAIN v2 = 1..n
  BY CachedAreFinite, LenProperties, ProvedPartsAssumption DEF OrderKept, CC!SizesAssumption
<1>2. CASE c < MaxCached
  <2>1. CC!evicted = {}
    BY <1>2, CacheCounts DEF CC!evicted
  <2>2. ASSUME NEW p \in CC!Newer PROVE p[1] \in CC!Cached
    BY DEF CC!Newer
  <2>3. ~(c >= MaxCached)
    BY <1>1, <1>2
  <2> QED
    BY <1>2, <2>1, <2>2, <2>3
<1>3. CASE ~(c < MaxCached)
  <2>1. x \in Nat /\ x >= 1 /\ m \in 0..n
    BY <1>1, <1>3
  <2>2. Excess = x
    <3>1. ~(c + 1 < MaxCached)
      BY <1>1, <1>3
    <3> QED
      BY <3>1, CacheCounts DEF Excess, CC!SatSub
  <2>3. CC!evicted = CC!Cached \cap {v2[i] : i \in {j \in DOMAIN v2 : j > n - Excess}}
    BY <1>3, CacheCounts DEF CC!evicted, Excess
  <2>4. {j \in DOMAIN v2 : j > n - Excess} = (m + 1)..n
    BY <1>1, <2>1, <2>2
  <2>5. CC!evicted = CC!Cached \cap K
    BY <2>3, <2>4
  <2>6. IsFiniteSet(K) /\ Cardinality(K) = n - m
    BY <2>1, KeysOfPlaces DEF OrderKept
  <2>7. K \subseteq KeysIn(v2)
    BY <1>1, <2>1 DEF KeysIn
  <2>8. n - m = x
    BY <1>1
  <2> HIDE DEF m, K, n, c, x
  <2>9. Cardinality(CC!evicted) \in Nat /\ IsFiniteSet(CC!evicted) /\ x <= Cardinality(CC!evicted) + v5
    <3> DEFINE A == CC!evicted
               B == K \ CC!Cached
               D == KeysIn(v2) \ CC!Cached
    <3>1. IsFiniteSet(D) /\ Cardinality(D) \in Nat /\ Cardinality(D) <= v5 /\ v5 \in Nat
      BY CachedAreFinite DEF OrderKept
    <3>2. IsFiniteSet(A) /\ IsFiniteSet(B) /\ K = A \cup B /\ A \cap B = {} /\ B \subseteq D
      BY <2>5, <2>6, <2>7, FS_Difference, FS_Intersection
    <3> HIDE DEF A, B, D
    <3>3. Cardinality(K) = Cardinality(A) + Cardinality(B) - Cardinality({})
      BY <3>2, FS_Union
    <3>4. Cardinality(B) <= Cardinality(D) /\ Cardinality(A) \in Nat /\ Cardinality(B) \in Nat
      BY <3>1, <3>2, FS_Subset, FS_CardinalityType
    <3>5. x = Cardinality(A) + Cardinality(B)
      BY <2>6, <2>8, <3>3, <3>4, FS_EmptySet
    <3> QED
      BY <3>1, <3>2, <3>4, <3>5 DEF A
  <2>10. c + 1 <= MaxCached + Cardinality(CC!evicted) + v5
    <3>1. v5 \in Nat
      BY DEF OrderKept
    <3> QED
      BY <1>1, <2>9, <3>1 DEF x
  <2>11. ASSUME NEW p \in CC!Newer, p[2] \in CC!Cached \ CC!evicted
         PROVE  p[1] \in CC!Cached \ CC!evicted
    <3>1. p[1] \in CC!Cached /\ p = <<p[1], p[2]>> /\ p \in CC!Before(v2)
      BY BeforePairs DEF CC!Newer
    <3>2. PICK i \in 1..n, j \in 1..n : i < j /\ v2[i] = p[1] /\ v2[j] = p[2]
      BY <3>1, BeforeMeans DEF OrderKept, n
    <3>3. j \notin (m + 1)..n
      BY <2>5, <2>11, <3>2 DEF K
    <3>4. ASSUME p[1] \in K PROVE FALSE
      <4>1. PICK q \in (m + 1)..n : v2[q] = p[1]
        BY <3>4 DEF K
      <4>2. q \in 1..n /\ q > m
        BY <1>1, <2>1, <4>1
      <4>3. ~(i < q) /\ ~(q < i)
        BY <3>2, <4>1, <4>2, BeforeMeans DEF OrderKept, n
      <4>4. i > m
        BY <3>2, <4>2, <4>3
      <4> QED
        BY <1>1, <2>1, <3>2, <3>3, <4>4
    <3> QED
      BY <2>5, <3>1, <3>4
  <2> QED
    BY <1>3, <2>5, <2>10, <2>11 DEF c
<1> QED
  BY <1>2, <1>3

LEMMA CachePuts ==
  ASSUME OrderKept, CC!GrowthBounded, NEW k \in CC!Keys, NEW size, CC!put(k, size)
  PROVE  OrderKept' /\ CC!GrowthBounded' /\ CC!LruSteps
<1>1. CASE size > MaxSize
  <2>1. v1' = v1 /\ v2' = v2 /\ v5' = v5
    BY <1>1 DEF CC!put, CC!store
  <2> QED
    BY <2>1 DEF OrderKept, KeysIn, CC!GrowthBounded, CC!LruSteps, CC!Cached, CC!Newer
<1>2. CASE ~(size > MaxSize)
  <2> DEFINE out == CC!evicted
             kept == CC!Cached \ out
             n == Cardinality(CC!Cached)
  <2>1. CC!Cached' = kept \cup {k} /\ v2' = CC!Touched(v2, k) /\ v5' = v5 + Cardinality(out)
    <3>1. v1' = [j \in kept \cup {k} |-> IF j = k THEN [size |-> size, expired |-> FALSE] ELSE v1[j]]
      BY <1>2 DEF CC!put
    <3>2. CC!Cached' = kept \cup {k}
      BY <3>1 DEF CC!Cached
    <3> QED
      BY <1>2, <3>2, CacheCounts DEF CC!put
  <2>2. /\ out \subseteq CC!Cached
        /\ n < MaxCached => out = {}
        /\ \A p \in CC!Newer : p[2] \in kept => p[1] \in kept
        /\ n >= MaxCached => n + 1 <= MaxCached + Cardinality(out) + v5
    BY EvictedAreLast
  <2>3. CC!Cached \ kept = out /\ kept \in SUBSET CC!Cached
    BY <2>2
  <2> HIDE DEF out, kept
  <2>4. OrderKept' /\ CC!Lru!Used(k, kept)
    BY <2>1, <2>3, KeyIsUsed
  <2>5. IsFiniteSet(CC!Cached) /\ n \in Nat /\ v5 \in Nat /\ MaxCached \in Nat
    BY CachedAreFinite, ProvedPartsAssumption DEF OrderKept, CC!SizesAssumption
  <2>6. kept # CC!Cached => CC!Lru!Cardinality(CC!Cached) >= MaxCached
    BY <2>2, <2>3, <2>5, CacheCounts
  <2>7. CC!Lru!Store(k)
    BY <2>2, <2>3, <2>4, <2>6 DEF CC!Lru!Store
  <2>8. CC!LruSteps
    BY <2>7 DEF CC!LruSteps, CC!Lru!Next
  <2>9. CC!GrowthBounded'
    <3> DEFINE e == Cardinality(out)
               h == Cardinality(kept)
    <3>1. e \in Nat /\ IsFiniteSet(out) /\ IsFiniteSet(kept) /\ h \in Nat /\ h = n - e
      <4>1. IsFiniteSet(out) /\ IsFiniteSet(kept)
        BY <2>2, <2>3, <2>5, FS_Subset
      <4>2. e \in Nat /\ h \in Nat
        BY <4>1, FS_CardinalityType
      <4>3. kept \cup out = CC!Cached /\ kept \cap out = {}
        BY <2>2 DEF kept
      <4>4. n = h + e - 0
        BY <4>1, <4>3, FS_Union, FS_EmptySet
      <4> QED
        BY <4>1, <4>2, <4>4, <2>5
    <3>2. Cardinality(CC!Cached') = IF k \in kept THEN h ELSE h + 1
      BY <2>1, <3>1, FS_AddElement
    <3>3. n < MaxCached => out = {}
      BY <2>2
    <3>4. out = {} => e = 0
      BY FS_EmptySet
    <3>5. n >= MaxCached => n + 1 <= MaxCached + e + v5
      BY <2>2
    <3> HIDE DEF e, h, n
    <3>6. v5' = v5 + e
      BY <2>1 DEF e
    <3>7. Cardinality(CC!Cached') <= MaxCached + v5'
      BY <2>5, <3>1, <3>2, <3>3, <3>4, <3>5, <3>6
    <3> QED
      BY <3>7, CacheCounts DEF CC!GrowthBounded
  <2> QED
    BY <2>4, <2>8, <2>9
<1> QED
  BY <1>1, <1>2

LEMMA CacheGets ==
  ASSUME OrderKept, CC!GrowthBounded, NEW k \in CC!Keys, CC!get(k)
  PROVE  OrderKept' /\ CC!GrowthBounded' /\ CC!LruSteps
<1>1. CASE k \in CC!Cached /\ v2' = CC!Touched(v2, k) /\ v1' = v1 /\ v5' = v5
  <2>1. CC!Cached' = CC!Cached \cup {k} /\ CC!Cached \ CC!Cached = {} /\ v5 \in Nat
    BY <1>1 DEF CC!Cached, OrderKept
  <2>2. v5' = v5 + Cardinality(CC!Cached \ CC!Cached)
    BY <1>1, <2>1, FS_EmptySet
  <2>3. OrderKept' /\ CC!Lru!Used(k, CC!Cached)
    BY <1>1, <2>1, <2>2, KeyIsUsed
  <2>4. CC!LruSteps
    BY <1>1, <2>3 DEF CC!LruSteps, CC!Lru!Next, CC!Lru!Hit
  <2>5. CC!GrowthBounded'
    BY <1>1 DEF CC!GrowthBounded, CC!Cached
  <2> QED
    BY <2>3, <2>4, <2>5
<1>2. CASE k \in CC!Cached /\ CC!Drop({k}) /\ v5' = v5 + 1 /\ v2' = v2
  <2>1. CC!Cached' = CC!Cached \ {k}
    BY <1>2 DEF CC!Drop, CC!Cached
  <2>2. /\ IsFiniteSet(CC!Cached) /\ Cardinality(CC!Cached) \in Nat
        /\ IsFiniteSet(KeysIn(v2) \ CC!Cached) /\ Cardinality(KeysIn(v2) \ CC!Cached) \in Nat
    BY CachedAreFinite
  <2>3. KeysIn(v2') \ CC!Cached' = (KeysIn(v2) \ CC!Cached) \cup {k}
    BY <1>2, <2>1 DEF OrderKept
  <2>4. Cardinality((KeysIn(v2) \ CC!Cached) \cup {k}) = Cardinality(KeysIn(v2) \ CC!Cached) + 1
    BY <1>2, <2>2, FS_AddElement
  <2>5. Cardinality(KeysIn(v2') \ CC!Cached') <= v5'
    <3> DEFINE d == Cardinality(KeysIn(v2) \ CC!Cached)
    <3>1. d \in Nat /\ v5 \in Nat /\ d <= v5 /\ Cardinality(KeysIn(v2') \ CC!Cached') = d + 1
      BY <2>2, <2>3, <2>4 DEF OrderKept
    <3> HIDE DEF d
    <3> QED
      BY <1>2, <3>1
  <2>6. OrderKept'
    BY <1>2, <2>1, <2>5 DEF OrderKept, KeysIn
  <2>7. Cardinality(CC!Cached') = Cardinality(CC!Cached) - 1
    BY <1>2, <2>1, <2>2, FS_RemoveElement
  <2>8. CC!GrowthBounded'
    <3>1. Cardinality(CC!Cached) <= MaxCached + v5 /\ MaxCached \in Nat /\ v5 \in Nat
      BY CacheCounts, ProvedPartsAssumption DEF CC!GrowthBounded, OrderKept, CC!SizesAssumption
    <3>2. Cardinality(CC!Cached') <= MaxCached + v5'
      BY <1>2, <2>2, <2>7, <3>1
    <3> QED
      BY <3>2, CacheCounts DEF CC!GrowthBounded
  <2>9. CC!Newer' = {p \in CC!Newer : {p[1], p[2]} \cap {k} = {}}
    BY <1>2, <2>1 DEF CC!Newer
  <2>10. CC!Lru!Remove({k})
    BY <2>1, <2>9 DEF CC!Lru!Remove
  <2>11. CC!LruSteps
    BY <2>10 DEF CC!LruSteps, CC!Lru!Next
  <2> QED
    BY <2>6, <2>8, <2>11
<1>3. CASE v1' = v1 /\ v2' = v2 /\ v5' = v5
  BY <1>3 DEF OrderKept, KeysIn, CC!GrowthBounded, CC!LruSteps, CC!Cached, CC!Newer
<1> QED
  BY <1>1, <1>2, <1>3 DEF CC!get, CC!store

LEMMA CachePurges ==
  ASSUME OrderKept, CC!GrowthBounded, NEW ks \in SUBSET CC!Cached, CC!Cached' = CC!Cached \ ks,
         v2' = CC!Without(v2, ks), v5' = v5
  PROVE  OrderKept' /\ CC!GrowthBounded' /\ CC!LruSteps
<1>1. OrderKept' /\ CC!Lru!Remove(ks)
  BY KeysLeave
<1>2. ks \in SUBSET CC!Keys
  <2>1. KeysIn(v2) \subseteq CC!Keys
    BY ElementOfSeq DEF OrderKept, KeysIn
  <2> QED
    BY <2>1 DEF OrderKept
<1>3. CC!LruSteps
  BY <1>1, <1>2 DEF CC!LruSteps, CC!Lru!Next
<1>4. CC!GrowthBounded'
  <2>1. IsFiniteSet(CC!Cached) /\ Cardinality(CC!Cached) \in Nat
    BY CachedAreFinite
  <2>2. Cardinality(CC!Cached') <= Cardinality(CC!Cached) /\ Cardinality(CC!Cached') \in Nat
    BY <2>1, FS_Subset, FS_CardinalityType
  <2>3. Cardinality(CC!Cached) <= MaxCached + v5 /\ MaxCached \in Nat /\ v5 \in Nat
    BY CacheCounts, ProvedPartsAssumption DEF CC!GrowthBounded, OrderKept, CC!SizesAssumption
  <2>4. Cardinality(CC!Cached') <= MaxCached + v5'
    BY <2>1, <2>2, <2>3
  <2> QED
    BY <2>4, CacheCounts DEF CC!GrowthBounded
<1> QED
  BY <1>1, <1>3, <1>4

(* The calls go on; the cache does what it is asked to.                        *)
LEMMA CacheKept ==
  ASSUME CacheInv, OrderKept', CC!GrowthBounded', NEW c \in Callers, NEW x, Call(x),
         v6' = [v6 EXCEPT ![c] = x]
  PROVE  CacheInv'
BY DEF CacheInv

LEMMA CacheStep ==
  ASSUME CacheInv, [CC!Next]_(CC!vars)
  PROVE  CacheInv' /\ CC!LruSteps
<1>1. ASSUME v1' = v1, v2' = v2, v5' = v5
      PROVE  OrderKept' /\ CC!GrowthBounded' /\ CC!LruSteps
  BY <1>1 DEF CacheInv, OrderKept, KeysIn, CC!GrowthBounded, CC!LruSteps, CC!Cached, CC!Newer
<1>2. Call(CC!Idle)
  BY DEF Call, CC!Idle
<1>3. ASSUME NEW c \in Callers, NEW k \in CC!Keys, CC!handle_tool_call(c, k)
      PROVE  CacheInv' /\ CC!LruSteps
  <2>1. OrderKept' /\ CC!GrowthBounded' /\ CC!LruSteps
    <3>1. CASE CC!is_tool_cacheable(k.tool)
      BY <1>3, <3>1, CacheGets DEF CC!handle_tool_call, CacheInv
    <3>2. CASE ~CC!is_tool_cacheable(k.tool)
      BY <1>1, <1>3, <3>2 DEF CC!handle_tool_call, CC!store
    <3> QED
      BY <3>1, <3>2
  <2>2. CASE v6' = v6
    BY <2>1, <2>2 DEF CacheInv
  <2>3. CASE v6' = [v6 EXCEPT ![c] = [at |-> "run", key |-> k, size |-> 0]]
    <3>1. Call([at |-> "run", key |-> k, size |-> 0])
      BY DEF Call
    <3> QED
      BY <2>1, <2>3, <3>1, CacheKept
  <2> QED
    BY <1>3, <2>2, <2>3 DEF CC!handle_tool_call
<1>4. ASSUME NEW c \in Callers, NEW size \in 1..(MaxSize + 1), CC!Run(c, size)
      PROVE  CacheInv' /\ CC!LruSteps
  <2> DEFINE x == IF CC!is_tool_cacheable(v6[c].key.tool)
                  THEN [at |-> "store", key |-> v6[c].key, size |-> size] ELSE CC!Idle
  <2>1. v6' = [v6 EXCEPT ![c] = x] /\ v1' = v1 /\ v2' = v2 /\ v5' = v5
    BY <1>4 DEF CC!Run, CC!store
  <2>2. v6[c].key \in CC!Keys /\ size \in Nat
    BY <1>4, ProvedPartsAssumption DEF CC!Run, CacheInv, Call, CC!SizesAssumption
  <2>3. Call(x)
    BY <1>2, <2>2 DEF Call
  <2> HIDE DEF x
  <2> QED
    BY <1>1, <2>1, <2>3, CacheKept
<1>5. ASSUME NEW c \in Callers, CC!RunFails(c) PROVE CacheInv' /\ CC!LruSteps
  BY <1>1, <1>2, <1>5, CacheKept DEF CC!RunFails, CC!store
<1>6. ASSUME NEW c \in Callers, CC!StoreResult(c) PROVE CacheInv' /\ CC!LruSteps
  <2>1. v6[c].key \in CC!Keys
    BY <1>6 DEF CC!StoreResult, CacheInv, Call
  <2>2. OrderKept' /\ CC!GrowthBounded' /\ CC!LruSteps
    BY <1>6, <2>1, CachePuts DEF CC!StoreResult, CacheInv
  <2> QED
    BY <1>2, <1>6, <2>2, CacheKept DEF CC!StoreResult
<1>7. ASSUME NEW k \in CC!Keys, CC!Expire(k) PROVE CacheInv' /\ CC!LruSteps
  <2>1. CC!Cached' = CC!Cached /\ v2' = v2 /\ v5' = v5 /\ v6' = v6
    BY <1>7 DEF CC!Expire, CC!Cached
  <2> QED
    BY <2>1 DEF CacheInv, OrderKept, KeysIn, CC!GrowthBounded, CC!LruSteps, CC!Newer
<1>8. ASSUME NEW ks \in SUBSET CC!Cached, CC!Purge(ks) PROVE CacheInv' /\ CC!LruSteps
  <2>1. CC!Cached' = CC!Cached \ ks /\ v2' = CC!Without(v2, ks) /\ v5' = v5 /\ v6' = v6
    BY <1>8 DEF CC!Purge, CC!Drop, CC!Cached
  <2> QED
    BY <2>1, CachePurges DEF CacheInv
<1>9. CASE CC!clear
  <2>1. CC!Cached' = {} /\ v2' = <<>> /\ v5' = v5 /\ v6' = v6
    BY <1>9 DEF CC!clear, CC!Cached
  <2>2. Len(v2') = 0 /\ 1..0 = {} /\ v2' \in Seq(CC!Keys)
    BY <2>1
  <2>3. KeysIn(v2') = {}
    BY <2>2 DEF KeysIn
  <2>4. \A a, b : <<a, b>> \notin CC!Before(v2')
    BY <2>2, BeforeMeans
  <2>5. Cardinality({}) = 0 /\ v5 \in Nat
    BY FS_EmptySet DEF CacheInv, OrderKept
  <2>6. OrderKept'
    <3>1. KeysIn(v2') \ CC!Cached' = {} /\ CC!Cached' \subseteq KeysIn(v2') /\ v5' \in Nat
      BY <2>1, <2>3, <2>5
    <3>2. Cardinality(KeysIn(v2') \ CC!Cached') <= v5'
      BY <2>5, <3>1
    <3> QED
      BY <2>2, <2>4, <3>1, <3>2 DEF OrderKept, KeysIn
  <2>7. CC!GrowthBounded'
    BY <2>1, <2>5, CacheCounts, ProvedPartsAssumption DEF CC!GrowthBounded, CC!SizesAssumption
  <2>8. CC!Newer' = {p \in CC!Newer : {p[1], p[2]} \cap CC!Cached = {}}
    BY <2>1 DEF CC!Newer
  <2>9. CC!Lru!Remove(CC!Cached)
    BY <2>1, <2>8 DEF CC!Lru!Remove
  <2>10. CC!Cached \in SUBSET CC!Keys
    <3>1. KeysIn(v2) \subseteq CC!Keys
      BY ElementOfSeq DEF CacheInv, OrderKept, KeysIn
    <3> QED
      BY <3>1 DEF CacheInv, OrderKept
  <2>11. CC!LruSteps
    BY <2>9, <2>10 DEF CC!LruSteps, CC!Lru!Next
  <2> QED
    BY <2>1, <2>6, <2>7, <2>11 DEF CacheInv
<1>10. CASE UNCHANGED CC!vars
  <2>1. v1' = v1 /\ v2' = v2 /\ v5' = v5 /\ v6' = v6
    BY <1>10 DEF CC!vars, CC!store
  <2> QED
    BY <1>1, <2>1 DEF CacheInv
<1> QED
  <2>1. ASSUME NEW tag, CC!invalidate_by_tag(tag) PROVE CacheInv' /\ CC!LruSteps
    BY <1>8, <2>1 DEF CC!invalidate_by_tag
  <2>2. CASE CC!cleanup
    BY <1>8, <2>2 DEF CC!cleanup
  <2> QED
    BY <1>3, <1>4, <1>5, <1>6, <1>7, <1>9, <1>10, <2>1, <2>2 DEF CC!Next

(* The abstract cache starts empty as well.                                    *)
LEMMA CacheStartsEmpty == ASSUME CC!Init PROVE CC!Lru!Init
<1>1. CC!Cached = {} /\ v2 = <<>>
  BY DEF CC!Init, CC!Cached
<1> QED
  BY <1>1 DEF CC!Lru!Init, CC!Newer

LEMMA OrderTracks == ASSUME OrderKept PROVE CC!OrderTracksCache
<1>1. v2 \in Seq(CC!Keys) /\ DOMAIN v2 = 1..Len(v2) /\ Len(v2) \in Nat
  BY LenProperties DEF OrderKept
<1>2. ASSUME NEW i \in 1..Len(v2), NEW j \in 1..Len(v2), i < j PROVE v2[i] # v2[j]
  <2>1. i \in 1..(j - 1)
    BY <1>1, <1>2
  <2>2. <<v2[i], v2[j]>> \in CC!Before(v2)
    BY <1>1, <2>1 DEF CC!Before
  <2> QED
    BY <2>2 DEF OrderKept
<1>3. CC!IsInjective(v2)
  <2> SUFFICES ASSUME NEW a \in 1..Len(v2), NEW b \in 1..Len(v2), v2[a] = v2[b] PROVE a = b
    BY <1>1 DEF CC!IsInjective
  <2>1. a < b \/ b < a \/ a = b
    BY <1>1
  <2> QED
    BY <1>2, <2>1
<1>4. \A k \in CC!Cached : \E i \in DOMAIN v2 : v2[i] = k
  BY <1>1 DEF OrderKept, KeysIn
<1> QED
  BY <1>3, <1>4 DEF CC!OrderTracksCache

-----------------------------------------------------------------------------
(* Queries.  What is filtered in batches was listed because it matches.        *)
LEMMA Multiples ==
  ASSUME NEW b \in Nat \ {0}, NEW i \in Int, NEW m \in Int, i * b < m * b
  PROVE  i < m
<1>1. ASSUME i >= m PROVE FALSE
  <2>1. PICK d \in Nat : i = m + d
    <3>1. i - m \in Nat /\ i = m + (i - m)
      BY <1>1
    <3> QED
      BY <3>1
  <2>2. i * b = m * b + d * b /\ d * b >= 0
    BY <2>1
  <2> QED
    BY <2>2
<1> QED
  BY <1>1

LEMMA InBatches ==
  ASSUME NEW b \in Nat \ {0}, NEW n \in Nat, NEW k \in 1..n
  PROVE  \E i \in 0..(((n + b - 1) \div b) - 1) :
           i * b + 1 <= k /\ k <= (IF (i + 1) * b < n THEN (i + 1) * b ELSE n)
<1> DEFINE i == (k - 1) \div b
           r == (k - 1) % b
           m == (n + b - 1) \div b
           t == (n + b - 1) % b
<1>1. i \in Nat /\ r \in Nat /\ r < b /\ k - 1 = i * b + r
  OBVIOUS
<1>2. m \in Nat /\ t \in Nat /\ t < b /\ n + b - 1 = m * b + t
  OBVIOUS
<1> HIDE DEF i, r, m, t
<1>3. i * b < m * b
  BY <1>1, <1>2
<1>4. i < m
  BY <1>1, <1>2, <1>3, Multiples
<1>5. i * b + 1 <= k /\ k <= i * b + b /\ (i + 1) * b = i * b + b
  BY <1>1
<1>6. i \in 0..(m - 1)
  BY <1>1, <1>2, <1>4
<1> QED
  BY <1>5, <1>6 DEF m

(* Nothing of a sequence is in none of its batches.                            *)
LEMMA BatchesCover ==
  ASSUME NEW S, NEW s \in Seq(S)
  PROVE  UNION {QE!Range(b) : b \in QE!Batches(s)} = {s[k] : k \in 1..Len(s)}
<1> DEFINE First(i) == i * EntityBatch + 1
           Final(i) == IF (i + 1) * EntityBatch < Len(s) THEN (i + 1) * EntityBatch ELSE Len(s)
           Indices == 0..(((Len(s) + EntityBatch - 1) \div EntityBatch) - 1)
           Chunk(i) == SubSeq(s, First(i), Final(i))
<1>1. Len(s) \in Nat /\ EntityBatch \in Nat \ {0} /\ DOMAIN s = 1..Len(s)
  BY LenProperties, ProvedPartsAssumption DEF QE!ExecutorAssumption
<1>2. QE!Batches(s) = {Chunk(i) : i \in Indices}
  BY DEF QE!Batches
<1>3. ASSUME NEW i \in Indices
      PROVE  /\ First(i) \in Int /\ First(i) >= 1 /\ Final(i) \in Int /\ Final(i) <= Len(s)
             /\ Chunk(i) \in Seq(S)
             /\ Len(Chunk(i)) = IF First(i) <= Final(i) THEN Final(i) - First(i) + 1 ELSE 0
             /\ \A j \in 1..(Final(i) - First(i) + 1) : Chunk(i)[j] = s[First(i) + j - 1]
  <2>1. i \in Nat /\ i * EntityBatch \in Nat /\ (i + 1) * EntityBatch \in Nat
    BY <1>1
  <2>2. First(i) \in Int /\ First(i) >= 1 /\ Final(i) \in Int /\ Final(i) <= Len(s)
    BY <1>1, <2>1
  <2> HIDE DEF First, Final
  <2>3. \A j \in First(i)..Final(i) : s[j] \in S
    BY <1>1, <2>2
  <2> QED
    BY <2>2, <2>3, SubSeqProperties
<1> HIDE DEF First, Final, Indices, Chunk
<1>4. ASSUME NEW i \in Indices, NEW x \in QE!Range(Chunk(i)) PROVE \E k \in 1..Len(s) : x = s[k]
  <2>1. PICK j \in DOMAIN Chunk(i) : x = Chunk(i)[j]
    BY DEF QE!Range
  <2>2. j \in 1..Len(Chunk(i)) /\ Len(Chunk(i)) \in Nat
    BY <1>3, LenProperties
  <2>3. First(i) <= Final(i) /\ j \in 1..(Final(i) - First(i) + 1)
    BY <1>3, <2>2
  <2>4. First(i) + j - 1 \in 1..Len(s)
    BY <1>1, <1>3, <2>3
  <2> QED
    BY <1>3, <2>1, <2>3, <2>4
<1>5. ASSUME NEW k \in 1..Len(s) PROVE \E i \in Indices : s[k] \in QE!Range(Chunk(i))
  <2>1. PICK i \in Indices : First(i) <= k /\ k <= Final(i)
    BY <1>1, InBatches DEF Indices, First, Final
  <2> DEFINE j == k - First(i) + 1
  <2>2. j \in 1..(Final(i) - First(i) + 1) /\ First(i) + j - 1 = k /\ First(i) <= Final(i)
    BY <1>3, <2>1
  <2>3. DOMAIN Chunk(i) = 1..(Final(i) - First(i) + 1)
    BY <1>3, <2>2, LenProperties
  <2>4. Chunk(i)[j] = s[k] /\ j \in DOMAIN Chunk(i)
    BY <1>3, <2>2, <2>3
  <2> QED
    BY <2>4 DEF QE!Range
<1> QED
  BY <1>2, <1>4, <1>5

Asking == {"lookup", "optimize", "execute", "permit", "client", "send"}

Listed(j) ==
  /\ DOMAIN j.listed \subseteq QueryEntities
  /\ j.listed = [e \in DOMAIN j.listed |-> j.listed[e]]
  /\ \A e \in DOMAIN j.listed : QE!Matches(j.query, e, j.listed[e])

Query(j) ==
  \/ j \in [at : Asking, query : Requests, diff : BOOLEAN]
  \/ "at" \in DOMAIN j /\ j.at = "filter" /\ Listed(j)
  \/ "at" \in DOMAIN j /\ j.at \in {"none", "leave", "record", "diff", "cache", "done"}

Hashes == {QE!hash_request(q) : q \in Requests}

QueriesInv ==
  /\ DOMAIN v1 \subseteq QueryEntities
  /\ v2 \in Seq(Hashes) /\ Len(v2) <= MaxStates
  /\ DOMAIN v10 = Callers /\ \A c \in Callers : Query(v10[c])

LEMMA QueriesStart == ASSUME QE!Init PROVE QueriesInv
<1>1. Len(<<>>) <= MaxStates
  BY ProvedPartsAssumption DEF QE!ExecutorAssumption
<1> QED
  BY <1>1 DEF QE!Init, QE!NoJob, QueriesInv, Query

(* One job changes; the game may change, the classifications do not.           *)
LEMMA QueriesKept ==
  ASSUME QueriesInv, NEW c \in Callers, NEW j, Query(j), v10' = [v10 EXCEPT ![c] = j],
         v1' = v1, v2' = v2
  PROVE  QueriesInv'
BY DEF QueriesInv

LEMMA OthersAreFewer ==
  ASSUME NEW S, NEW s \in Seq(S), NEW h
  PROVE  QE!Others(s, h) \in Seq(S) /\ Len(QE!Others(s, h)) <= Len(s)
<1>1. Len(s) \in Nat /\ DOMAIN s = 1..Len(s)
  BY LenProperties
<1>2. CASE \A i \in DOMAIN s : s[i] # h
  BY <1>1, <1>2 DEF QE!Others
<1>3. CASE \E i \in DOMAIN s : s[i] = h
  <2> DEFINE k == CHOOSE i \in DOMAIN s : s[i] = h
             a == SubSeq(s, 1, k - 1)
             b == SubSeq(s, k + 1, Len(s))
  <2>1. k \in 1..Len(s)
    BY <1>1, <1>3
  <2>2. QE!Others(s, h) = a \o b
    BY <1>3 DEF QE!Others
  <2> HIDE DEF k
  <2>3. a \in Seq(S) /\ Len(a) = k - 1
    BY <1>1, <2>1, SubSeqProperties
  <2>4. b \in Seq(S) /\ Len(b) = Len(s) - k
    <3>1. k + 1 \in Int /\ k + 1 >= 1 /\ Len(s) \in Int
      BY <1>1, <2>1
    <3>2. \A i \in (k + 1)..Len(s) : s[i] \in S
      BY <1>1, <2>1
    <3>3. b \in Seq(S) /\ Len(b) = IF k + 1 <= Len(s) THEN Len(s) - (k + 1) + 1 ELSE 0
      BY <3>1, <3>2, SubSeqProperties
    <3>4. Len(b) = Len(s) - k
      <4> DEFINE n == Len(s)
                 m == Len(b)
      <4>1. n \in Nat /\ k \in 1..n /\ m = IF k + 1 <= n THEN n - (k + 1) + 1 ELSE 0
        BY <1>1, <2>1, <3>3
      <4> HIDE DEF n, m
      <4>2. m = n - k
        BY <4>1
      <4> QED
        BY <4>2 DEF n, m
    <3> QED
      BY <3>3, <3>4
  <2> HIDE DEF a, b
  <2> QED
    BY <1>1, <2>1, <2>2, <2>3, <2>4, ConcatProperties
<1> QED
  BY <1>2, <1>3

LEMMA QueriesOptimize ==
  ASSUME QueriesInv, NEW c \in Callers, QE!Optimizes(c)
  PROVE  QueriesInv'
<1> DEFINE j == v10[c]
           h == QE!hash_request(j.query)
           s == Append(QE!Others(v2, h), h)
<1>1. j.at = "optimize" /\ Query(j) /\ v1' = v1 /\ v2' = QE!Evicted(s)
      /\ v10' = [v10 EXCEPT ![c] = [j EXCEPT !.at = "execute"]]
  BY DEF QE!Optimizes, QE!get_or_build_query_state, QueriesInv
<1>2. j \in [at : Asking, query : Requests, diff : BOOLEAN]
  BY <1>1 DEF Query
<1>3. h \in Hashes
  BY <1>2 DEF Hashes
<1>4. Query([j EXCEPT !.at = "execute"])
  <2>1. [j EXCEPT !.at = "execute"] \in [at : Asking, query : Requests, diff : BOOLEAN]
    BY <1>2 DEF Asking
  <2> QED
    BY <2>1 DEF Query
<1> HIDE DEF j, h
<1>5. MaxStates \in Nat /\ v2 \in Seq(Hashes) /\ Len(v2) <= MaxStates /\ Len(v2) \in Nat
  BY ProvedPartsAssumption, LenProperties DEF QE!ExecutorAssumption, QueriesInv
<1>6. QE!Others(v2, h) \in Seq(Hashes) /\ Len(QE!Others(v2, h)) <= Len(v2)
      /\ Len(QE!Others(v2, h)) \in Nat
  BY <1>5, OthersAreFewer, LenProperties
<1>7. s \in Seq(Hashes) /\ Len(s) <= MaxStates + 1 /\ Len(s) \in Nat /\ s # <<>>
  BY <1>3, <1>5, <1>6
<1> HIDE DEF s
<1>8. QE!Evicted(s) \in Seq(Hashes) /\ Len(QE!Evicted(s)) <= MaxStates
  <2>1. CASE Len(s) <= MaxStates
    BY <1>7, <2>1 DEF QE!Evicted
  <2>2. CASE ~(Len(s) <= MaxStates)
    <3>1. Tail(s) \in Seq(Hashes) /\ Len(Tail(s)) = Len(s) - 1
      BY <1>7, HeadTailProperties
    <3> QED
      BY <1>5, <1>7, <2>2, <3>1 DEF QE!Evicted
  <2> QED
    BY <2>1, <2>2
<1> QED
  BY <1>1, <1>4, <1>8 DEF QueriesInv

(* A step within the same request, up to the answer of the game.               *)
LEMMA QueriesMove ==
  ASSUME QueriesInv, NEW c \in Callers, NEW at \in Asking,
         v10[c].at \in Asking,
         v10' = [v10 EXCEPT ![c] = [v10[c] EXCEPT !.at = at]], v1' = v1, v2' = v2
  PROVE  QueriesInv'
<1>1. v10[c] \in [at : Asking, query : Requests, diff : BOOLEAN]
  BY DEF QueriesInv, Query, Asking
<1>2. [v10[c] EXCEPT !.at = at] \in [at : Asking, query : Requests, diff : BOOLEAN]
  BY <1>1
<1> QED
  BY <1>2, QueriesKept DEF Query

LEMMA QueriesEnd ==
  ASSUME QueriesInv, NEW c \in Callers, NEW j, "at" \in DOMAIN j,
         j.at \in {"none", "leave", "record", "diff", "cache", "done"},
         v10' = [v10 EXCEPT ![c] = j], v1' = v1, v2' = v2
  PROVE  QueriesInv'
BY QueriesKept DEF Query

LEMMA QueriesSend ==
  ASSUME QueriesInv, NEW c \in Callers, QE!SendsList(c)
  PROVE  QueriesInv'
<1> DEFINE q == v10[c].query
           listed == QE!Answer(q)
           j == [at |-> "filter", query |-> q, diff |-> v10[c].diff,
                 listed |-> [e \in listed |-> v1[e]]]
           k == QE!Ended(v10[c], listed, v1, FALSE)
<1>1. v10' = [v10 EXCEPT ![c] = IF QE!Cardinality(listed) < EnoughFor THEN k ELSE j]
      /\ v1' = v1 /\ v2' = v2
  BY DEF QE!SendsList, QE!store
<1>2. "at" \in DOMAIN k /\ k.at = "leave"
  BY DEF QE!Ended
<1>3. "at" \in DOMAIN j /\ j.at = "filter" /\ Listed(j)
  <2>1. listed \subseteq DOMAIN v1 /\ \A e \in listed : QE!Matches(q, e, v1[e])
    BY DEF QE!Answer
  <2>2. j.query = q /\ j.listed = [e \in listed |-> v1[e]] /\ "at" \in DOMAIN j /\ j.at = "filter"
    OBVIOUS
  <2> HIDE DEF listed, j, q
  <2>3. DOMAIN j.listed = listed /\ \A e \in listed : j.listed[e] = v1[e]
    BY <2>2
  <2>4. j.listed = [e \in DOMAIN j.listed |-> j.listed[e]]
    BY <2>2, <2>3
  <2> QED
    BY <2>1, <2>2, <2>3, <2>4 DEF Listed, QueriesInv
<1> HIDE DEF j, k, listed
<1>4. CASE QE!Cardinality(listed) < EnoughFor
  BY <1>1, <1>2, <1>4, QueriesEnd
<1>5. CASE ~(QE!Cardinality(listed) < EnoughFor)
  BY <1>1, <1>3, <1>5, QueriesKept DEF Query
<1> QED
  BY <1>4, <1>5


LEMMA QueriesStep ==
  ASSUME QueriesInv, [QE!Next]_(QE!vars)
  PROVE  QueriesInv'
<1>1. CASE QE!WorldChanges
  <2>1. DOMAIN v1' \subseteq QueryEntities /\ v2' = v2 /\ v10' = v10
    <3>1. PICK e \in DOMAIN v1 :
            \/ \E k \in v1[e] : v1' = [v1 EXCEPT ![e] = @ \ {k}]
            \/ v1' = [x \in DOMAIN v1 \ {e} |-> v1[x]]
      BY <1>1 DEF QE!WorldChanges
    <3> QED
      BY <1>1, <3>1 DEF QE!WorldChanges, QE!store, QueriesInv
  <2> QED
    BY <2>1 DEF QueriesInv
<1>2. ASSUME NEW c \in Callers, NEW q \in Requests, NEW d \in BOOLEAN, QE!Asks(c, q, d)
      PROVE  QueriesInv'
  <2>1. [at |-> "lookup", query |-> q, diff |-> d] \in [at : Asking, query : Requests, diff : BOOLEAN]
    BY DEF Asking
  <2> QED
    BY <1>2, <2>1, QueriesKept DEF QE!Asks, QE!store, Query
<1>3. ASSUME NEW c \in Callers, QE!Clear(c) PROVE QueriesInv'
  <2> DEFINE j == [at |-> "done", cleared |-> TRUE]
  <2>1. v10' = [v10 EXCEPT ![c] = j] /\ v1' = v1 /\ v2' = v2
    BY <1>3 DEF QE!Clear
  <2>2. "at" \in DOMAIN j /\ j.at = "done"
    BY DEF QE!Ended
  <2> HIDE DEF j
  <2> QED
    BY <2>1, <2>2, QueriesEnd
<1>4. ASSUME NEW c \in Callers, QE!Disconnected(c) PROVE QueriesInv'
  <2> DEFINE j == [at |-> "done", error |-> "not connected"]
  <2>1. v10' = [v10 EXCEPT ![c] = j] /\ v1' = v1 /\ v2' = v2
    BY <1>4 DEF QE!Disconnected, QE!store
  <2>2. "at" \in DOMAIN j /\ j.at = "done"
    BY DEF QE!Ended
  <2> HIDE DEF j
  <2> QED
    BY <2>1, <2>2, QueriesEnd
<1>5. ASSUME NEW c \in Callers, QE!Looks(c) PROVE QueriesInv'
  <2>1. CASE ~v10[c].diff /\ v10[c].query \in DOMAIN v3
    <3> DEFINE j == [at |-> "done", cached |-> TRUE]
    <3>1. v10' = [v10 EXCEPT ![c] = j] /\ v1' = v1 /\ v2' = v2
      BY <1>5, <2>1 DEF QE!Looks, QE!store
    <3>2. "at" \in DOMAIN j /\ j.at = "done"
      OBVIOUS
    <3> HIDE DEF j
    <3> QED
      BY <3>1, <3>2, QueriesEnd
  <2>2. CASE ~(~v10[c].diff /\ v10[c].query \in DOMAIN v3)
    <3>1. v10' = [v10 EXCEPT ![c] = [v10[c] EXCEPT !.at = "optimize"]] /\ v1' = v1 /\ v2' = v2
          /\ v10[c].at = "lookup"
      BY <1>5, <2>2 DEF QE!Looks, QE!store
    <3> QED
      BY <3>1, QueriesMove DEF Asking
  <2> QED
    BY <2>1, <2>2
<1>6. ASSUME NEW c \in Callers, QE!Optimizes(c) PROVE QueriesInv'
  BY <1>6, QueriesOptimize
<1>7. ASSUME NEW c \in Callers, QE!ReadsState(c) PROVE QueriesInv'
  BY <1>7, QueriesMove DEF QE!ReadsState, QE!store, Asking
<1>8. ASSUME NEW c \in Callers, QE!TakesPermit(c) PROVE QueriesInv'
  BY <1>8, QueriesMove DEF QE!TakesPermit, QE!store, Asking
<1>9. ASSUME NEW c \in Callers, QE!LocksClient(c) PROVE QueriesInv'
  BY <1>9, QueriesMove DEF QE!LocksClient, QE!store, Asking
<1>10. ASSUME NEW c \in Callers, QE!SendsSequential(c) PROVE QueriesInv'
  <2>1. PICK S : v10' = [v10 EXCEPT ![c] = QE!Ended(v10[c], S, v1, FALSE)]
    BY <1>10 DEF QE!SendsSequential
  <2> DEFINE j == QE!Ended(v10[c], S, v1, FALSE)
  <2>2. v10' = [v10 EXCEPT ![c] = j] /\ v1' = v1 /\ v2' = v2
    BY <1>10, <2>1 DEF QE!SendsSequential, QE!store
  <2>3. "at" \in DOMAIN j /\ j.at = "leave"
    BY DEF QE!Ended
  <2> HIDE DEF j
  <2> QED
    BY <2>2, <2>3, QueriesEnd
<1>11. ASSUME NEW c \in Callers, QE!SendsList(c) PROVE QueriesInv'
  BY <1>11, QueriesSend
<1>12. ASSUME NEW c \in Callers, QE!SendFails(c) PROVE QueriesInv'
  <2> DEFINE j == [QE!Ended(v10[c], {}, v1, FALSE) EXCEPT !.error = TRUE]
  <2>1. "at" \in DOMAIN j /\ j.at = "leave"
    BY DEF QE!Ended
  <2> HIDE DEF j
  <2>2. v10' = [v10 EXCEPT ![c] = j] /\ v1' = v1 /\ v2' = v2
    BY <1>12 DEF QE!SendFails, QE!store, j
  <2> QED
    BY <2>1, <2>2, QueriesEnd
<1>13. ASSUME NEW c \in Callers, QE!Filters(c) PROVE QueriesInv'
  <2>1. PICK S : v10' = [v10 EXCEPT ![c] = QE!Ended(v10[c], S, v10[c].listed, TRUE)]
    BY <1>13 DEF QE!Filters
  <2> DEFINE j == QE!Ended(v10[c], S, v10[c].listed, TRUE)
  <2>2. v10' = [v10 EXCEPT ![c] = j] /\ v1' = v1 /\ v2' = v2
    BY <1>13, <2>1 DEF QE!Filters, QE!store
  <2>3. "at" \in DOMAIN j /\ j.at = "leave"
    BY DEF QE!Ended
  <2> HIDE DEF j
  <2> QED
    BY <2>2, <2>3, QueriesEnd
<1>14. ASSUME NEW c \in Callers, QE!Leaves(c) PROVE QueriesInv'
  <2> DEFINE j == IF v10[c].error THEN [at |-> "done", error |-> "fallback"]
                  ELSE [v10[c] EXCEPT !.at = "record"]
  <2>1. "at" \in DOMAIN v10[c] /\ v1' = v1 /\ v2' = v2
    BY <1>14 DEF QE!Leaves, QueriesInv, Query, QE!store, Asking
  <2>2. "at" \in DOMAIN j /\ j.at \in {"done", "record"}
    BY <2>1
  <2>3. v10' = [v10 EXCEPT ![c] = j]
    BY <1>14 DEF QE!Leaves
  <2> HIDE DEF j
  <2> QED
    BY <2>1, <2>2, <2>3, QueriesEnd
<1>15. ASSUME NEW c \in Callers, QE!Records(c) PROVE QueriesInv'
  <2> DEFINE j == [v10[c] EXCEPT !.at = IF v10[c].diff THEN "diff" ELSE "cache"]
  <2>1. "at" \in DOMAIN v10[c] /\ v1' = v1 /\ v2' = v2
    BY <1>15 DEF QE!Records, QueriesInv, Query, QE!store, Asking
  <2>2. "at" \in DOMAIN j /\ j.at \in {"diff", "cache"}
    BY <2>1
  <2>3. v10' = [v10 EXCEPT ![c] = j]
    BY <1>15 DEF QE!Records
  <2> HIDE DEF j
  <2> QED
    BY <2>1, <2>2, <2>3, QueriesEnd
<1>16. ASSUME NEW c \in Callers, QE!Diffs(c) PROVE QueriesInv'
  <2> DEFINE j == [at |-> "done", before |-> v4, after |-> v10[c].entities,
                   differs |-> v10[c].entities # v4']
  <2>1. v10' = [v10 EXCEPT ![c] = j] /\ v1' = v1 /\ v2' = v2
    BY <1>16 DEF QE!Diffs
  <2>2. "at" \in DOMAIN j /\ j.at = "done"
    OBVIOUS
  <2> HIDE DEF j
  <2> QED
    BY <2>1, <2>2, QueriesEnd
<1>17. ASSUME NEW c \in Callers, QE!Caches(c) PROVE QueriesInv'
  <2> DEFINE j == [at |-> "done", query |-> v10[c].query, entities |-> v10[c].entities]
  <2>1. v10' = [v10 EXCEPT ![c] = j] /\ v1' = v1 /\ v2' = v2
    BY <1>17 DEF QE!Caches
  <2>2. "at" \in DOMAIN j /\ j.at = "done"
    BY DEF QE!Ended
  <2> HIDE DEF j
  <2> QED
    BY <2>1, <2>2, QueriesEnd
<1>18. CASE UNCHANGED QE!vars
  BY <1>18 DEF QE!vars, QueriesInv
<1> QED
  BY <1>1, <1>2, <1>3, <1>4, <1>5, <1>6, <1>7, <1>8, <1>9, <1>10, <1>11, <1>12, <1>13, <1>14, <1>15,
     <1>16, <1>17, <1>18 DEF QE!Next, QE!Proceeds

LEMMA QueriesLoseNothing ==
  ASSUME QueriesInv
  PROVE  QE!LosesNothing
<1> SUFFICES ASSUME NEW c \in Callers, QE!Filters(c), v10[c].query.limit = None
             PROVE  v10'[c].entities = v10[c].listed
  BY DEF QE!LosesNothing
<1> DEFINE q == v10[c].query
           listed == v10[c].listed
           D == DOMAIN listed
           Kept(s) == {e \in UNION {QE!Range(b) : b \in QE!Batches(s)} : QE!Matches(q, e, listed[e])}
<1>1. Listed(v10[c])
  BY DEF QueriesInv, Query, Asking, QE!Filters
<1>2. IsFiniteSet(QueryEntities)
  BY ProvedPartsAssumption DEF QE!ExecutorAssumption, QE!IsFiniteSet, IsFiniteSet
<1>3. D \subseteq QueryEntities
  BY <1>1 DEF Listed
<1> HIDE DEF D
<1>4. QE!Cardinality(D) \in Nat
  <2>1. Cardinality(D) \in Nat
    BY <1>2, <1>3, FS_Subset, FS_CardinalityType
  <2>2. QE!Cardinality(D) = Cardinality(D)
    BY DEF QE!Cardinality, Cardinality, QE!IsFiniteSet, IsFiniteSet
  <2> QED
    BY <2>1, <2>2
<1>5. PICK s \in QE!Bijection(1..QE!Cardinality(D), D) :
        \E S \in QE!Limited(Kept(s), q.limit) :
          v10' = [v10 EXCEPT ![c] = QE!Ended(v10[c], S, listed, TRUE)]
  BY DEF QE!Filters, D
<1>6. s \in Seq(D) /\ {s[k] : k \in 1..Len(s)} = D
  <2> DEFINE n == QE!Cardinality(D)
  <2>1. s \in [1..n -> D] /\ \A e \in D : \E k \in 1..n : s[k] = e
    BY <1>5 DEF QE!Bijection, QE!Injection, QE!Surjection
  <2> HIDE DEF n
  <2>2. s \in Seq(D) /\ Len(s) = n
    BY <1>4, <2>1 DEF n
  <2> QED
    BY <2>1, <2>2
<1>7. UNION {QE!Range(b) : b \in QE!Batches(s)} = D
  BY <1>6, BatchesCover
<1>8. \A e \in D : QE!Matches(q, e, listed[e])
  BY <1>1 DEF Listed, D
<1>9. Kept(s) = D
  BY <1>7, <1>8
<1> HIDE DEF Kept
<1>10. PICK S \in QE!Limited(D, q.limit) : v10' = [v10 EXCEPT ![c] = QE!Ended(v10[c], S, listed, TRUE)]
  BY <1>5, <1>9
<1>11. S = D
  BY <1>10 DEF QE!Limited
<1>12. v10'[c].entities = [e \in D |-> listed[e]]
  BY <1>10, <1>11 DEF QueriesInv, QE!Ended
<1> QED
  BY <1>1, <1>12 DEF Listed, D

LEMMA QueriesKeepToLimit == ASSUME QueriesInv PROVE QE!StatesWithinLimit
  BY DEF QueriesInv, QE!StatesWithinLimit

-----------------------------------------------------------------------------
(* Orchestrator.  Parallel tasks run on copies of the context but add their    *)
(* results to the shared one, so it always is what the tools produced.         *)
OrchestratorInv == v3 = v8

LEMMA OrchestratorStart == ASSUME TO!Init PROVE OrchestratorInv
  BY DEF TO!Init, OrchestratorInv

LEMMA OrchestratorStep ==
  ASSUME OrchestratorInv, [TO!Next]_(TO!orchestratorVars)
  PROVE  OrchestratorInv'
<1> USE DEF OrchestratorInv
<1>1. CASE TO!handle_orchestration \/ \E p \in Pipelines : TO!StartPipeline(p)
  BY <1>1 DEF TO!handle_orchestration, TO!StartPipeline
<1>2. CASE TO!execute_step
  BY <1>2 DEF TO!execute_step, TO!Skip, TO!CacheHit, TO!AttemptFails, TO!Answered
<1>3. ASSUME NEW i \in DOMAIN v6, TO!TaskReads(i) \/ TO!TaskEnds(i) PROVE OrchestratorInv'
  BY <1>3 DEF TO!TaskReads, TO!TaskEnds
<1>4. CASE TO!JoinAll \/ TO!PipelineEnds \/ TO!PipelineTimesOut \/ UNCHANGED TO!orchestratorVars
  BY <1>4 DEF TO!JoinAll, TO!PipelineEnds, TO!PipelineTimesOut, TO!orchestratorVars
<1> QED
  BY <1>1, <1>2, <1>3, <1>4 DEF TO!Next

LEMMA OrchestratorLosesNoResult == ASSUME OrchestratorInv PROVE TO!NoLostResult
  BY DEF OrchestratorInv, TO!NoLostResult

-----------------------------------------------------------------------------
(* Experiments.  At most one batch runs, and while an atomic one does there is *)
(* a transaction, in which no action is remembered.                            *)
Batch == [atomic : BOOLEAN, results : Seq(EX!Results)]
ExperimentsInv ==
  /\ v5 \in Nat
  /\ v6 \subseteq Batch /\ \A b, c \in v6 : b = c
  /\ \A b \in v6 : b.atomic => v5 > 0

LEMMA ExperimentsStart == ASSUME EX!Init PROVE ExperimentsInv
  BY DEF EX!Init, ExperimentsInv

LEMMA ExperimentsStep ==
  ASSUME ExperimentsInv, [EX!Next]_(EX!experimentVars)
  PROVE  ExperimentsInv'
<1>1. CASE v5' = v5 /\ v6' \subseteq v6
  BY <1>1 DEF ExperimentsInv
<1>2. ASSUME NEW atomic \in BOOLEAN, EX!BatchStarts(atomic) PROVE ExperimentsInv'
  BY <1>2 DEF ExperimentsInv, EX!BatchStarts, EX!Transaction, Batch
<1>3. CASE EX!BatchActs
  <2>1. PICK b \in v6, result \in EX!Results :
          v6' = IF result.outcome = "error" THEN {}
                ELSE {[b EXCEPT !.results = Append(@, result)]}
    BY <1>3 DEF EX!BatchActs
  <2> DEFINE c == [b EXCEPT !.results = Append(@, result)]
  <2>2. c \in Batch /\ c.atomic = b.atomic
    <3>1. b \in Batch /\ Append(b.results, result) \in Seq(EX!Results)
      BY DEF ExperimentsInv, Batch
    <3> QED
      BY <3>1 DEF Batch
  <2>3. v5' = v5
    BY <1>3 DEF EX!BatchActs
  <2> HIDE DEF c
  <2> QED
    BY <2>1, <2>2, <2>3 DEF ExperimentsInv, c
<1>4. CASE EX!RollsBack \/ EX!BatchSucceeds
  <2>1. v6' = {} /\ \E b \in v6 : v5' = v5 - (IF b.atomic THEN 1 ELSE 0)
    BY <1>4 DEF EX!RollsBack, EX!BatchSucceeds
  <2> QED
    BY <2>1 DEF ExperimentsInv
<1>5. CASE EX!handle_execute \/ EX!handle_undo \/ EX!handle_redo \/ EX!handle_clear_history
  BY <1>1, <1>5
     DEF EX!handle_execute, EX!handle_undo, EX!handle_redo, EX!handle_clear_history,
         EX!undo, EX!redo, EX!clear_history
<1>6. CASE EX!BatchFails \/ EX!BatchDropped \/ UNCHANGED EX!experimentVars
  BY <1>1, <1>6 DEF EX!BatchFails, EX!BatchDropped, EX!experimentVars
<1> QED
  BY <1>2, <1>3, <1>4, <1>5, <1>6 DEF EX!Next

(* What an atomic batch does reaches the history only when all of it           *)
(* succeeded.                                                                  *)
LEMMA ExperimentsAreAtomic ==
  ASSUME ExperimentsInv, [EX!Next]_(EX!experimentVars)
  PROVE  EX!Atomic
<1> SUFFICES ASSUME NEW b \in v6, b.atomic, NEW i \in DOMAIN b.results,
                    b.results[i].outcome = "failure"
             PROVE  v3' = v3
  BY DEF EX!Atomic
<1>1. v5 # 0 /\ v6 # {} /\ EX!should_rollback(b)
  BY DEF ExperimentsInv, EX!should_rollback
<1>2. CASE EX!BatchActs
  BY <1>1, <1>2 DEF EX!BatchActs, EX!Remembered
<1>3. ~EX!BatchSucceeds
  BY <1>1 DEF EX!BatchSucceeds, ExperimentsInv
<1> QED
  BY <1>1, <1>2, <1>3
     DEF EX!Next, EX!experimentVars, EX!handle_execute, EX!BatchStarts, EX!RollsBack,
         EX!BatchFails, EX!BatchDropped, EX!handle_undo, EX!handle_redo,
         EX!handle_clear_history, EX!undo, EX!redo, EX!clear_history

-----------------------------------------------------------------------------
(* Stress tests.  A batch of spawns is no larger than what the limit leaves,   *)
(* and what a spawning test made and the game told of is known to it until it  *)
(* is deleted, refused, or the run is dropped.                                 *)
Running == v2 \notin {"idle", "reporting"}

Owned == v13 \subseteq DOMAIN v14 /\ \E n \in Nat : DOMAIN v14 = 1..n

Accounted ==
  \A e \in v13 \ v15 :
    v14[e] # "rapid_changes" => Running /\ Head(v1) # "rapid_changes" /\ e \in v6

Counted ==
  /\ v4 \in Nat /\ v5 \in Nat
  /\ v1 # <<>> /\ Head(v1) = "spawn_many" =>
       v5 <= MaxSpawned /\ (v2 = "batch" => v5 + v4 <= MaxSpawned)

Planned ==
  /\ v1 \in Seq(ST!Tests) /\ (Running => v1 # <<>>)
  /\ v2 = "setup" => Head(v1) = "rapid_changes"
  /\ v12 # {} => v2 = "idle"

StressInv == Planned /\ Counted /\ Owned /\ Accounted

LEMMA StressStart == ASSUME ST!Init PROVE StressInv
<1>1. DOMAIN v14 = 1..0
  BY DEF ST!Init
<1>2. MaxSpawned \in Nat
  BY ProvedPartsAssumption DEF ST!StressAssumption
<1>3. ~Running
  BY DEF ST!Init, Running
<1> QED
  BY <1>1, <1>2, <1>3 DEF ST!Init, StressInv, Planned, Counted, Owned, Accounted

(* A test makes an entity, and the game tells it or not.                       *)
LEMMA StressSpawns ==
  ASSUME StressInv, Running, ST!Spawns(TRUE) \/ ST!Spawns(FALSE), v1' = v1, Running'
  PROVE  Owned' /\ Accounted'
<1> DEFINE m == ST!NextEntity
<1>1. PICK n \in Nat : DOMAIN v14 = 1..n
  BY DEF StressInv, Owned
<1>2. m = n + 1
  <2>1. ST!Cardinality(1..n) = Cardinality(1..n)
    BY DEF ST!Cardinality, Cardinality, ST!IsFiniteSet, IsFiniteSet
  <2>2. Cardinality(1..n) = n
    BY FS_Interval
  <2> QED
    BY <1>1, <2>1, <2>2 DEF ST!NextEntity
<1>3. /\ v13' = v13 \cup {m}
      /\ v14' = [e \in 1..m |-> IF e = m THEN Head(v1) ELSE v14[e]]
      /\ (v6' = v6 \cup {m} /\ v15' = v15) \/ (v15' = v15 \cup {m} /\ v6' = v6)
  BY DEF ST!Spawns, ST!Test
<1> HIDE DEF m
<1>4. Owned'
  BY <1>1, <1>2, <1>3 DEF StressInv, Owned
<1>5. ASSUME NEW e \in v13' \ v15', v14'[e] # "rapid_changes"
      PROVE  Head(v1) # "rapid_changes" /\ e \in v6'
  <2>1. CASE e = m
    BY <1>1, <1>2, <1>3, <1>5, <2>1
  <2>2. CASE e # m
    <3>1. e \in v13 \ v15 /\ e \in 1..n
      BY <1>1, <1>3, <1>5, <2>2 DEF StressInv, Owned
    <3>2. v14'[e] = v14[e]
      BY <1>1, <1>2, <1>3, <2>2, <3>1
    <3> QED
      BY <1>3, <1>5, <3>1, <3>2 DEF StressInv, Accounted
  <2> QED
    BY <2>1, <2>2
<1> QED
  BY <1>4, <1>5 DEF Accounted

LEMMA StressStep ==
  ASSUME StressInv, [ST!Next]_(ST!stressVars)
  PROVE  StressInv'
<1>1. ASSUME NEW plan \in ST!Plans, ST!run(plan) PROVE StressInv'
  <2>1. plan \in Seq(ST!Tests) /\ plan # <<>> /\ Head(plan) = plan[1]
    <3>1. CASE \E t \in ST!Tests : plan = <<t>>
      BY <3>1
    <3>2. CASE plan = <<"spawn_many", "rapid_changes", "memory_pressure">>
      BY <3>2 DEF ST!Tests
    <3> QED
      BY <3>1, <3>2 DEF ST!Plans
  <2> QED
    BY <1>1, <2>1, ProvedPartsAssumption
       DEF StressInv, Planned, Counted, Owned, Accounted, Running, ST!run, ST!Starts, ST!gameVars,
           ST!StressAssumption
<1>2. CASE ST!handle_run \/ ST!handle_spawn_many \/ ST!handle_rapid_changes
             \/ ST!handle_memory_pressure
  <2>1. \E plan \in ST!Plans : ST!run(plan)
    BY <1>2 DEF ST!handle_run, ST!handle_spawn_many, ST!handle_rapid_changes,
                ST!handle_memory_pressure, ST!Plans, ST!Tests
  <2> QED
    BY <1>1, <2>1
<1>3. CASE ST!Setup
  <2>1. Running /\ Running' /\ v1' = v1 /\ v12' = v12 /\ v2' \in {"setup", "executing"}
        /\ v4' = v4 /\ v5' \in Nat /\ Head(v1) = "rapid_changes"
    <3>1. v2 = "setup" /\ v1' = v1 /\ v12' = v12 /\ v4' = v4
      BY <1>3 DEF ST!Setup
    <3>2. v2' \in {"setup", "executing"} /\ (v5' = v5 + 1 \/ v5' = 0)
      BY <1>3, <3>1 DEF ST!Setup
    <3> QED
      BY <3>1, <3>2 DEF StressInv, Planned, Counted, Running
  <2>2. Planned' /\ Counted'
    BY <1>3, <2>1 DEF ST!Setup, StressInv, Planned, Counted, Running
  <2>3. CASE UNCHANGED <<ST!gameVars, v6>>
    BY <2>1, <2>2, <2>3 DEF ST!gameVars, StressInv, Owned, Accounted
  <2>4. CASE ST!Spawns(TRUE)
    BY <2>1, <2>2, <2>4, StressSpawns DEF StressInv
  <2> QED
    BY <1>3, <2>3, <2>4 DEF ST!Setup
<1>4. CASE ST!Waits \/ ST!ExecuteEnds \/ ST!BatchEnds
  <2>1. Running /\ Running' /\ v1' = v1 /\ v12' = v12 /\ v5' = v5 /\ v4' = v4 /\ v6' = v6
        /\ v2' \in {"executing", "cleaning"} /\ v13' = v13 /\ v14' = v14 /\ v15' = v15
    BY <1>4 DEF ST!Waits, ST!ExecuteEnds, ST!BatchEnds, ST!gameVars, Running
  <2> QED
    BY <2>1 DEF StressInv, Planned, Counted, Owned, Accounted, Running
<1>5. CASE ST!BatchStarts
  <2>1. Running /\ Running' /\ v1' = v1 /\ v12' = v12 /\ v5' = v5 /\ v6' = v6
        /\ v2' = "batch" /\ v13' = v13 /\ v14' = v14 /\ v15' = v15 /\ v4' = ST!BatchSize
    BY <1>5 DEF ST!BatchStarts, ST!gameVars, Running
  <2>2. CASE Head(v1) = "spawn_many"
    <3>1. v5 < MaxSpawned /\ v4' = ST!AtMost(Rate, MaxSpawned - v5)
      BY <1>5, <2>1, <2>2 DEF ST!BatchStarts, ST!WantsMore, ST!BatchSize, ST!Test
    <3>2. Rate \in Nat /\ MaxSpawned \in Nat /\ v5 \in Nat
      BY ProvedPartsAssumption DEF StressInv, Counted, ST!StressAssumption
    <3>3. v4' \in Nat /\ v5 + v4' <= MaxSpawned
      <4>1. v4' = IF MaxSpawned - v5 <= Rate THEN MaxSpawned - v5 ELSE Rate
        BY <3>1 DEF ST!AtMost
      <4> QED
        BY <3>1, <3>2, <4>1
    <3> QED
      BY <2>1, <3>1, <3>3 DEF StressInv, Planned, Counted, Owned, Accounted, Running
  <2>3. CASE Head(v1) # "spawn_many"
    <3>1. v4' \in Nat
      BY <2>1, <2>3, ProvedPartsAssumption DEF ST!BatchSize, ST!Test, ST!StressAssumption
    <3> QED
      BY <2>1, <2>3, <3>1 DEF StressInv, Planned, Counted, Owned, Accounted, Running
  <2> QED
    BY <2>2, <2>3
<1>6. CASE ST!Operation
  <2>1. Running /\ Running' /\ v1' = v1 /\ v12' = v12 /\ v2 = "batch" /\ v2' = "batch"
        /\ v4 > 0 /\ v4' = v4 - 1 /\ v5' \in {v5, v5 + 1}
    BY <1>6 DEF ST!Operation, ST!Succeeds, ST!Errs, ST!Warns, Running
  <2>2. Planned' /\ Counted'
    <3>1. v4 \in Nat /\ v5 \in Nat /\ v4' \in Nat /\ v5' \in Nat /\ v5' + v4' <= v5 + v4
      <4>1. v4 \in Nat /\ v5 \in Nat
        BY DEF StressInv, Counted
      <4>2. v4 > 0 /\ v4' = v4 - 1 /\ (v5' = v5 \/ v5' = v5 + 1)
        BY <2>1
      <4> QED
        BY <4>1, <4>2
    <3>2. Planned'
      BY <2>1 DEF StressInv, Planned, Running
    <3>3. ASSUME v1 # <<>>, Head(v1) = "spawn_many"
          PROVE  v5' <= MaxSpawned /\ v5' + v4' <= MaxSpawned
      BY <2>1, <3>1, <3>3, ProvedPartsAssumption DEF StressInv, Counted, ST!StressAssumption
    <3> QED
      BY <2>1, <3>1, <3>2, <3>3 DEF Counted
  <2>3. CASE UNCHANGED <<ST!gameVars, v6>>
    BY <2>1, <2>2, <2>3 DEF ST!gameVars, StressInv, Owned, Accounted
  <2>4. CASE ST!Spawns(TRUE) \/ ST!Spawns(FALSE)
    BY <2>1, <2>2, <2>4, StressSpawns DEF StressInv
  <2> QED
    BY <1>6, <2>3, <2>4 DEF ST!Operation, ST!Succeeds, ST!Errs, ST!Warns
<1>7. CASE ST!cleanup
  <2>1. v2 = "cleaning" /\ v1' = Tail(v1) /\ v6' = {} /\ v5' = 0 /\ v4' = v4 /\ v12' = v12
        /\ v14' = v14
        /\ v2' = (IF v1' = <<>> THEN "reporting"
                  ELSE IF Head(v1') = "rapid_changes" THEN "setup" ELSE "executing")
    BY <1>7 DEF ST!cleanup, ST!Starts, ST!gameVars
  <2>2. v1 \in Seq(ST!Tests) /\ v1 # <<>> /\ v12 = {} /\ Running
    BY <2>1 DEF StressInv, Planned, Running
  <2>3. v1' \in Seq(ST!Tests)
    BY <2>1, <2>2
  <2>4. Planned' /\ Counted'
    BY <2>1, <2>2, <2>3, ProvedPartsAssumption
       DEF StressInv, Planned, Counted, Running, ST!StressAssumption
  <2>5. v13' \subseteq v13 /\ v15 \subseteq v15'
        /\ \A e \in v13' \ v15' : v14[e] = "rapid_changes"
    <3>1. CASE Head(v1) = "rapid_changes"
      BY <1>7, <3>1 DEF ST!cleanup, ST!Test, ST!gameVars, StressInv, Accounted
    <3>2. CASE Head(v1) # "rapid_changes"
      <4>1. PICK unwilling \in SUBSET v6 :
              v13' = v13 \ (v6 \ unwilling) /\ v15' = v15 \cup unwilling
        BY <1>7, <3>2 DEF ST!cleanup, ST!Test, ST!Cleaned
      <4> QED
        BY <4>1 DEF StressInv, Accounted
    <3> QED
      BY <3>1, <3>2
  <2> QED
    BY <2>1, <2>4, <2>5 DEF StressInv, Owned, Accounted
<1>8. CASE ST!generate_report \/ ST!MonitorEnds
  <2>1. v1' = v1 /\ v4' = v4 /\ v5' = v5 /\ v6' = v6 /\ v13' = v13 /\ v14' = v14 /\ v15' = v15
        /\ ~Running /\ v2' = "idle"
    BY <1>8 DEF ST!generate_report, ST!MonitorEnds, ST!gameVars, Running
  <2> QED
    BY <2>1 DEF StressInv, Planned, Counted, Owned, Accounted, Running
<1>9. CASE ST!RunDropped
  <2>1. v1' = v1 /\ v4' = v4 /\ v5' = v5 /\ v13' = v13 /\ v14' = v14 /\ v15' = v15 \cup v6
        /\ v2' = "idle" /\ v12' = v12
    BY <1>9 DEF ST!RunDropped
  <2> QED
    BY <2>1 DEF StressInv, Planned, Counted, Owned, Accounted, Running
<1>10. CASE UNCHANGED ST!stressVars
  BY <1>10 DEF ST!stressVars, ST!gameVars, StressInv, Planned, Counted, Owned, Accounted, Running
<1> QED
  BY <1>2, <1>3, <1>4, <1>5, <1>6, <1>7, <1>8, <1>9, <1>10 DEF ST!Next

LEMMA StressKeepsPromises == ASSUME StressInv PROVE ST!SpawnsWithinLimit /\ ST!SpawnersCleanUp
  BY DEF StressInv, Planned, Counted, Accounted, Running, ST!SpawnsWithinLimit,
         ST!SpawnersCleanUp, ST!Test

-----------------------------------------------------------------------------
(* Hot reload.  The backups in order are on the disk, and the one that a       *)
(* reload made has no more behind it than others made since.                   *)
StepFields == {"at", "path", "backup", "content", "newer"}

Behind(b, n) == \E i \in DOMAIN v4 : v4[i] = b /\ Len(v4) - i <= n

Reloading(r) ==
  /\ DOMAIN v9[r] = StepFields /\ v9[r].newer \in Nat
  /\ v9[r].at \in {"backup", "cleanup", "read", "import"} => v9[r].backup \in HR!Paths
  /\ HR!BackedUp(r) /\ v9[r].newer < MaxBackups => Behind(v9[r].backup, v9[r].newer)

ReloadInv ==
  /\ v1 \in HR!Seconds
  /\ v4 \in Seq(HR!Paths) /\ \A i \in DOMAIN v4 : v4[i] \in DOMAIN v2
  /\ DOMAIN v9 = HR!Reloaders
  /\ \A r \in HR!Reloaders : Reloading(r)

LEMMA ReloadNumbers == MaxBackups \in Nat /\ MaxSeconds \in Nat
  BY ProvedPartsAssumption DEF HR!HotReloadAssumption

LEMMA ReloadStart == ASSUME HR!Init PROVE ReloadInv
<1>1. \A r \in HR!Reloaders : v9[r] = HR!Idle
  BY DEF HR!Init
<1>2. DOMAIN HR!Idle = StepFields /\ HR!Idle.newer = 0 /\ HR!Idle.at = "idle"
  BY DEF HR!Idle, StepFields
<1>3. v4 \in Seq(HR!Paths) /\ \A i \in DOMAIN v4 : v4[i] \in DOMAIN v2
  BY DEF HR!Init
<1> QED
  BY <1>1, <1>2, <1>3, ReloadNumbers DEF HR!Init, ReloadInv, Reloading, HR!BackedUp, HR!Seconds

(* Taking a backup out of the order brings no other further from its end.      *)
LEMMA WithoutKeeps ==
  ASSUME NEW S, NEW s \in Seq(S), NEW x \in S
  PROVE  /\ HR!Without(s, x) \in Seq(S)
         /\ \A i \in DOMAIN HR!Without(s, x) : \E j \in DOMAIN s : HR!Without(s, x)[i] = s[j]
         /\ \A i \in DOMAIN s : s[i] # x =>
              \E j \in DOMAIN HR!Without(s, x) :
                HR!Without(s, x)[j] = s[i] /\ Len(HR!Without(s, x)) - j <= Len(s) - i
<1>1. CASE \A i \in DOMAIN s : s[i] # x
  <2>1. HR!Without(s, x) = s
    BY <1>1 DEF HR!Without
  <2>2. \A i \in DOMAIN s : Len(s) - i <= Len(s) - i
    BY LenProperties
  <2> QED
    BY <2>1, <2>2
<1>2. CASE \E i \in DOMAIN s : s[i] = x
  <2> DEFINE k == CHOOSE i \in DOMAIN s : s[i] = x
             a == SubSeq(s, 1, k - 1)
             b == SubSeq(s, k + 1, Len(s))
             t == a \o b
  <2>1. k \in DOMAIN s /\ s[k] = x
    BY <1>2
  <2>2. HR!Without(s, x) = t
    BY <1>2 DEF HR!Without
  <2>3. k \in 1..Len(s) /\ Len(s) \in Nat /\ DOMAIN s = 1..Len(s)
    BY <2>1, LenProperties
  <2> HIDE DEF k
  <2>4. a \in Seq(S) /\ Len(a) = k - 1 /\ \A i \in 1..(k - 1) : a[i] = s[i]
    BY <2>3, SubSeqProperties
  <2>5. b \in Seq(S) /\ Len(b) = Len(s) - k /\ \A i \in 1..(Len(s) - k) : b[i] = s[k + i]
    <3>1. k + 1 \in 1..(Len(s) + 1) /\ Len(s) \in (k + 1 - 1)..Len(s)
      BY <2>3
    <3>2. b \in Seq(S) /\ Len(b) = Len(s) - (k + 1) + 1
          /\ \A i \in 1..(Len(s) - (k + 1) + 1) : b[i] = s[(k + 1) + i - 1]
      BY <3>1, SubSeqProperties
    <3>3. Len(s) - (k + 1) + 1 = Len(s) - k
      BY <2>3
    <3>4. ASSUME NEW i \in 1..(Len(s) - k) PROVE b[i] = s[k + i]
      <4>1. (k + 1) + i - 1 = k + i
        BY <2>3
      <4> QED
        BY <3>2, <3>3, <4>1
    <3> HIDE DEF b
    <3> QED
      BY <3>2, <3>3, <3>4
  <2> HIDE DEF a, b
  <2>6. /\ t \in Seq(S) /\ Len(t) = Len(s) - 1 /\ DOMAIN t = 1..(Len(s) - 1)
        /\ \A i \in 1..Len(t) : t[i] = IF i <= k - 1 THEN s[i] ELSE s[i + 1]
    <3>1. t \in Seq(S) /\ Len(t) = Len(s) - 1
          /\ \A i \in 1..Len(t) : t[i] = IF i <= Len(a) THEN a[i] ELSE b[i - Len(a)]
      <4>1. Len(a) + Len(b) = Len(s) - 1
        BY <2>3, <2>4, <2>5
      <4>2. a \in Seq(S) /\ b \in Seq(S)
        BY <2>4, <2>5
      <4>3. t \in Seq(S) /\ Len(t) = Len(a) + Len(b)
            /\ \A i \in 1..(Len(a) + Len(b)) : t[i] = IF i <= Len(a) THEN a[i] ELSE b[i - Len(a)]
        BY <4>2, ConcatProperties
      <4> HIDE DEF t
      <4> QED
        BY <4>1, <4>3
    <3>2. ASSUME NEW i \in 1..Len(t) PROVE t[i] = IF i <= k - 1 THEN s[i] ELSE s[i + 1]
      <4>1. CASE i <= k - 1
        BY <2>3, <2>4, <3>1, <4>1
      <4>2. CASE i > k - 1
        <5>1. i - (k - 1) \in 1..(Len(s) - k) /\ k + (i - (k - 1)) = i + 1
          BY <2>3, <3>1, <4>2
        <5>2. b[i - (k - 1)] = s[i + 1]
          BY <2>5, <5>1
        <5> QED
          BY <2>3, <2>4, <3>1, <4>2, <5>2
      <4> QED
        BY <2>3, <4>1, <4>2
    <3> QED
      BY <3>1, <3>2, LenProperties
  <2> HIDE DEF t
  <2>7. ASSUME NEW i \in DOMAIN t PROVE \E j \in DOMAIN s : t[i] = s[j]
    <3>1. i \in 1..(Len(s) - 1) /\ i \in DOMAIN s /\ i + 1 \in DOMAIN s
      BY <2>3, <2>6
    <3> QED
      BY <2>6, <3>1
  <2>8. ASSUME NEW i \in DOMAIN s, s[i] # x
        PROVE  \E j \in DOMAIN t : t[j] = s[i] /\ Len(t) - j <= Len(s) - i
    <3>1. CASE i < k
      <4>1. i \in 1..(Len(s) - 1) /\ i <= k - 1
        BY <2>3, <3>1
      <4>2. t[i] = s[i] /\ Len(t) - i <= Len(s) - i
        BY <2>3, <2>6, <4>1
      <4> QED
        BY <2>6, <4>1, <4>2
    <3>2. CASE i > k
      <4>1. i - 1 \in 1..(Len(s) - 1) /\ ~(i - 1 <= k - 1) /\ (i - 1) + 1 = i
        BY <2>3, <3>2
      <4>2. t[i - 1] = s[i] /\ Len(t) - (i - 1) <= Len(s) - i
        BY <2>3, <2>6, <4>1
      <4> QED
        BY <2>6, <4>1, <4>2
    <3> QED
      BY <2>1, <2>3, <2>8, <3>1, <3>2
  <2> QED
    BY <2>2, <2>6, <2>7, <2>8
<1> QED
  BY <1>1, <1>2

(* Nor does leaving out the oldest.                                            *)
LEMMA KeptKeeps ==
  ASSUME NEW S, NEW s \in Seq(S)
  PROVE  /\ HR!Kept(s) \in Seq(S)
         /\ \A i \in DOMAIN HR!Kept(s) : \E j \in DOMAIN s : HR!Kept(s)[i] = s[j]
         /\ \A i \in DOMAIN s : Len(s) - i < MaxBackups =>
              \E j \in DOMAIN HR!Kept(s) :
                HR!Kept(s)[j] = s[i] /\ Len(HR!Kept(s)) - j <= Len(s) - i
<1>1. Len(s) \in Nat /\ DOMAIN s = 1..Len(s) /\ MaxBackups \in Nat
  BY LenProperties, ReloadNumbers
<1>2. CASE Len(s) <= MaxBackups
  BY <1>1, <1>2 DEF HR!Kept
<1>3. CASE Len(s) > MaxBackups
  <2> DEFINE m == Len(s) - MaxBackups
             t == SubSeq(s, m + 1, Len(s))
  <2>1. HR!Kept(s) = t /\ m \in 1..Len(s)
    BY <1>1, <1>3 DEF HR!Kept
  <2>2. t \in Seq(S) /\ Len(t) = Len(s) - m /\ \A i \in 1..(Len(s) - m) : t[i] = s[m + i]
    BY <1>1, <2>1, SubSeqProperties
  <2>3. DOMAIN t = 1..(Len(s) - m)
    BY <2>2, LenProperties
  <2>4. ASSUME NEW i \in DOMAIN t PROVE \E j \in DOMAIN s : t[i] = s[j]
    BY <1>1, <2>1, <2>2, <2>3
  <2>5. ASSUME NEW i \in DOMAIN s, Len(s) - i < MaxBackups
        PROVE  \E j \in DOMAIN t : t[j] = s[i] /\ Len(t) - j <= Len(s) - i
    <3>1. i - m \in 1..(Len(s) - m) /\ m + (i - m) = i
      BY <1>1, <2>1, <2>5
    <3>2. t[i - m] = s[i] /\ Len(t) - (i - m) <= Len(s) - i
      BY <1>1, <2>1, <2>2, <3>1
    <3> QED
      BY <2>3, <3>1, <3>2
  <2> HIDE DEF m, t
  <2> QED
    BY <2>1, <2>2, <2>4, <2>5
<1> QED
  BY <1>1, <1>2, <1>3

LEMMA ReloadTakes ==
  ASSUME ReloadInv, NEW r \in HR!Reloaders, NEW p, HR!process_reload_event(r, p),
         v1' = v1, v2' = v2, v4' = v4
  PROVE  ReloadInv'
<1> DEFINE s == [at |-> "backup", path |-> p, backup |-> HR!Backup(v1), content |-> v10, newer |-> 0]
<1>1. v9' = [v9 EXCEPT ![r] = s]
  BY DEF HR!process_reload_event
<1>2. HR!Backup(v1) \in HR!Paths
  BY DEF ReloadInv, Reloading, HR!Paths
<1>3. DOMAIN s = StepFields /\ s.newer = 0 /\ s.at = "backup" /\ s.backup \in HR!Paths
  BY <1>2 DEF StepFields
<1> HIDE DEF s
<1> QED
  BY <1>1, <1>3 DEF ReloadInv, Reloading, HR!BackedUp, Behind

(* A reload goes on to what it does next; neither the backups nor their order  *)
(* change.                                                                     *)
LEMMA ReloadMoves ==
  ASSUME ReloadInv, NEW r \in HR!Reloaders, NEW s, v9' = [v9 EXCEPT ![r] = s],
         DOMAIN s = StepFields, s.newer \in Nat,
         s.at \notin {"idle", "version"} =>
           /\ s.at \in {"read", "import"} /\ HR!BackedUp(r)
           /\ s.backup = v9[r].backup /\ s.newer = v9[r].newer,
         v1' = v1, v2' = v2, v4' = v4
  PROVE  ReloadInv'
<1>1. ASSUME NEW q \in HR!Reloaders
      PROVE  Reloading(q)'
  <2>1. CASE q = r
    BY <2>1 DEF ReloadInv, Reloading, HR!BackedUp, Behind
  <2>2. CASE q # r
    BY <2>2 DEF ReloadInv, Reloading, HR!BackedUp, Behind
  <2> QED
    BY <2>1, <2>2
<1> QED
  BY <1>1 DEF ReloadInv, Reloading

LEMMA ReloadBacksUp ==
  ASSUME ReloadInv, NEW r \in HR!Reloaders, HR!create_backup(r)
  PROVE  ReloadInv'
<1> DEFINE b == v9[r].backup
           w == HR!Without(v4, b)
<1>1. /\ v9[r].at = "backup" /\ v1' = v1 /\ v4' = Append(w, b)
      /\ v2' = HR!Put(v2, b, v9[r].content)
      /\ v9' = [q \in HR!Reloaders |->
                 IF q = r THEN [v9[q] EXCEPT !.at = "cleanup", !.content = None]
                 ELSE [v9[q] EXCEPT !.newer = IF HR!BackedUp(q) /\ @ < MaxBackups THEN @ + 1 ELSE @]]
  BY DEF HR!create_backup
<1>2. b \in HR!Paths
  BY <1>1 DEF ReloadInv, Reloading
<1>3. /\ w \in Seq(HR!Paths)
      /\ \A i \in DOMAIN w : \E j \in DOMAIN v4 : w[i] = v4[j]
      /\ \A i \in DOMAIN v4 : v4[i] # b =>
           \E j \in DOMAIN w : w[j] = v4[i] /\ Len(w) - j <= Len(v4) - i
  BY <1>2, WithoutKeeps DEF ReloadInv, Reloading
<1> HIDE DEF w
<1>4. /\ v4' \in Seq(HR!Paths) /\ Len(v4') = Len(w) + 1 /\ DOMAIN v4' = 1..(Len(w) + 1)
      /\ v4'[Len(w) + 1] = b /\ DOMAIN w = 1..Len(w) /\ \A i \in 1..Len(w) : v4'[i] = w[i]
      /\ Len(w) \in Nat
  <2>1. w \in Seq(HR!Paths) /\ Len(w) \in Nat /\ DOMAIN w = 1..Len(w)
    BY <1>3, LenProperties
  <2> HIDE DEF b
  <2>2. Append(w, b) \in Seq(HR!Paths) /\ Len(Append(w, b)) = Len(w) + 1
        /\ Append(w, b)[Len(w) + 1] = b /\ \A i \in 1..Len(w) : Append(w, b)[i] = w[i]
    BY <1>2, <2>1
  <2> QED
    BY <1>1, <2>1, <2>2, LenProperties
<1>5. DOMAIN v2' = DOMAIN v2 \cup {b}
  BY <1>1 DEF HR!Put
<1>6. ASSUME NEW i \in DOMAIN v4' PROVE v4'[i] \in DOMAIN v2'
  <2>1. CASE i = Len(w) + 1
    BY <1>4, <1>5, <2>1
  <2>2. CASE i \in 1..Len(w)
    BY <1>3, <1>4, <1>5, <2>2 DEF ReloadInv, Reloading
  <2> QED
    BY <1>4, <2>1, <2>2
<1>7. ASSUME NEW c, NEW n \in Nat, Behind(c, n) PROVE \E i \in DOMAIN v4' : v4'[i] = c /\ Len(v4') - i <= n + 1
  <2>1. CASE c = b
    <3>1. Len(w) + 1 \in DOMAIN v4' /\ Len(v4') - (Len(w) + 1) <= n + 1
      BY <1>4
    <3> QED
      BY <1>4, <2>1, <3>1
  <2>2. CASE c # b
    <3>1. PICK i \in DOMAIN v4 : v4[i] = c /\ Len(v4) - i <= n
      BY <1>7 DEF Behind
    <3>2. PICK j \in DOMAIN w : w[j] = c /\ Len(w) - j <= Len(v4) - i
      BY <1>3, <2>2, <3>1
    <3>3. Len(v4) \in Nat /\ i \in Nat
      BY <3>1, LenProperties DEF ReloadInv, Reloading
    <3>4. j \in DOMAIN v4' /\ v4'[j] = c /\ Len(v4') - j <= n + 1
      BY <1>4, <3>1, <3>2, <3>3
    <3> QED
      BY <3>4
  <2> QED
    BY <2>1, <2>2
<1>8. ASSUME NEW q \in HR!Reloaders
      PROVE  Reloading(q)'
  <2>1. CASE q = r
    <3> DEFINE s == [v9[r] EXCEPT !.at = "cleanup", !.content = None]
    <3>1. v9'[q] = s
      BY <1>1, <2>1
    <3>2. DOMAIN s = StepFields /\ s.newer = v9[r].newer /\ s.backup = b /\ s.at = "cleanup"
      BY DEF ReloadInv, Reloading, StepFields
    <3> HIDE DEF s
    <3>3. s.newer \in Nat
      BY <3>2 DEF ReloadInv, Reloading
    <3>4. Behind(v9[q].backup, v9[q].newer)'
      <4>1. Len(w) + 1 \in DOMAIN v4' /\ v4'[Len(w) + 1] = b /\ Len(v4') - (Len(w) + 1) <= s.newer
        BY <1>4, <3>3
      <4> QED
        BY <3>1, <3>2, <4>1 DEF Behind
    <3> QED
      BY <1>2, <3>1, <3>2, <3>3, <3>4 DEF Reloading
  <2>2. CASE q # r
    <3> DEFINE n == IF HR!BackedUp(q) /\ v9[q].newer < MaxBackups THEN v9[q].newer + 1 ELSE v9[q].newer
               s == [v9[q] EXCEPT !.newer = n]
    <3>1. v9'[q] = s
      BY <1>1, <2>2
    <3>2. n \in Nat
      BY DEF ReloadInv, Reloading
    <3> HIDE DEF n
    <3>3. DOMAIN s = StepFields /\ s.newer = n /\ s.backup = v9[q].backup /\ s.at = v9[q].at
      BY DEF ReloadInv, Reloading, StepFields
    <3> HIDE DEF s
    <3>4. ASSUME HR!BackedUp(q)', n < MaxBackups PROVE Behind(v9[q].backup, v9[q].newer)'
      <4>1. HR!BackedUp(q)
        BY <3>1, <3>3, <3>4 DEF HR!BackedUp
      <4>2. v9[q].newer < MaxBackups /\ n = v9[q].newer + 1 /\ v9[q].newer \in Nat
        BY <3>4, <4>1, ReloadNumbers DEF n, ReloadInv, Reloading
      <4>3. Behind(v9[q].backup, v9[q].newer)
        BY <4>1, <4>2 DEF ReloadInv, Reloading
      <4>4. \E i \in DOMAIN v4' : v4'[i] = v9[q].backup /\ Len(v4') - i <= v9[q].newer + 1
        BY <1>7, <4>2, <4>3
      <4>5. v9'[q].backup = v9[q].backup /\ v9'[q].newer = v9[q].newer + 1
        BY <3>1, <3>3, <4>2
      <4> QED
        BY <4>4, <4>5 DEF Behind
    <3>5. v9[q].at \in {"backup", "cleanup", "read", "import"} => v9[q].backup \in HR!Paths
      BY DEF ReloadInv, Reloading
    <3> QED
      BY <3>1, <3>2, <3>3, <3>4, <3>5 DEF Reloading
  <2> QED
    BY <2>1, <2>2
<1>9. DOMAIN v9' = HR!Reloaders
  BY <1>1
<1> QED
  BY <1>1, <1>4, <1>6, <1>8, <1>9 DEF ReloadInv, Reloading

LEMMA ReloadCleansUp ==
  ASSUME ReloadInv, NEW r \in HR!Reloaders, HR!cleanup_old_backups(r)
  PROVE  ReloadInv'
<1> DEFINE s == [v9[r] EXCEPT !.at = "read"]
           k == HR!Kept(v4)
<1>1. /\ v9[r].at = "cleanup" /\ v1' = v1 /\ v4' = k /\ v9' = [v9 EXCEPT ![r] = s]
      /\ DOMAIN v2' = {p \in DOMAIN v2 : p = HR!Model \/ \E i \in DOMAIN v4' : v4'[i] = p}
  BY DEF HR!cleanup_old_backups
<1>2. /\ k \in Seq(HR!Paths)
      /\ \A i \in DOMAIN k : \E j \in DOMAIN v4 : k[i] = v4[j]
      /\ \A i \in DOMAIN v4 : Len(v4) - i < MaxBackups =>
           \E j \in DOMAIN k : k[j] = v4[i] /\ Len(k) - j <= Len(v4) - i
  BY KeptKeeps DEF ReloadInv, Reloading
<1> HIDE DEF k
<1>3. \A i \in DOMAIN v4' : v4'[i] \in DOMAIN v2'
  BY <1>1, <1>2 DEF ReloadInv, Reloading
<1>4. ASSUME NEW c, NEW n \in Nat, n < MaxBackups, Behind(c, n)
      PROVE  \E i \in DOMAIN v4' : v4'[i] = c /\ Len(v4') - i <= n
  <2>1. PICK i \in DOMAIN v4 : v4[i] = c /\ Len(v4) - i <= n
    BY <1>4 DEF Behind
  <2>2. Len(v4) \in Nat /\ i \in Nat /\ DOMAIN k = 1..Len(k) /\ Len(k) \in Nat
    BY <1>2, <2>1, LenProperties DEF ReloadInv, Reloading
  <2>3. Len(v4) - i < MaxBackups
    BY <1>4, <2>1, <2>2, ReloadNumbers
  <2>4. PICK j \in DOMAIN k : k[j] = v4[i] /\ Len(k) - j <= Len(v4) - i
    BY <1>2, <2>3
  <2>5. Len(k) - j <= n
    BY <2>1, <2>2, <2>4
  <2> QED
    BY <1>1, <2>1, <2>4, <2>5
<1>5. DOMAIN s = StepFields /\ s.newer = v9[r].newer /\ s.backup = v9[r].backup /\ s.at = "read"
  BY DEF ReloadInv, Reloading, StepFields
<1> HIDE DEF s
<1>6. ASSUME NEW q \in HR!Reloaders
      PROVE  Reloading(q)'
  <2>1. /\ DOMAIN v9'[q] = StepFields /\ v9'[q].newer = v9[q].newer /\ v9'[q].backup = v9[q].backup
        /\ v9'[q].at = IF q = r THEN "read" ELSE v9[q].at
    BY <1>1, <1>5 DEF ReloadInv, Reloading
  <2>2. v9[q].newer \in Nat
    BY DEF ReloadInv, Reloading
  <2>3. HR!BackedUp(q)' => HR!BackedUp(q)
    BY <1>1, <2>1 DEF HR!BackedUp
  <2>4. v9'[q].at \in {"backup", "cleanup", "read", "import"} => v9'[q].backup \in HR!Paths
    BY <1>1, <2>1 DEF ReloadInv, Reloading
  <2>5. ASSUME HR!BackedUp(q)', v9'[q].newer < MaxBackups PROVE Behind(v9[q].backup, v9[q].newer)'
    <3>1. Behind(v9[q].backup, v9[q].newer) /\ v9[q].newer < MaxBackups
      BY <2>1, <2>3, <2>5 DEF ReloadInv, Reloading
    <3> QED
      BY <1>4, <2>1, <2>2, <3>1 DEF Behind
  <2> QED
    BY <2>1, <2>2, <2>4, <2>5 DEF Reloading
<1> QED
  BY <1>1, <1>2, <1>3, <1>6 DEF ReloadInv, Reloading

LEMMA ReloadStep ==
  ASSUME ReloadInv, [HR!Next]_(HR!reloadVars)
  PROVE  ReloadInv'
<1> USE DEF HR!fileVars
<1>1. ASSUME v1' \in HR!Seconds, v4' = v4, v9' = v9, DOMAIN v2 \subseteq DOMAIN v2' PROVE ReloadInv'
  BY <1>1 DEF ReloadInv, Reloading, HR!BackedUp, Behind
<1>2. CASE HR!Tick
  BY <1>1, <1>2, ReloadNumbers DEF HR!Tick, HR!Seconds, ReloadInv, Reloading
<1>3. CASE HR!Written(HR!Model)
  BY <1>1, <1>3 DEF HR!Written, HR!Put, ReloadInv, Reloading
<1>4. CASE HR!handle_hot_reload
  <2>1. CASE HR!stop
    BY <1>1, <2>1 DEF HR!stop, ReloadInv, Reloading
  <2>2. CASE HR!force_reload_all
    BY <2>2, ReloadTakes DEF HR!force_reload_all, HR!Reloaders
  <2> QED
    BY <1>4, <2>1, <2>2 DEF HR!handle_hot_reload
<1>5. CASE HR!ProcessStarts
  BY <1>5, ReloadTakes DEF HR!ProcessStarts, HR!Reloaders
<1>6. ASSUME NEW r \in HR!Reloaders, HR!reload_reads(r) PROVE ReloadInv'
  <2>1. v9[r].at = "read" /\ v1' = v1 /\ v2' = v2 /\ v4' = v4 /\ DOMAIN v9[r] = StepFields
        /\ v9[r].newer \in Nat
    BY <1>6 DEF HR!reload_reads, ReloadInv, Reloading
  <2>2. CASE v9[r].path \in DOMAIN v2
    <3> DEFINE s == [v9[r] EXCEPT !.at = "import", !.content = v2[v9[r].path]]
    <3>1. v9' = [v9 EXCEPT ![r] = s]
      BY <1>6, <2>2 DEF HR!reload_reads, ReloadInv, Reloading
    <3>2. DOMAIN s = StepFields /\ s.newer = v9[r].newer /\ s.backup = v9[r].backup /\ s.at = "import"
      BY <2>1 DEF StepFields
    <3> HIDE DEF s
    <3> QED
      BY <2>1, <3>1, <3>2, ReloadMoves DEF HR!BackedUp
  <2>3. CASE v9[r].path \notin DOMAIN v2
    <3>1. v9' = [v9 EXCEPT ![r] = HR!Idle]
      BY <1>6, <2>3 DEF HR!reload_reads
    <3>2. DOMAIN HR!Idle = StepFields /\ HR!Idle.newer \in Nat /\ HR!Idle.at = "idle"
      BY DEF HR!Idle, StepFields
    <3> QED
      BY <2>1, <3>1, <3>2, ReloadMoves
  <2> QED
    BY <2>2, <2>3
<1>7. ASSUME NEW r \in HR!Reloaders, HR!import_patterns(r) \/ HR!update_model_version(r)
      PROVE  ReloadInv'
  <2>1. PICK s \in {HR!Idle, [HR!Idle EXCEPT !.at = "version", !.path = v9[r].path]} :
          v9' = [v9 EXCEPT ![r] = s]
    BY <1>7 DEF HR!import_patterns, HR!update_model_version
  <2>2. v1' = v1 /\ v2' = v2 /\ v4' = v4
    BY <1>7 DEF HR!import_patterns, HR!update_model_version
  <2>3. DOMAIN s = StepFields /\ s.newer \in Nat /\ s.at \in {"idle", "version"}
    <3>1. CASE s = HR!Idle
      BY <3>1 DEF HR!Idle, StepFields
    <3>2. CASE s = [HR!Idle EXCEPT !.at = "version", !.path = v9[r].path]
      BY <3>2 DEF HR!Idle, StepFields
    <3> QED
      BY <3>1, <3>2
  <2> QED
    BY <2>1, <2>2, <2>3, ReloadMoves
<1>8. ASSUME NEW p \in HR!Paths, HR!handle_file_event(p) PROVE ReloadInv'
  BY <1>1, <1>8 DEF HR!handle_file_event, ReloadInv, Reloading
<1>9. CASE UNCHANGED HR!reloadVars
  BY <1>1, <1>9 DEF HR!reloadVars, ReloadInv, Reloading
<1> QED
  BY <1>2, <1>3, <1>4, <1>5, <1>6, <1>7, <1>8, <1>9, ReloadBacksUp, ReloadCleansUp
     DEF HR!Next, HR!Reloads

LEMMA ReloadKeepsBackup == ASSUME ReloadInv PROVE HR!BackupBeforeLoad
  BY DEF ReloadInv, Reloading, Behind, HR!BackupBeforeLoad

-----------------------------------------------------------------------------
(* Registry.  Of the requests that passed, all but those counted in the        *)
(* window came before it began, and all but those and as many as the limit a   *)
(* whole window earlier.                                                       *)
Session == [level : 1..3, in_window : Nat, window_start : Nat]

Paced(now, P, v) ==
  /\ now \in Nat /\ P \in Seq(Nat) /\ v \in Session
  /\ v.window_start <= now /\ v.in_window <= RateLimit
  /\ \A i \in 1..Len(P) : P[i] <= now
  /\ \A i \in 1..Len(P) : i + v.in_window <= Len(P) => P[i] <= v.window_start
  /\ \A i \in 1..Len(P) :
       i + v.in_window + RateLimit <= Len(P) => P[i] + RateWindow <= v.window_start
  /\ \A i \in 1..Len(P) :
       i + 2 * RateLimit <= Len(P) => P[i + 2 * RateLimit] - P[i] >= RateWindow

RegistryInv ==
  /\ v1 \in Nat
  /\ DOMAIN v5 = Requesters
  /\ \A c \in Requesters :
       "at" \in DOMAIN v5[c] /\ (v5[c].at = "rate" => v5[c].session \in Sessions)
  /\ DOMAIN v6 = Sessions
  /\ \A s \in Sessions :
       IF s \in DOMAIN v3 THEN Paced(v1, v6[s], v3[s]) ELSE v6[s] = <<>>

LEMMA RateNumbers == RateLimit \in Nat /\ RateLimit > 0 /\ RateWindow \in Nat
  BY ProvedPartsAssumption DEF CR!RegistryAssumption

LEMMA RegistryStart == ASSUME CR!Init PROVE RegistryInv
<1>1. \A s \in Sessions : IF s \in DOMAIN v3 THEN Paced(v1, v6[s], v3[s]) ELSE v6[s] = <<>>
  BY DEF CR!Init
<1>2. DOMAIN v5 = Requesters /\ \A c \in Requesters : v5[c] = CR!NoRequest
  BY DEF CR!Init
<1>3. "at" \in DOMAIN CR!NoRequest /\ CR!NoRequest.at # "rate"
  BY DEF CR!NoRequest
<1> QED
  BY <1>1, <1>2, <1>3 DEF CR!Init, RegistryInv

(* A session that is new has nothing behind it.                                *)
LEMMA PacedFirst ==
  ASSUME RegistryInv, NEW s \in Sessions
  PROVE  Paced(v1, v6[s], CR!SessionOf(s))
<1>1. CASE s \in DOMAIN v3
  BY <1>1 DEF RegistryInv, CR!SessionOf
<1>2. CASE s \notin DOMAIN v3
  <2> DEFINE v == CR!SessionOf(s)
  <2>1. v = [level |-> 1, in_window |-> 0, window_start |-> v1]
    BY <1>2 DEF CR!SessionOf, CR!Read
  <2>2. v1 \in Nat /\ v6[s] = <<>>
    BY <1>2 DEF RegistryInv
  <2>3. v \in Session /\ v.window_start = v1 /\ v.in_window = 0
    BY <2>1, <2>2 DEF Session
  <2> HIDE DEF v
  <2>4. v6[s] \in Seq(Nat) /\ Len(v6[s]) = 0 /\ 1..0 = {}
    BY <2>2
  <2>5. \A i \in 1..Len(v6[s]) : FALSE
    BY <2>4
  <2>6. v.window_start <= v1 /\ v.in_window <= RateLimit
    BY <2>2, <2>3, RateNumbers
  <2>7. Paced(v1, v6[s], v)
    BY <2>2, <2>3, <2>4, <2>5, <2>6 DEF Paced
  <2> QED
    BY <2>7 DEF v
<1> QED
  BY <1>1, <1>2

LEMMA PacedLater ==
  ASSUME NEW now, NEW P, NEW v, Paced(now, P, v)
  PROVE  Paced(now + 1, P, v)
<1>1. now \in Nat /\ v.window_start \in Nat /\ P \in Seq(Nat)
  BY DEF Paced, Session
<1>2. \A i \in 1..Len(P) : P[i] \in Nat
  BY <1>1
<1> QED
  BY <1>1, <1>2 DEF Paced

(* A window that is over gives way to one that begins now.                     *)
LEMMA PacedAnew ==
  ASSUME NEW P, NEW v, Paced(v1, P, v)
  PROVE  Paced(v1, P, CR!InWindow(v))
<1> DEFINE w == [v EXCEPT !.in_window = 0, !.window_start = v1]
<1>1. CASE v1 - v.window_start >= RateWindow
  <2>1. v \in Session /\ v1 \in Nat
    BY DEF Paced
  <2>2. w \in Session /\ w.in_window = 0 /\ w.window_start = v1
    BY <2>1 DEF Session
  <2>3. v.in_window \in Nat /\ v.window_start \in Nat /\ v.in_window <= RateLimit
        /\ P \in Seq(Nat) /\ Len(P) \in Nat
    BY <2>1 DEF Session, Paced
  <2> HIDE DEF w
  <2>4. ASSUME NEW i \in 1..Len(P), i + w.in_window + RateLimit <= Len(P)
        PROVE  P[i] + RateWindow <= w.window_start
    <3>1. i + v.in_window <= Len(P) /\ P[i] \in Nat
      BY <2>2, <2>3, <2>4, RateNumbers
    <3>2. P[i] <= v.window_start
      BY <3>1 DEF Paced
    <3> QED
      BY <1>1, <2>1, <2>2, <2>3, <3>1, <3>2, RateNumbers
  <2>5. Paced(v1, P, w)
    BY <2>1, <2>2, <2>3, <2>4, RateNumbers DEF Paced
  <2> QED
    BY <1>1, <2>5 DEF CR!InWindow, w
<1>2. CASE ~(v1 - v.window_start >= RateWindow)
  BY <1>2 DEF CR!InWindow
<1> QED
  BY <1>1, <1>2

LEMMA PacedPasses ==
  ASSUME NEW P, NEW v, Paced(v1, P, v), v.in_window < RateLimit
  PROVE  Paced(v1, Append(P, v1), [v EXCEPT !.in_window = @ + 1])
<1> DEFINE w == [v EXCEPT !.in_window = @ + 1]
           Q == Append(P, v1)
<1>1. v \in Session /\ v1 \in Nat /\ P \in Seq(Nat) /\ Len(P) \in Nat
  BY DEF Paced
<1>2. w \in Session /\ w.in_window = v.in_window + 1 /\ w.window_start = v.window_start
      /\ v.in_window \in Nat /\ v.window_start \in Nat
  BY <1>1 DEF Session
<1>3. Q \in Seq(Nat) /\ Len(Q) = Len(P) + 1 /\ Q[Len(P) + 1] = v1
      /\ \A i \in 1..Len(P) : Q[i] = P[i] /\ P[i] \in Nat
  BY <1>1
<1> HIDE DEF w, Q
<1>4. ASSUME NEW i \in 1..Len(Q) PROVE Q[i] <= v1
  BY <1>1, <1>3 DEF Paced
<1>5. ASSUME NEW i \in 1..Len(Q), i + w.in_window <= Len(Q) PROVE Q[i] <= w.window_start
  <2>1. i \in 1..Len(P) /\ i + v.in_window <= Len(P)
    <3>1. i \in Nat /\ i >= 1 /\ i + (v.in_window + 1) <= Len(P) + 1
      BY <1>1, <1>2, <1>3, <1>5
    <3>2. v.in_window \in Nat /\ Len(P) \in Nat
      BY <1>1, <1>2
    <3> QED
      BY <3>1, <3>2
  <2> QED
    BY <1>2, <1>3, <2>1 DEF Paced
<1>6. ASSUME NEW i \in 1..Len(Q), i + w.in_window + RateLimit <= Len(Q)
      PROVE  Q[i] + RateWindow <= w.window_start
  <2>1. i \in 1..Len(P) /\ i + v.in_window + RateLimit <= Len(P)
    <3>1. i \in Nat /\ i >= 1 /\ i + (v.in_window + 1) + RateLimit <= Len(P) + 1
      BY <1>1, <1>2, <1>3, <1>6
    <3>2. v.in_window \in Nat /\ Len(P) \in Nat /\ RateLimit \in Nat
      BY <1>1, <1>2, RateNumbers
    <3> QED
      BY <3>1, <3>2
  <2> QED
    BY <1>2, <1>3, <2>1 DEF Paced
<1>7. ASSUME NEW i \in 1..Len(Q), i + 2 * RateLimit <= Len(Q)
      PROVE  Q[i + 2 * RateLimit] - Q[i] >= RateWindow
  <2>1. i \in 1..Len(P)
    BY <1>1, <1>3, <1>7, RateNumbers
  <2>2. CASE i + 2 * RateLimit <= Len(P)
    <3>1. i + 2 * RateLimit \in 1..Len(P)
      BY <1>1, <2>1, <2>2, RateNumbers
    <3>2. P[i + 2 * RateLimit] - P[i] >= RateWindow
      BY <2>1, <2>2 DEF Paced
    <3> QED
      BY <1>3, <2>1, <3>1, <3>2
  <2>3. CASE i + 2 * RateLimit = Len(P) + 1
    <3>1. i + v.in_window + RateLimit <= Len(P)
      BY <1>1, <1>2, <2>1, <2>3, RateNumbers
    <3>2. P[i] + RateWindow <= v.window_start /\ v.window_start <= v1
      BY <2>1, <3>1 DEF Paced
    <3>3. Q[i] = P[i] /\ Q[i + 2 * RateLimit] = v1 /\ P[i] \in Nat
      BY <1>3, <2>1, <2>3
    <3> QED
      BY <1>1, <1>2, <3>2, <3>3, RateNumbers
  <2>4. i + 2 * RateLimit <= Len(P) + 1 /\ i + 2 * RateLimit \in Nat /\ Len(P) \in Nat
    BY <1>1, <1>3, <1>7, <2>1, RateNumbers
  <2>5. i + 2 * RateLimit <= Len(P) \/ i + 2 * RateLimit = Len(P) + 1
    BY <2>4
  <2> QED
    BY <2>2, <2>3, <2>5
<1>8. w.window_start <= v1 /\ w.in_window <= RateLimit
  BY <1>1, <1>2, RateNumbers DEF Paced
<1>9. Paced(v1, Q, w)
  BY <1>1, <1>2, <1>3, <1>4, <1>5, <1>6, <1>7, <1>8 DEF Paced
<1> QED
  BY <1>9 DEF w, Q

(* Steps that leave the clock, the sessions and what passed alone.             *)
LEMMA RegistryKept ==
  ASSUME RegistryInv, v1' = v1, v3' = v3, v6' = v6, DOMAIN v5' = Requesters,
         \A c \in Requesters :
           "at" \in DOMAIN v5'[c] /\ (v5'[c].at = "rate" => v5'[c].session \in Sessions)
  PROVE  RegistryInv'
BY DEF RegistryInv

(* A request goes on, or is given up.                                          *)
LEMMA RequestMoves ==
  ASSUME RegistryInv, NEW c \in Requesters, NEW r,
         v5' = [v5 EXCEPT ![c] = r],
         r = CR!NoRequest \/ \E at \in {"permission", "exists", "handle"} : r = [v5[c] EXCEPT !.at = at]
  PROVE  /\ DOMAIN v5' = Requesters
         /\ \A d \in Requesters :
              "at" \in DOMAIN v5'[d] /\ (v5'[d].at = "rate" => v5'[d].session \in Sessions)
<1>1. "at" \in DOMAIN r /\ r.at # "rate"
  <2>1. "at" \in DOMAIN CR!NoRequest /\ CR!NoRequest.at # "rate"
    BY DEF CR!NoRequest
  <2>2. ASSUME NEW at \in {"permission", "exists", "handle"}, r = [v5[c] EXCEPT !.at = at]
        PROVE  "at" \in DOMAIN r /\ r.at # "rate"
    BY <2>2 DEF RegistryInv
  <2> QED
    BY <2>1, <2>2
<1> QED
  BY <1>1 DEF RegistryInv

(* One session changes.                                                        *)
LEMMA SessionPut ==
  ASSUME RegistryInv, NEW s \in Sessions, NEW w, v3' = CR!Put(v3, s, w), v1' = v1,
         DOMAIN v6' = Sessions, Paced(v1, v6'[s], w), \A r \in Sessions \ {s} : v6'[r] = v6[r]
  PROVE  \A r \in Sessions : IF r \in DOMAIN v3' THEN Paced(v1', v6'[r], v3'[r]) ELSE v6'[r] = <<>>
<1>1. DOMAIN v3' = DOMAIN v3 \cup {s} /\ v3'[s] = w /\ \A r \in DOMAIN v3 \ {s} : v3'[r] = v3[r]
  BY DEF CR!Put
<1> QED
  BY <1>1 DEF RegistryInv

LEMMA RateIsChecked ==
  ASSUME RegistryInv, NEW c \in Requesters, CR!validate_rate_limit(c)
  PROVE  RegistryInv'
<1> DEFINE s == v5[c].session
           v == CR!InWindow(CR!SessionOf(s))
           passes == v.in_window < RateLimit
           w == [v EXCEPT !.in_window = @ + 1]
<1>1. s \in Sessions /\ v1' = v1
  BY DEF CR!validate_rate_limit, RegistryInv
<1>2. v3' = CR!Put(v3, s, IF passes THEN w ELSE v)
  BY DEF CR!validate_rate_limit
<1>3. v6' = IF passes THEN [v6 EXCEPT ![s] = Append(@, v1)] ELSE v6
  BY DEF CR!validate_rate_limit
<1>4. v5' = [v5 EXCEPT ![c] = IF passes THEN [v5[c] EXCEPT !.at = "permission"] ELSE CR!NoRequest]
  BY DEF CR!validate_rate_limit
<1>5. Paced(v1, v6[s], v)
  BY <1>1, PacedFirst, PacedAnew
<1> HIDE DEF v
<1>6. /\ DOMAIN v5' = Requesters
      /\ \A d \in Requesters :
           "at" \in DOMAIN v5'[d] /\ (v5'[d].at = "rate" => v5'[d].session \in Sessions)
  <2> DEFINE r == IF passes THEN [v5[c] EXCEPT !.at = "permission"] ELSE CR!NoRequest
  <2>1. r = CR!NoRequest
        \/ \E at \in {"permission", "exists", "handle"} : r = [v5[c] EXCEPT !.at = at]
    OBVIOUS
  <2> QED
    BY <1>4, <2>1, RequestMoves
<1>7. CASE passes
  <2>1. Paced(v1, Append(v6[s], v1), w)
    BY <1>5, <1>7, PacedPasses
  <2>2. v6'[s] = Append(v6[s], v1) /\ DOMAIN v6' = Sessions
        /\ \A r \in Sessions \ {s} : v6'[r] = v6[r]
    BY <1>1, <1>3, <1>7 DEF RegistryInv
  <2>3. v3' = CR!Put(v3, s, w)
    BY <1>2, <1>7
  <2> HIDE DEF w, s
  <2>4. \A r \in Sessions : IF r \in DOMAIN v3' THEN Paced(v1', v6'[r], v3'[r]) ELSE v6'[r] = <<>>
    <3>1. Paced(v1, v6'[s], w)
      BY <2>1, <2>2
    <3> QED
      BY <1>1, <2>2, <2>3, <3>1, SessionPut
  <2> QED
    BY <1>1, <1>6, <2>2, <2>4 DEF RegistryInv
<1>8. CASE ~passes
  <2>1. v6' = v6 /\ v3' = CR!Put(v3, s, v)
    BY <1>2, <1>3, <1>8
  <2> HIDE DEF s
  <2> QED
    BY <1>1, <1>5, <1>6, <2>1, SessionPut DEF RegistryInv
<1> QED
  BY <1>7, <1>8

LEMMA RegistryStep ==
  ASSUME RegistryInv, [CR!Next]_(CR!registryVars)
  PROVE  RegistryInv'
<1>1. CASE CR!Tick
  <2>1. v1' = v1 + 1 /\ v3' = v3 /\ v5' = v5 /\ v6' = v6
    BY <1>1 DEF CR!Tick
  <2> QED
    BY <2>1, PacedLater DEF RegistryInv
<1>2. ASSUME NEW h \in DOMAIN Handlers, CR!register(h) PROVE RegistryInv'
  BY <1>2 DEF CR!register, RegistryInv
<1>3. ASSUME NEW c \in Requesters, NEW s \in Sessions, NEW k \in DOMAIN Kinds, NEW e \in SessionEntities,
             NEW size \in RequestSizes, CR!process_with_session(c, s, k, e, size)
      PROVE  RegistryInv'
  <2> DEFINE r == [at |-> "rate", session |-> s, kind |-> k,
                   entity |-> IF Kinds[k].entity THEN e ELSE None, by |-> CR!find_handler(k)]
  <2>1. v1' = v1 /\ v3' = v3 /\ v6' = v6 /\ (v5' = v5 \/ v5' = [v5 EXCEPT ![c] = r])
    BY <1>3 DEF CR!process_with_session
  <2>2. "at" \in DOMAIN r /\ r.session \in Sessions
    OBVIOUS
  <2> HIDE DEF r
  <2> QED
    BY <2>1, <2>2 DEF RegistryInv
<1>4. ASSUME NEW c \in Requesters,
             CR!validate_permissions(c) \/ CR!validate_entity_existence(c) \/ CR!handle(c)
      PROVE  RegistryInv'
  <2>1. v1' = v1 /\ v3' = v3 /\ v6' = v6
    BY <1>4 DEF CR!validate_permissions, CR!validate_entity_existence, CR!handle
  <2>2. PICK r :
          /\ v5' = [v5 EXCEPT ![c] = r]
          /\ r = CR!NoRequest \/ \E at \in {"permission", "exists", "handle"} :
                                  r = [v5[c] EXCEPT !.at = at]
    BY <1>4 DEF CR!validate_permissions, CR!validate_entity_existence, CR!handle
  <2>3. /\ DOMAIN v5' = Requesters
        /\ \A d \in Requesters :
             "at" \in DOMAIN v5'[d] /\ (v5'[d].at = "rate" => v5'[d].session \in Sessions)
    BY <2>2, RequestMoves
  <2> QED
    BY <2>1, <2>3, RegistryKept
<1>5. ASSUME NEW s \in Sessions, NEW level \in 1..3, CR!update_session_permissions(s, level)
      PROVE  RegistryInv'
  <2> DEFINE v == CR!SessionOf(s)
             w == [v EXCEPT !.level = level]
  <2>1. v1' = v1 /\ v3' = CR!Put(v3, s, w) /\ v5' = v5 /\ v6' = v6
    BY <1>5 DEF CR!update_session_permissions
  <2>2. Paced(v1, v6[s], v)
    BY PacedFirst
  <2> HIDE DEF v
  <2>3. w \in Session /\ w.in_window = v.in_window /\ w.window_start = v.window_start
    BY <2>2 DEF Paced, Session
  <2> HIDE DEF w
  <2>4. Paced(v1, v6[s], w)
    BY <2>2, <2>3 DEF Paced
  <2> QED
    BY <2>1, <2>4, SessionPut DEF RegistryInv
<1>6. ASSUME NEW entities \in SUBSET SessionEntities, CR!update_entities(entities) PROVE RegistryInv'
  BY <1>6 DEF CR!update_entities, RegistryInv
<1>7. CASE UNCHANGED CR!registryVars
  BY <1>7 DEF CR!registryVars, RegistryInv
<1> QED
  BY <1>1, <1>2, <1>3, <1>4, <1>5, <1>6, <1>7, RateIsChecked DEF CR!Next

LEMMA RegistryBoundsBursts == ASSUME RegistryInv PROVE CR!BurstBounded
<1> SUFFICES ASSUME NEW s \in Sessions, NEW i \in DOMAIN v6[s],
                    i + 2 * RateLimit \in DOMAIN v6[s]
             PROVE  v6[s][i + 2 * RateLimit] - v6[s][i] >= RateWindow
  BY DEF CR!BurstBounded
<1>1. Paced(v1, v6[s], v3[s])
  BY DEF RegistryInv
<1>2. DOMAIN v6[s] = 1..Len(v6[s])
  BY <1>1, LenProperties DEF Paced
<1> QED
  BY <1>1, <1>2, RateNumbers DEF Paced

-----------------------------------------------------------------------------
(* Pools.  Every push looks for room under the lock that it pushes under; the  *)
(* pools of buffers stay empty, so nobody is handed a used buffer.             *)
Contents == {"clean", "dirty"}
Doing(d) ==
  \/ d = RP!Idle
  \/ d \in [at : {"has", "returning", "pushing"}, pool : RP!PoolIds, obj : Contents]
  \/ d \in [at : {"writes"}, pool : Tiers, obj : Contents, size : BufferSizes]

Clean(d) ==
  /\ d.at \in {"returning", "pushing"} => d.pool \notin Tiers
  /\ d.at \in {"has", "writes"} => (d.pool \in Tiers /\ d.at = "has") \/ d.obj = "clean"

Room(p, s) == s \in Seq(Contents) /\ Len(s) <= PoolLimit /\ (p \in Tiers => s = <<>>)

PoolsInv ==
  /\ DOMAIN v1 = RP!PoolIds /\ \A p \in RP!PoolIds : Room(p, v1[p])
  /\ DOMAIN v3 = Callers /\ \A t \in Callers : Doing(v3[t]) /\ Clean(v3[t])

LEMMA PoolsStart == ASSUME RP!Init PROVE PoolsInv
  BY ProvedPartsAssumption
     DEF RP!PoolsAssumption, RP!Init, PoolsInv, RP!Idle, Doing, Clean, Room

(* One pool and one task at a time change.                                     *)
LEMMA PoolsKept ==
  ASSUME PoolsInv, NEW p \in RP!PoolIds, NEW s, Room(p, s), NEW t \in Callers, NEW d,
         Doing(d), Clean(d), v1' = v1 \/ v1' = [v1 EXCEPT ![p] = s],
         v3' = v3 \/ v3' = [v3 EXCEPT ![t] = d]
  PROVE  PoolsInv'
<1>1. DOMAIN v1' = RP!PoolIds /\ \A q \in RP!PoolIds : Room(q, v1'[q])
  BY DEF PoolsInv
<1>2. DOMAIN v3' = Callers /\ \A u \in Callers : Doing(v3'[u]) /\ Clean(v3'[u])
  BY DEF PoolsInv
<1> QED
  BY <1>1, <1>2 DEF PoolsInv

LEMMA PoolsAcquire ==
  ASSUME PoolsInv, NEW p \in RP!PoolIds, RP!acquire(p)
  PROVE  \E s : Room(p, s) /\ v1' = [v1 EXCEPT ![p] = s]
<1> DEFINE s == IF v1[p] = <<>> THEN v1[p] ELSE SubSeq(v1[p], 1, Len(v1[p]) - 1)
<1>1. v1' = [v1 EXCEPT ![p] = s]
  BY DEF RP!acquire
<1>2. v1[p] \in Seq(Contents) /\ Len(v1[p]) <= PoolLimit /\ (p \in Tiers => v1[p] = <<>>)
  BY DEF PoolsInv, Room
<1>3. CASE v1[p] # <<>>
  <2>1. s = SubSeq(v1[p], 1, Len(v1[p]) - 1)
    BY <1>3
  <2>2. Len(v1[p]) \in Nat /\ Len(v1[p]) > 0
    BY <1>2, <1>3, EmptySeq, LenProperties
  <2>3. s \in Seq(Contents) /\ Len(s) = Len(v1[p]) - 1
    BY <1>2, <2>1, <2>2
  <2>4. Room(p, s)
    BY <1>2, <1>3, <2>2, <2>3, ProvedPartsAssumption DEF Room, RP!PoolsAssumption
  <2> QED
    BY <1>1, <2>4
<1> QED
  BY <1>1, <1>2, <1>3 DEF Room

LEMMA PoolsStep ==
  ASSUME PoolsInv, [RP!Next]_(RP!vars)
  PROVE  PoolsInv'
<1> USE DEF RP!PoolIds
<1>1. ASSUME NEW t \in Callers, NEW p \in GamePools \cup NullPools, RP!Get(t, p) PROVE PoolsInv'
  <2> DEFINE d == [at |-> "has", pool |-> p, obj |-> "clean"]
  <2>1. PICK s : Room(p, s) /\ v1' = [v1 EXCEPT ![p] = s]
    BY <1>1, PoolsAcquire DEF RP!Get
  <2>2. v3' = [v3 EXCEPT ![t] = d]
    BY <1>1 DEF RP!Get, RP!Reset
  <2>3. Doing(d) /\ Clean(d)
    BY DEF Doing, Clean, Contents
  <2> QED
    BY <2>1, <2>2, <2>3, PoolsKept
<1>2. ASSUME NEW t \in Callers, RP!Return(t), v3[t].at = "has" => v3[t].pool \notin Tiers
      PROVE  PoolsInv'
  <2> DEFINE d == [v3[t] EXCEPT !.at = "returning", !.obj = "dirty"]
  <2>1. v3' = [v3 EXCEPT ![t] = d] /\ v1' = v1 /\ v3[t].at = "has"
    BY <1>2 DEF RP!Return
  <2>2. v3[t] \in [at : {"has", "returning", "pushing"}, pool : RP!PoolIds, obj : Contents]
    BY <2>1 DEF PoolsInv, Doing, RP!Idle
  <2>3. Doing(d) /\ Clean(d)
    BY <1>2, <2>1, <2>2 DEF Doing, Clean, Contents
  <2> QED
    BY <2>1, <2>2, <2>3, PoolsKept DEF PoolsInv
<1>3. ASSUME NEW t \in Callers, RP!Keep(t) \/ RP!Dropped(t) PROVE PoolsInv'
  <2>1. v3' = [v3 EXCEPT ![t] = RP!Idle] /\ v1' = v1 /\ v3[t].at = "has"
    BY <1>3 DEF RP!Keep, RP!Dropped, RP!ThreadHasRuntime
  <2>2. v3[t].pool \in RP!PoolIds
    BY <2>1 DEF PoolsInv, Doing, RP!Idle
  <2>3. Doing(RP!Idle) /\ Clean(RP!Idle)
    BY DEF Doing, Clean, RP!Idle
  <2> QED
    BY <2>1, <2>2, <2>3, PoolsKept DEF PoolsInv
<1>4. ASSUME NEW t \in Callers, RP!LooksAtSize(t) PROVE PoolsInv'
  <2> DEFINE d == IF v2[v3[t].pool] < PoolLimit THEN [v3[t] EXCEPT !.at = "pushing"] ELSE RP!Idle
  <2>1. v3' = [v3 EXCEPT ![t] = d] /\ v1' = v1 /\ v3[t].at = "returning"
    BY <1>4 DEF RP!LooksAtSize
  <2>2. v3[t] \in [at : {"has", "returning", "pushing"}, pool : RP!PoolIds, obj : Contents]
    BY <2>1 DEF PoolsInv, Doing, RP!Idle
  <2>3. Clean(v3[t])
    BY DEF PoolsInv
  <2>4. Doing(d) /\ Clean(d)
    BY <2>1, <2>2, <2>3 DEF Doing, Clean, RP!Idle
  <2> QED
    BY <2>1, <2>2, <2>4, PoolsKept DEF PoolsInv
<1>5. ASSUME NEW t \in Callers, RP!Pushes(t) PROVE PoolsInv'
  <2> DEFINE p == v3[t].pool
             s == IF Len(v1[p]) < PoolLimit THEN Append(v1[p], v3[t].obj) ELSE v1[p]
  <2>1. v3' = [v3 EXCEPT ![t] = RP!Idle] /\ v3[t].at = "pushing"
    BY <1>5 DEF RP!Pushes
  <2>2. v3[t] \in [at : {"has", "returning", "pushing"}, pool : RP!PoolIds, obj : Contents]
    BY <2>1 DEF PoolsInv, Doing, RP!Idle
  <2>3. p \notin Tiers /\ Room(p, v1[p])
    BY <2>1, <2>2 DEF PoolsInv, Clean
  <2>4. Room(p, s)
    BY <2>2, <2>3, ProvedPartsAssumption DEF Room, RP!PoolsAssumption
  <2>5. v1' = v1 \/ v1' = [v1 EXCEPT ![p] = s]
    BY <1>5 DEF RP!Pushes, RP!Pushed, RP!HasRoom
  <2>6. Doing(RP!Idle) /\ Clean(RP!Idle)
    BY DEF Doing, Clean, RP!Idle
  <2> QED
    BY <2>1, <2>2, <2>4, <2>5, <2>6, PoolsKept
<1>6. ASSUME NEW t \in Callers, NEW est \in BufferSizes, RP!acquire_buffer(t, est) PROVE PoolsInv'
  <2> DEFINE p == TierOf(est)
             d == [at |-> "writes", pool |-> p, obj |-> "clean", size |-> est]
  <2>1. p \in Tiers
    BY ProvedPartsAssumption DEF RP!PoolsAssumption
  <2>2. PICK s : Room(p, s) /\ v1' = [v1 EXCEPT ![p] = s]
    BY <1>6, <2>1, PoolsAcquire DEF RP!acquire_buffer
  <2>3. RP!Top(p) = "clean"
    BY <2>1 DEF PoolsInv, Room, RP!Top
  <2>4. v3' = [v3 EXCEPT ![t] = d]
    BY <1>6, <2>3 DEF RP!acquire_buffer
  <2>5. Doing(d) /\ Clean(d)
    BY <2>1 DEF Doing, Clean, Contents
  <2> QED
    BY <2>1, <2>2, <2>4, <2>5, PoolsKept
<1>7. ASSUME NEW t \in Callers, NEW actual \in BufferSizes, RP!serialize_json(t, actual)
      PROVE  PoolsInv'
  <2> DEFINE d == [at |-> "has", pool |-> v3[t].pool, obj |-> "dirty"]
  <2>1. v3' = [v3 EXCEPT ![t] = d] /\ v1' = v1 /\ v3[t].at = "writes"
    BY <1>7 DEF RP!serialize_json
  <2>2. v3[t].pool \in Tiers
    BY <2>1 DEF PoolsInv, Doing, RP!Idle
  <2>3. Doing(d) /\ Clean(d)
    BY <2>2 DEF Doing, Clean, Contents
  <2> QED
    BY <2>1, <2>2, <2>3, PoolsKept DEF PoolsInv
<1>8. ASSUME NEW p \in GamePools, RP!WarmUp(p) PROVE PoolsInv'
  <2> DEFINE kept == IF Len(v1[p]) > WarmCount
                     THEN SubSeq(v1[p], 1, Len(v1[p]) - WarmCount) ELSE <<>>
             n == IF Len(kept) + WarmCount > PoolLimit THEN PoolLimit - Len(kept) ELSE WarmCount
             fresh == [i \in 1..n |-> "clean"]
  <2>1. v1' = [v1 EXCEPT ![p] = kept \o fresh] /\ v3' = v3
    BY <1>8 DEF RP!WarmUp
  <2>2. v1[p] \in Seq(Contents) /\ Len(v1[p]) <= PoolLimit /\ p \notin Tiers
    BY ProvedPartsAssumption DEF PoolsInv, Room, RP!PoolsAssumption
  <2>3. kept \in Seq(Contents) /\ Len(kept) <= PoolLimit
    BY <2>2, ProvedPartsAssumption DEF RP!PoolsAssumption
  <2> HIDE DEF kept
  <2>4. n \in Nat /\ Len(kept) + n <= PoolLimit
    BY <2>3, ProvedPartsAssumption, LenProperties DEF RP!PoolsAssumption
  <2> HIDE DEF n
  <2>5. fresh \in Seq(Contents) /\ Len(fresh) = n
    BY <2>4 DEF Contents
  <2> HIDE DEF fresh
  <2>6. Room(p, kept \o fresh)
    BY <2>2, <2>3, <2>4, <2>5, ConcatProperties DEF Room
  <2> QED
    BY <2>1, <2>6 DEF PoolsInv
<1>9. CASE UNCHANGED RP!vars
  BY <1>9 DEF RP!vars, PoolsInv
<1> QED
  BY <1>1, <1>2, <1>3, <1>4, <1>5, <1>6, <1>7, <1>8, <1>9 DEF RP!Next

LEMMA PoolsKeepToLimit == ASSUME PoolsInv PROVE RP!PooledWithinLimit /\ RP!HandedOutClean
  BY DEF PoolsInv, Room, Clean, RP!PooledWithinLimit, RP!HandedOutClean

-----------------------------------------------------------------------------
(* The deadlock detector.                                                      *)
(* Threads that wait, and are told that nothing is wrong.                      *)
Unaware(t) == v4[t] # <<>> /\ ~v6[t] /\ ~v7[t]

(* The threads of a set that wait for a guard of one of the set.               *)
WaitsIn(t, S) == \E u \in S : \E g \in v5[u] : g[1] = v4[t][1]

(* What is recorded of a thread is at least what it holds, so a thread that    *)
(* waits has its edges in the graph; and threads that wait for each other,     *)
(* whatever the modes of their guards, are not all unaware.                    *)
DetectorTypes ==
  /\ v1 \in [LockThreads -> Seq(TrackedLocks)]
  /\ v2 \subseteq TrackedLocks \X TrackedLocks
  /\ v4 \in [LockThreads -> (TrackedLocks \X LockModes) \cup {<<>>}]
  /\ v5 \in [LockThreads -> SUBSET (TrackedLocks \X LockModes)]
  /\ v6 \in [LockThreads -> BOOLEAN]
  /\ v7 \in [LockThreads -> BOOLEAN]
  /\ \A t \in LockThreads : v6[t] => v4[t] # <<>>

HeldRecorded ==
  \A t \in LockThreads : \A g \in v5[t] : g[1] \in KeysIn(v1[t]) \/ (v6[t] /\ g = v4[t])

EdgesRecorded ==
  \A t \in LockThreads : Unaware(t) => \A g \in v5[t] : <<g[1], v4[t][1]>> \in v2

NoneUnaware ==
  \A S \in SUBSET LockThreads :
    S # {} /\ (\A t \in S : Unaware(t)) => \E t \in S : ~WaitsIn(t, S)

DeadlocksInv == DetectorTypes /\ HeldRecorded /\ EdgesRecorded /\ NoneUnaware

(* What the walk from a lock sees is closed under the edges of the graph.      *)
LEMMA ReachableIsClosed ==
  ASSUME NEW g \in SUBSET (TrackedLocks \X TrackedLocks), NEW l \in TrackedLocks
  PROVE  /\ l \in DD!Reachable(g, l)
         /\ \A e \in g : e[1] \in DD!Reachable(g, l) => e[2] \in DD!Reachable(g, l)
  BY DEF DD!Reachable

(* Nothing but the lock that is dropped leaves a record.                       *)
LEMMA ReleaseKeepsOthers ==
  ASSUME NEW S, NEW s \in Seq(S), NEW l
  PROVE  DD!Without(s, l) \in Seq(S) /\ KeysIn(DD!Without(s, l)) = KeysIn(s) \ {l}
<1>1. \A x : x \in {l} <=> x = l
  OBVIOUS
<1>2. DD!Without(s, l) = CC!Without(s, {l})
  BY DEF DD!Without, CC!Without
<1> QED
  BY <1>2, WithoutLeaves

LEMMA DeadlocksStart == ASSUME DD!Init PROVE DeadlocksInv
  BY DEF DD!Init, DeadlocksInv, DetectorTypes, HeldRecorded, EdgesRecorded, NoneUnaware, Unaware

(* The edges of an attempt: one from each lock in the record.                  *)
LEMMA EdgesOfAll ==
  ASSUME DetectorTypes, NEW t \in LockThreads, NEW l \in TrackedLocks, NEW n \in 0..Len(v1[t])
  PROVE  /\ DD!EdgesUpTo(t, l, n) \subseteq TrackedLocks \X TrackedLocks
         /\ n = Len(v1[t]) => \A k \in KeysIn(v1[t]) : <<k, l>> \in DD!EdgesUpTo(t, l, n)
<1>1. v1[t] \in Seq(TrackedLocks) /\ Len(v1[t]) \in Nat
  BY LenProperties DEF DetectorTypes
<1>2. \A i \in 1..n : i \in 1..Len(v1[t])
  BY <1>1
<1>3. \A i \in 1..n : v1[t][i] \in TrackedLocks
  BY <1>1, <1>2, ElementOfSeq
<1>4. DD!EdgesUpTo(t, l, n) \subseteq TrackedLocks \X TrackedLocks
  BY <1>3 DEF DD!EdgesUpTo
<1> QED
  BY <1>4 DEF DD!EdgesUpTo, KeysIn

(* An attempt after which the walk sees no lock twice adds all its edges, and  *)
(* none of them leads back.                                                    *)
LEMMA UnreportedAttempt ==
  ASSUME DetectorTypes, NEW t \in LockThreads, NEW l \in TrackedLocks, NEW m \in LockModes,
         DD!register_lock_attempt(t, l, m)
  PROVE  /\ v2' \subseteq TrackedLocks \X TrackedLocks /\ v2 \subseteq v2'
         /\ v7' \in [LockThreads -> BOOLEAN]
         /\ \A u \in LockThreads : u # t => v7'[u] = v7[u]
         /\ ~v7'[t] =>
              /\ \A k \in KeysIn(v1[t]) : <<k, l>> \in v2'
              /\ KeysIn(v1[t]) # {} =>
                   \A e \in v2' : e[1] \in DD!Reachable(v2', l) => e[2] # l
<1> DEFINE hits == {n \in DOMAIN v1[t] : DD!Reports(t, l, n)}
           least == CHOOSE n \in hits : \A k \in hits : n <= k
           N == Len(v1[t])
<1>1. v1[t] \in Seq(TrackedLocks) /\ N \in Nat /\ DOMAIN v1[t] = 1..N
  BY LenProperties DEF DetectorTypes
<1>2. CASE hits = {}
  <2>1. v2' = v2 \cup DD!EdgesUpTo(t, l, N) /\ v7' = [v7 EXCEPT ![t] = FALSE]
    BY <1>2 DEF DD!register_lock_attempt
  <2>2. /\ DD!EdgesUpTo(t, l, N) \subseteq TrackedLocks \X TrackedLocks
        /\ \A k \in KeysIn(v1[t]) : <<k, l>> \in DD!EdgesUpTo(t, l, N)
    BY <1>1, EdgesOfAll
  <2>3. ASSUME KeysIn(v1[t]) # {}, NEW e \in v2', e[1] \in DD!Reachable(v2', l), e[2] = l
        PROVE  FALSE
    <3>1. N \in DOMAIN v1[t]
      BY <1>1, <2>3 DEF KeysIn
    <3>2. DD!Reports(t, l, N)
      BY <2>1, <2>3 DEF DD!Reports, DD!has_cycle_from
    <3> QED
      BY <1>2, <3>1, <3>2
  <2> QED
    BY <2>1, <2>2, <2>3 DEF DetectorTypes
<1>3. CASE hits # {}
  <2>1. hits \in SUBSET Nat
    BY <1>1
  <2>2. PICK n \in hits : \A k \in Nat : k < n => k \notin hits
    BY <1>3, <2>1, LeastNatural
  <2>3. n \in hits /\ \A k \in hits : n <= k
    BY <2>1, <2>2
  <2>4. least \in hits
    BY <2>3, Zenon
  <2>5. v2' = v2 \cup DD!EdgesUpTo(t, l, least) /\ v7' = [v7 EXCEPT ![t] = TRUE]
    BY <1>3 DEF DD!register_lock_attempt
  <2> HIDE DEF least
  <2>6. least \in 0..N
    BY <1>1, <2>4
  <2>7. DD!EdgesUpTo(t, l, least) \subseteq TrackedLocks \X TrackedLocks
    BY <2>6, EdgesOfAll
  <2> QED
    BY <2>5, <2>7 DEF DetectorTypes
<1> QED
  BY <1>2, <1>3

(* No order of attempts keeps a circle of waiting threads unaware: the last of *)
(* them to try would have met the edges of the others on its walk.             *)
LEMMA AttemptKeepsInv ==
  ASSUME DeadlocksInv, NEW t \in LockThreads, NEW l \in TrackedLocks, NEW m \in LockModes,
         DD!register_lock_attempt(t, l, m)
  PROVE  DeadlocksInv'
<1> USE DEF DeadlocksInv
<1>1. /\ v4' = [v4 EXCEPT ![t] = <<l, m>>] /\ v1' = v1 /\ v5' = v5 /\ v6' = v6
      /\ v4[t] = <<>>
  BY DEF DD!register_lock_attempt
<1>2. ~v6[t]
  BY <1>1 DEF DetectorTypes
<1>3. /\ v4'[t] = <<l, m>> /\ v4'[t][1] = l /\ v4'[t] # <<>>
      /\ \A u \in LockThreads : u # t => v4'[u] = v4[u]
  BY <1>1 DEF DetectorTypes
<1>4. DetectorTypes'
  BY <1>1, <1>2, UnreportedAttempt DEF DetectorTypes
<1>5. HeldRecorded'
  BY <1>1, <1>2, <1>3 DEF HeldRecorded
<1>6. \A u \in LockThreads : u # t => (Unaware(u)' <=> Unaware(u))
  BY <1>1, <1>3, UnreportedAttempt DEF Unaware
<1>7. \A g \in v5[t] : g[1] \in KeysIn(v1[t])
  BY <1>2 DEF HeldRecorded
<1>8. ASSUME Unaware(t)' PROVE \A k \in KeysIn(v1[t]) : <<k, l>> \in v2'
  BY <1>8, UnreportedAttempt DEF Unaware
<1>9. EdgesRecorded'
  <2>1. ASSUME NEW u \in LockThreads, Unaware(u)', NEW g \in v5[u]
        PROVE  <<g[1], v4'[u][1]>> \in v2'
    <3>1. CASE u = t
      BY <1>3, <1>7, <1>8, <2>1, <3>1
    <3>2. CASE u # t
      BY <1>3, <1>6, <2>1, <3>2, UnreportedAttempt DEF EdgesRecorded
    <3> QED
      BY <3>1, <3>2
  <2> QED
    BY <1>1, <2>1 DEF EdgesRecorded
<1>10. ASSUME NEW S \in SUBSET LockThreads, S # {}, \A u \in S : Unaware(u)',
              \A u \in S : WaitsIn(u, S)'
       PROVE  FALSE
  <2>1. \A A \in SUBSET (S \ {t}) : A # {} => \E u \in A : ~WaitsIn(u, A)
    BY <1>6, <1>10 DEF NoneUnaware
  <2>2. \A u \in S : \E w \in S : \E g \in v5[w] : g[1] = v4'[u][1]
    BY <1>1, <1>10 DEF WaitsIn
  <2>3. t \in S
    <3>1. ASSUME t \notin S PROVE \A u \in S : WaitsIn(u, S)
      BY <1>3, <2>2, <3>1 DEF WaitsIn
    <3> QED
      BY <1>10, <2>1, <3>1
  <2>4. Unaware(t)'
    BY <1>10, <2>3
  <2> DEFINE R == DD!Reachable(v2', l)
             A == {u \in S \ {t} : v4[u][1] \in R}
  <2>5. l \in R /\ \A e \in v2' : e[1] \in R => e[2] \in R
    BY UnreportedAttempt, ReachableIsClosed
  <2>6. \A u \in S : \A g \in v5[u] : <<g[1], v4'[u][1]>> \in v2'
    BY <1>1, <1>9, <1>10 DEF EdgesRecorded
  <2>7. \A g \in v5[t] : g[1] \notin R
    <3>1. ASSUME NEW g \in v5[t], g[1] \in R PROVE FALSE
      <4>1. <<g[1], l>> \in v2' /\ KeysIn(v1[t]) # {}
        BY <1>7, <1>8, <2>4, <3>1
      <4>2. ~v7'[t]
        BY <2>4 DEF Unaware
      <4>3. \A e \in v2' : e[1] \in DD!Reachable(v2', l) => e[2] # l
        BY <4>1, <4>2, UnreportedAttempt
      <4> HIDE DEF R
      <4>4. <<g[1], l>>[1] \in R /\ <<g[1], l>>[2] = l
        BY <3>1
      <4> QED
        BY <4>1, <4>3, <4>4 DEF R
    <3> QED
      BY <3>1
  <2> HIDE DEF R
  <2>8. ASSUME NEW u \in S, v4'[u][1] \in R
        PROVE  \E w \in A : \E g \in v5[w] : g[1] = v4'[u][1]
    <3>1. PICK w \in S : \E g \in v5[w] : g[1] = v4'[u][1]
      BY <2>2
    <3>2. PICK g \in v5[w] : g[1] = v4'[u][1]
      BY <3>1
    <3>3. w # t
      BY <2>7, <2>8, <3>2
    <3>4. <<g[1], v4'[w][1]>> \in v2' /\ g[1] \in R
      BY <2>6, <2>8, <3>2
    <3>5. v4'[w][1] \in R
      BY <2>5, <3>4
    <3> QED
      BY <1>3, <3>2, <3>3, <3>5
  <2>9. A # {}
    BY <1>3, <2>3, <2>5, <2>8
  <2>10. \A u \in A : WaitsIn(u, A)
    BY <1>3, <2>8 DEF WaitsIn
  <2> QED
    BY <2>1, <2>9, <2>10
<1>11. NoneUnaware'
  BY <1>10 DEF NoneUnaware
<1> QED
  BY <1>4, <1>5, <1>9, <1>11

(* A step that makes no thread wait, and gives and records of no waiting       *)
(* thread another guard, makes no new circle.                                  *)
LEMMA OthersKeepInv ==
  ASSUME NEW t \in LockThreads, DeadlocksInv, DetectorTypes', HeldRecorded',
         v2' = v2, v7' = v7, ~Unaware(t)',
         \A u \in LockThreads : u # t => v4'[u] = v4[u] /\ v6'[u] = v6[u] /\ v5'[u] = v5[u]
  PROVE  DeadlocksInv'
<1> USE DEF DeadlocksInv
<1>1. \A u \in LockThreads : Unaware(u)' => u # t /\ Unaware(u)
  BY DEF Unaware
<1>2. EdgesRecorded'
  BY <1>1 DEF EdgesRecorded
<1>3. ASSUME NEW S \in SUBSET LockThreads, S # {}, \A u \in S : Unaware(u)',
             \A u \in S : WaitsIn(u, S)'
      PROVE  FALSE
  <2>1. \A u \in S : Unaware(u) /\ v5'[u] = v5[u] /\ v4'[u] = v4[u]
    BY <1>1, <1>3
  <2>2. \A u \in S : WaitsIn(u, S)
    BY <1>3, <2>1 DEF WaitsIn
  <2> QED
    BY <1>3, <2>1, <2>2 DEF NoneUnaware
<1>4. NoneUnaware'
  BY <1>3 DEF NoneUnaware
<1> QED
  BY <1>2, <1>4

LEMMA DeadlocksStep ==
  ASSUME DeadlocksInv, [DD!Next]_(DD!vars)
  PROVE  DeadlocksInv'
<1> USE DEF DeadlocksInv
<1>1. ASSUME NEW t \in LockThreads, NEW l \in TrackedLocks, NEW m \in LockModes,
             DD!register_lock_attempt(t, l, m)
      PROVE  DeadlocksInv'
  BY <1>1, AttemptKeepsInv
<1>2. ASSUME NEW t \in LockThreads, DD!Granted(t) PROVE DeadlocksInv'
  <2>1. /\ v6' = [v6 EXCEPT ![t] = TRUE] /\ v5' = [v5 EXCEPT ![t] = @ \cup {v4[t]}]
        /\ v1' = v1 /\ v2' = v2 /\ v4' = v4 /\ v7' = v7 /\ v4[t] # <<>>
    BY <1>2 DEF DD!Granted
  <2>2. DetectorTypes'
    BY <2>1 DEF DetectorTypes
  <2>3. HeldRecorded' /\ ~Unaware(t)'
    BY <2>1 DEF DetectorTypes, HeldRecorded, Unaware
  <2> QED
    BY <2>1, <2>2, <2>3, OthersKeepInv DEF DetectorTypes
<1>3. ASSUME NEW t \in LockThreads, DD!register_lock_acquired(t) PROVE DeadlocksInv'
  <2>1. /\ v1' = [v1 EXCEPT ![t] = Append(@, v4[t][1])] /\ v4' = [v4 EXCEPT ![t] = <<>>]
        /\ v6' = [v6 EXCEPT ![t] = FALSE] /\ v2' = v2 /\ v5' = v5 /\ v7' = v7 /\ v6[t]
    BY <1>3 DEF DD!register_lock_acquired
  <2>2. v4[t] \in TrackedLocks \X LockModes /\ v4[t][1] \in TrackedLocks
    BY <2>1 DEF DetectorTypes
  <2>3. /\ Append(v1[t], v4[t][1]) \in Seq(TrackedLocks)
        /\ KeysIn(Append(v1[t], v4[t][1])) = KeysIn(v1[t]) \cup {v4[t][1]}
    BY <2>2, Appended DEF DetectorTypes
  <2>4. DetectorTypes'
    BY <2>1, <2>3 DEF DetectorTypes
  <2>5. HeldRecorded'
    <3>1. ASSUME NEW u \in LockThreads, NEW g \in v5[u]
          PROVE  g[1] \in KeysIn(v1'[u]) \/ (v6'[u] /\ g = v4'[u])
      <4>1. CASE u = t
        BY <2>1, <2>3, <4>1 DEF DetectorTypes, HeldRecorded
      <4>2. CASE u # t
        BY <2>1, <4>2 DEF DetectorTypes, HeldRecorded
      <4> QED
        BY <4>1, <4>2
    <3> QED
      BY <2>1, <3>1 DEF HeldRecorded
  <2>6. ~Unaware(t)'
    BY <2>1 DEF DetectorTypes, Unaware
  <2> QED
    BY <2>1, <2>4, <2>5, <2>6, OthersKeepInv DEF DetectorTypes
<1>4. ASSUME NEW t \in LockThreads, DD!GuardDropped(t) PROVE DeadlocksInv'
  <2>1. PICK g \in v5[t] : v5' = [v5 EXCEPT ![t] = @ \ {g}]
    BY <1>4 DEF DD!GuardDropped
  <2>2. v1' = v1 /\ v2' = v2 /\ v4' = v4 /\ v6' = v6 /\ v7' = v7 /\ v4[t] = <<>>
    BY <1>4 DEF DD!GuardDropped
  <2>3. DetectorTypes'
    BY <2>1, <2>2 DEF DetectorTypes
  <2>4. HeldRecorded' /\ ~Unaware(t)'
    BY <2>1, <2>2 DEF DetectorTypes, HeldRecorded, Unaware
  <2> QED
    BY <2>1, <2>2, <2>3, <2>4, OthersKeepInv DEF DetectorTypes
<1>5. ASSUME NEW t \in LockThreads, NEW l \in TrackedLocks, DD!register_lock_released(t, l)
      PROVE  DeadlocksInv'
  <2>1. /\ v1' = [v1 EXCEPT ![t] = DD!Without(@, l)] /\ v2' = v2 /\ v4' = v4 /\ v5' = v5
        /\ v6' = v6 /\ v7' = v7 /\ v4[t] = <<>>
        /\ \A u \in LockThreads : \A g \in v5[u] : g[1] # l
    BY <1>5 DEF DD!register_lock_released
  <2>2. /\ DD!Without(v1[t], l) \in Seq(TrackedLocks)
        /\ KeysIn(DD!Without(v1[t], l)) = KeysIn(v1[t]) \ {l}
    BY ReleaseKeepsOthers DEF DetectorTypes
  <2>3. DetectorTypes'
    BY <2>1, <2>2 DEF DetectorTypes
  <2>4. HeldRecorded'
    <3>1. ASSUME NEW u \in LockThreads, NEW g \in v5[u]
          PROVE  g[1] \in KeysIn(v1'[u]) \/ (v6'[u] /\ g = v4'[u])
      <4>1. CASE u = t
        BY <2>1, <2>2, <4>1 DEF DetectorTypes, HeldRecorded
      <4>2. CASE u # t
        BY <2>1, <4>2 DEF DetectorTypes, HeldRecorded
      <4> QED
        BY <4>1, <4>2
    <3> QED
      BY <2>1, <3>1 DEF HeldRecorded
  <2>5. ~Unaware(t)'
    BY <2>1 DEF Unaware
  <2> QED
    BY <2>1, <2>3, <2>4, <2>5, OthersKeepInv
<1>6. CASE UNCHANGED DD!vars
  <2>1. v1' = v1 /\ v2' = v2 /\ v4' = v4 /\ v5' = v5 /\ v6' = v6 /\ v7' = v7
    BY <1>6 DEF DD!vars
  <2>2. DetectorTypes'
    BY <2>1 DEF DetectorTypes
  <2>3. HeldRecorded' /\ EdgesRecorded'
    BY <2>1 DEF HeldRecorded, EdgesRecorded, Unaware
  <2>4. NoneUnaware'
    <3>1. \A t : Unaware(t)' <=> Unaware(t)
      BY <2>1 DEF Unaware
    <3>2. \A t, S : WaitsIn(t, S)' <=> WaitsIn(t, S)
      BY <2>1 DEF WaitsIn
    <3> QED
      BY <3>1, <3>2 DEF NoneUnaware
  <2> QED
    BY <2>2, <2>3, <2>4
<1> QED
  BY <1>1, <1>2, <1>3, <1>4, <1>5, <1>6 DEF DD!Next

(* Threads that block each other, one of them was reported.                    *)
LEMMA DetectorReports == ASSUME DeadlocksInv PROVE DD!DeadlocksReported
<1>1. ASSUME NEW S \in SUBSET LockThreads, DD!Deadlocked(S), \A t \in S : ~v7[t]
      PROVE  FALSE
  <2>1. \A t \in S : Unaware(t) /\ WaitsIn(t, S)
    BY <1>1 DEF DD!Deadlocked, DD!Blocks, Unaware, WaitsIn
  <2> QED
    BY <1>1, <2>1 DEF DD!Deadlocked, DeadlocksInv, NoneUnaware
<1> QED
  BY <1>1 DEF DD!DeadlocksReported

-----------------------------------------------------------------------------
(* The issue detector.  The alerts that are kept are looked at as a set: what  *)
(* is proved of two of them does not depend on their order.                    *)
AlertRecord == [id : Nat, pattern : IssuePatterns, at : Nat, from : Nat,
                throttled : Nat \cup {None}, acknowledged : BOOLEAN]

Detection == [at : {"idle", "criteria", "record", "throttle", "count"},
              pattern : IssuePatterns \cup {None}, from : Nat, id : Nat]

(* A detection of an issue, that began at `from`, is apart from an alert.      *)
ApartFrom(a, pattern, from) ==
  a.pattern = pattern /\ a.throttled # None =>
    from >= a.throttled + AlertThrottle \/ from <= a.throttled

(* The throttling knows of an alert that was entered there.                    *)
Entered(a, now, throttle) ==
  a.throttled # None =>
    /\ a.throttled <= now
    /\ a.pattern \in DOMAIN throttle
    /\ throttle[a.pattern] \in Nat /\ throttle[a.pattern] >= a.throttled

IssuesTypes ==
  /\ v1 \in Nat /\ v7 \in Nat
  /\ v3 \in Seq(AlertRecord)
  /\ v6 \in [ID!Detectors -> Detection]
  /\ \A d \in ID!Detectors : /\ v6[d].at # "idle" => v6[d].pattern \in IssuePatterns
                             /\ v6[d].from <= v1 /\ v6[d].id <= v7

AlertsApart ==
  /\ \A a \in KeysIn(v3) : a.from <= v1 /\ a.id <= v7 /\ Entered(a, v1, v4)
  /\ \A a, b \in KeysIn(v3) : ApartFrom(a, b.pattern, b.from)
  /\ \A a \in KeysIn(v3) : \A d \in ID!Detectors :
       v6[d].at # "idle" =>
         /\ ApartFrom(a, v6[d].pattern, v6[d].from)
         /\ v6[d].at = "throttle" /\ v6[d].id = a.id => v6[d].pattern = a.pattern

MonitorsTold ==
  /\ v8 \in Nat /\ v9 \in (1..v8) \cup {None}
  /\ v12 \in [ID!Tasks -> {"none", "tick", "check", "done"}]
  /\ \A t \in ID!Tasks : t > v8 => v12[t] = "none"
  /\ v13 \in ID!Tasks => v12[v13] = "check"
  /\ v10 # None => v9 = None
  /\ v10 = None => (v15 <=> v9 # None)
  /\ \A t \in ID!Tasks : v12[t] \notin {"none", "done"} => t = v9 \/ t \in v11

IssuesInv == IssuesTypes /\ AlertsApart /\ MonitorsTold

LEMMA IssueConstants ==
  /\ KeptAlerts \in Nat /\ AlertThrottle \in Nat /\ MaxMonitors \in Nat
  /\ None \notin Nat /\ IssueChecks \in Seq(IssuePatterns)
  BY ProvedPartsAssumption DEF ID!IssuesAssumption

LEMMA IssuesStart == ASSUME ID!Init PROVE IssuesInv
<1>1. KeysIn(<<>>) = {} /\ <<>> \in Seq(AlertRecord)
  BY DEF KeysIn
<1>2. IssuesTypes
  BY <1>1 DEF ID!Init, ID!NoDetection, Detection, IssuesTypes
<1>3. AlertsApart
  BY <1>1 DEF ID!Init, AlertsApart
<1>4. MonitorsTold
  BY IssueConstants DEF ID!Init, MonitorsTold, ID!Tasks
<1> QED
  BY <1>2, <1>3, <1>4 DEF IssuesInv

(* Every entry of a sequence changed in one way.                               *)
LEMMA EntriesChanged ==
  ASSUME NEW S, NEW s \in Seq(S), NEW f \in [S -> S],
         NEW t, t = [i \in DOMAIN s |-> f[s[i]]]
  PROVE  t \in Seq(S) /\ KeysIn(t) = {f[x] : x \in KeysIn(s)}
<1>1. Len(s) \in Nat /\ DOMAIN s = 1..Len(s) /\ \A i \in 1..Len(s) : s[i] \in S
  BY LenProperties, ElementOfSeq
<1>2. t \in [1..Len(s) -> S]
  BY <1>1
<1>3. t \in Seq(S) /\ Len(t) = Len(s)
  BY <1>1, <1>2, IsASeq
<1> QED
  BY <1>1, <1>3 DEF KeysIn

LEMMA TailKeys ==
  ASSUME NEW S, NEW s \in Seq(S), s # <<>>
  PROVE  Tail(s) \in Seq(S) /\ KeysIn(Tail(s)) \subseteq KeysIn(s)
<1>1. /\ Tail(s) \in Seq(S) /\ Len(Tail(s)) = Len(s) - 1 /\ Len(s) \in Nat
      /\ \A i \in 1..Len(Tail(s)) : Tail(s)[i] = s[i + 1]
  BY HeadTailProperties, LenProperties
<1> QED
  BY <1>1 DEF KeysIn

(* Steps of the detections leave the tasks alone.                              *)
LEMMA MonitorsUntouched ==
  ASSUME MonitorsTold, UNCHANGED ID!taskVars PROVE MonitorsTold'
  BY DEF MonitorsTold, ID!taskVars, ID!Tasks

(* A detector at work, while the alerts stay as they are.                      *)
LEMMA DetectionMoves ==
  ASSUME IssuesTypes, AlertsApart, NEW d \in ID!Detectors, NEW x \in Detection,
         v1' = v1, v3' = v3, v4' = v4, v7' = v7, v6' = [v6 EXCEPT ![d] = x],
         x.from <= v1, x.id <= v7, x.at # "throttle",
         x.at # "idle" => /\ x.pattern \in IssuePatterns
                          /\ \A a \in KeysIn(v3) : ApartFrom(a, x.pattern, x.from)
  PROVE  IssuesTypes' /\ AlertsApart'
<1>1. v6'[d] = x /\ \A c \in ID!Detectors : c # d => v6'[c] = v6[c]
  BY DEF IssuesTypes
<1>2. IssuesTypes'
  BY <1>1 DEF IssuesTypes, ID!Detectors, ID!Tasks
<1>3. ASSUME NEW a \in KeysIn(v3), NEW c \in ID!Detectors, v6'[c].at # "idle"
      PROVE  /\ ApartFrom(a, v6'[c].pattern, v6'[c].from)
             /\ v6'[c].at = "throttle" /\ v6'[c].id = a.id => v6'[c].pattern = a.pattern
  <2>1. CASE c = d
    BY <1>1, <1>3, <2>1
  <2>2. CASE c # d
    BY <1>1, <1>3, <2>2 DEF AlertsApart
  <2> QED
    BY <2>1, <2>2
<1>4. AlertsApart'
  BY <1>3 DEF AlertsApart, ID!Detectors, ID!Tasks
<1> QED
  BY <1>2, <1>4

(* A detection begins only when the throttling has run out for every alert.    *)
LEMMA DetectionBegins ==
  ASSUME IssuesTypes, AlertsApart, NEW d \in ID!Detectors, NEW p \in IssuePatterns,
         ID!Detects(d, p), v1' = v1, v3' = v3, v4' = v4, v7' = v7
  PROVE  IssuesTypes' /\ AlertsApart'
<1> DEFINE x == [at |-> "criteria", pattern |-> p, from |-> v1, id |-> 0]
<1>1. v6' = [v6 EXCEPT ![d] = x] /\ ~ID!Throttled(p)
  BY DEF ID!Detects
<1>2. x \in Detection /\ x.from <= v1 /\ x.id <= v7
  BY DEF Detection, IssuesTypes
<1>3. ASSUME NEW a \in KeysIn(v3), a.pattern = p, a.throttled # None
      PROVE  v1 >= a.throttled + AlertThrottle
  <2>1. a \in AlertRecord
    BY ElementOfSeq, LenProperties DEF KeysIn, IssuesTypes
  <2>2. a.throttled \in Nat
    BY <1>3, <2>1 DEF AlertRecord
  <2>3. p \in DOMAIN v4 /\ v4[p] \in Nat /\ v4[p] >= a.throttled
    BY <1>3 DEF AlertsApart, Entered
  <2>4. ~(v1 - v4[p] < AlertThrottle)
    BY <1>1, <2>3 DEF ID!Throttled
  <2> QED
    BY <2>2, <2>3, <2>4, IssueConstants DEF IssuesTypes
<1>4. \A a \in KeysIn(v3) : ApartFrom(a, x.pattern, x.from)
  BY <1>3 DEF ApartFrom
<1> HIDE DEF x
<1>5. x.at = "criteria" /\ x.pattern = p
  BY DEF x
<1> QED
  BY <1>1, <1>2, <1>4, <1>5, DetectionMoves

LEMMA AlertRecorded ==
  ASSUME IssuesTypes, AlertsApart, NEW d \in ID!Detectors, ID!record_alert(d)
  PROVE  IssuesTypes' /\ AlertsApart'
<1> DEFINE n == v7 + 1
           x == [v6[d] EXCEPT !.at = "throttle", !.id = n]
           e == [id |-> n, pattern |-> v6[d].pattern, at |-> v1, from |-> v6[d].from,
                 throttled |-> None, acknowledged |-> FALSE]
           s == Append(v3, e)
<1>1. /\ v6[d].at = "record" /\ v7' = n /\ v3' = ID!Latest(s) /\ v1' = v1 /\ v4' = v4
      /\ v6' = [v6 EXCEPT ![d].at = "throttle", ![d].id = n]
  BY DEF ID!record_alert
<1>2. v6[d] \in Detection /\ n \in Nat /\ n > v7 /\ v7 \in Nat /\ v1 \in Nat
  BY DEF IssuesTypes
<1>3. e \in AlertRecord
  BY <1>1, <1>2 DEF AlertRecord, Detection, IssuesTypes
<1>4. s \in Seq(AlertRecord) /\ KeysIn(s) = KeysIn(v3) \cup {e}
  <2> HIDE DEF e
  <2> QED
    BY <1>3, Appended DEF IssuesTypes
<1>5. x \in Detection /\ x.at = "throttle" /\ x.id = n /\ x.from = v6[d].from
      /\ x.pattern = v6[d].pattern
  BY <1>2 DEF Detection
<1>6. v6' = [v6 EXCEPT ![d] = x]
  BY <1>1, <1>2 DEF IssuesTypes, Detection
<1>7. v6'[d] = x /\ \A c \in ID!Detectors : c # d => v6'[c] = v6[c]
  BY <1>6 DEF IssuesTypes
<1>8. /\ e.id = n /\ e.pattern = v6[d].pattern /\ e.from = v6[d].from /\ e.throttled = None
  OBVIOUS
<1> HIDE DEF e, x, n, s
<1>9. v3' \in Seq(AlertRecord) /\ KeysIn(v3') \subseteq KeysIn(v3) \cup {e}
  <2>1. s # <<>>
    BY <1>4 DEF KeysIn
  <2>2. Tail(s) \in Seq(AlertRecord) /\ KeysIn(Tail(s)) \subseteq KeysIn(s)
    BY <1>4, <2>1, TailKeys
  <2> QED
    BY <1>1, <1>4, <2>2 DEF ID!Latest
<1>10. IssuesTypes'
  <2>1. v6' \in [ID!Detectors -> Detection]
    BY <1>5, <1>6 DEF IssuesTypes
  <2>2. ASSUME NEW c \in ID!Detectors
        PROVE  /\ v6'[c].at # "idle" => v6'[c].pattern \in IssuePatterns
               /\ v6'[c].from <= v1 /\ v6'[c].id <= n
    <3>1. v6[c].id \in Nat /\ v6[c].id <= v7 /\ v6[c].from <= v1
      BY DEF IssuesTypes, Detection
    <3>2. CASE c = d
      BY <1>1, <1>2, <1>5, <1>7, <3>1, <3>2 DEF IssuesTypes
    <3>3. CASE c # d
      BY <1>2, <1>7, <3>1, <3>3 DEF IssuesTypes
    <3> QED
      BY <3>2, <3>3
  <2> QED
    BY <1>1, <1>2, <1>9, <2>1, <2>2 DEF IssuesTypes, ID!Detectors, ID!Tasks
<1>11. \A a \in KeysIn(v3) : a \in AlertRecord /\ a.id \in Nat /\ a.id <= v7
  <2>1. ASSUME NEW a \in KeysIn(v3) PROVE a \in AlertRecord
    BY ElementOfSeq, LenProperties DEF KeysIn, IssuesTypes
  <2> QED
    BY <2>1 DEF AlertsApart, AlertRecord
<1>12. ASSUME NEW a \in KeysIn(v3) \cup {e}
       PROVE  a.from <= v1 /\ a.id <= n /\ Entered(a, v1, v4)
  <2>1. CASE a = e
    BY <1>2, <1>8, <2>1 DEF IssuesTypes, Entered
  <2>2. CASE a \in KeysIn(v3)
    BY <1>2, <1>11, <2>2 DEF AlertsApart
  <2> QED
    BY <2>1, <2>2
<1>13. ASSUME NEW a \in KeysIn(v3) \cup {e}, NEW b \in KeysIn(v3) \cup {e}
       PROVE  ApartFrom(a, b.pattern, b.from)
  <2>1. CASE a = e
    BY <1>8, <2>1 DEF ApartFrom
  <2>2. CASE a # e /\ b = e
    BY <1>1, <1>8, <2>2 DEF AlertsApart
  <2>3. CASE a # e /\ b # e
    BY <2>3 DEF AlertsApart
  <2> QED
    BY <2>1, <2>2, <2>3
<1>14. ASSUME NEW a \in KeysIn(v3) \cup {e}, NEW c \in ID!Detectors, v6'[c].at # "idle"
       PROVE  /\ ApartFrom(a, v6'[c].pattern, v6'[c].from)
              /\ v6'[c].at = "throttle" /\ v6'[c].id = a.id => v6'[c].pattern = a.pattern
  <2>1. CASE a = e /\ c = d
    BY <1>5, <1>7, <1>8, <2>1 DEF ApartFrom
  <2>2. CASE a = e /\ c # d
    <3>1. v6[c].id \in Nat /\ v6[c].id <= v7
      BY DEF IssuesTypes, Detection
    <3>2. v6'[c].id # a.id
      BY <1>2, <1>7, <1>8, <2>2, <3>1
    <3> QED
      BY <1>8, <2>2, <3>2 DEF ApartFrom
  <2>3. CASE a # e /\ c = d
    <3>1. a \in KeysIn(v3) /\ x.id # a.id
      BY <1>2, <1>5, <1>11, <2>3
    <3> QED
      BY <1>1, <1>5, <1>7, <2>3, <3>1 DEF AlertsApart
  <2>4. CASE a # e /\ c # d
    BY <1>7, <1>14, <2>4 DEF AlertsApart
  <2> QED
    BY <2>1, <2>2, <2>3, <2>4
<1>15. AlertsApart'
  BY <1>1, <1>9, <1>12, <1>13, <1>14 DEF AlertsApart, ID!Detectors, ID!Tasks
<1> QED
  BY <1>10, <1>15

(* An alert is entered in the throttling with the time that it is entered at.  *)
LEMMA AlertEntered ==
  ASSUME IssuesTypes, AlertsApart, NEW d \in ID!Detectors, ID!UpdateThrottle(d)
  PROVE  IssuesTypes' /\ AlertsApart'
<1> DEFINE p == v6[d].pattern
           x == [v6[d] EXCEPT !.at = "count"]
           f == [e \in AlertRecord |-> IF e.id = v6[d].id THEN [e EXCEPT !.throttled = v1] ELSE e]
<1>1. /\ v6[d].at = "throttle" /\ v6' = [v6 EXCEPT ![d].at = "count"]
      /\ v4' = [q \in DOMAIN v4 \cup {p} |-> IF q = p THEN v1 ELSE v4[q]]
      /\ v3' = [i \in DOMAIN v3 |-> IF v3[i].id = v6[d].id THEN [v3[i] EXCEPT !.throttled = v1]
                                    ELSE v3[i]]
      /\ v1' = v1 /\ v7' = v7
  BY DEF ID!UpdateThrottle
<1>2. v6[d] \in Detection /\ v1 \in Nat
  BY DEF IssuesTypes
<1>3. f \in [AlertRecord -> AlertRecord]
  BY <1>2 DEF AlertRecord
<1>4. \A e \in KeysIn(v3) : e \in AlertRecord
  BY ElementOfSeq, LenProperties DEF KeysIn, IssuesTypes
<1>5. v3' = [i \in DOMAIN v3 |-> f[v3[i]]]
  <2>1. DOMAIN v3 = 1..Len(v3)
    BY LenProperties DEF IssuesTypes
  <2>2. \A i \in DOMAIN v3 : v3[i] \in AlertRecord
    BY <1>4, <2>1 DEF KeysIn
  <2> QED
    BY <1>1, <2>2
<1>6. /\ x \in Detection /\ x.at = "count" /\ x.from = v6[d].from /\ x.id = v6[d].id
      /\ x.pattern = v6[d].pattern
  BY <1>2 DEF Detection
<1>7. v6' = [v6 EXCEPT ![d] = x]
  BY <1>1, <1>2 DEF IssuesTypes, Detection
<1>8. v6'[d] = x /\ \A c \in ID!Detectors : c # d => v6'[c] = v6[c]
  BY <1>7 DEF IssuesTypes
<1>9. \A e \in AlertRecord :
        /\ f[e].pattern = e.pattern /\ f[e].from = e.from /\ f[e].id = e.id
        /\ e.id = v6[d].id => f[e].throttled = v1
        /\ e.id # v6[d].id => f[e] = e
  BY <1>2 DEF AlertRecord
<1> HIDE DEF f, x
<1>10. v3' \in Seq(AlertRecord) /\ KeysIn(v3') = {f[e] : e \in KeysIn(v3)}
  <2> DEFINE t == v3'
  <2>1. t = [i \in DOMAIN v3 |-> f[v3[i]]]
    BY <1>5
  <2> HIDE DEF t
  <2>2. /\ v3 \in Seq(AlertRecord) /\ Len(v3) \in Nat /\ DOMAIN v3 = 1..Len(v3)
        /\ \A i \in 1..Len(v3) : v3[i] \in AlertRecord
    BY LenProperties, ElementOfSeq DEF IssuesTypes
  <2>3. t \in [1..Len(v3) -> AlertRecord] /\ \A i \in 1..Len(v3) : t[i] = f[v3[i]]
    BY <1>3, <2>1, <2>2
  <2>4. t \in Seq(AlertRecord) /\ Len(t) = Len(v3)
    BY <2>2, <2>3, IsASeq
  <2> QED
    BY <2>2, <2>3, <2>4 DEF KeysIn, t
<1>11. \A c \in ID!Detectors :
         /\ v6'[c].pattern = v6[c].pattern /\ v6'[c].from = v6[c].from /\ v6'[c].id = v6[c].id
         /\ v6'[c].at # "idle" => v6[c].at # "idle"
         /\ v6'[c].at = "throttle" => v6[c].at = "throttle"
  BY <1>1, <1>6, <1>8
<1>12. IssuesTypes'
  <2>1. v6' \in [ID!Detectors -> Detection]
    BY <1>6, <1>7 DEF IssuesTypes
  <2> QED
    BY <1>1, <1>10, <1>11, <2>1 DEF IssuesTypes, ID!Detectors, ID!Tasks
<1>13. p \in IssuePatterns /\ p \in DOMAIN v4' /\ v4'[p] = v1
  BY <1>1 DEF IssuesTypes
<1>14. ASSUME NEW e \in KeysIn(v3)
       PROVE  f[e].from <= v1 /\ f[e].id <= v7 /\ Entered(f[e], v1, v4')
  <2>1. f[e].from = e.from /\ f[e].id = e.id /\ e.from <= v1 /\ e.id <= v7 /\ Entered(e, v1, v4)
    BY <1>4, <1>9 DEF AlertsApart
  <2>2. CASE e.id = v6[d].id
    <3>1. f[e].throttled = v1 /\ f[e].pattern = p
      BY <1>1, <1>4, <1>9, <2>2 DEF AlertsApart
    <3> QED
      BY <1>2, <1>13, <2>1, <3>1 DEF Entered
  <2>3. CASE e.id # v6[d].id
    <3>1. f[e] = e /\ e.throttled \in Nat \cup {None}
      BY <1>4, <1>9, <2>3 DEF AlertRecord
    <3>2. Entered(e, v1, v4')
      BY <1>1, <1>2, <2>1, <3>1 DEF Entered
    <3> QED
      BY <2>1, <3>1, <3>2
  <2> QED
    BY <2>2, <2>3
<1>15. ASSUME NEW e \in KeysIn(v3), NEW q, NEW from \in Nat, from <= v1, ApartFrom(e, q, from)
       PROVE  ApartFrom(f[e], q, from)
  BY <1>4, <1>9, <1>15 DEF ApartFrom
<1>16. ASSUME NEW e \in KeysIn(v3), NEW b \in KeysIn(v3)
       PROVE  ApartFrom(f[e], f[b].pattern, f[b].from)
  <2>1. b.from \in Nat /\ b.from <= v1 /\ ApartFrom(e, b.pattern, b.from)
    BY <1>4 DEF AlertsApart, AlertRecord
  <2> QED
    BY <1>4, <1>9, <1>15, <2>1
<1>17. ASSUME NEW e \in KeysIn(v3), NEW c \in ID!Detectors, v6'[c].at # "idle"
       PROVE  /\ ApartFrom(f[e], v6'[c].pattern, v6'[c].from)
              /\ v6'[c].at = "throttle" /\ v6'[c].id = f[e].id => v6'[c].pattern = f[e].pattern
  <2>1. v6[c].at # "idle" /\ v6[c].from \in Nat /\ v6[c].from <= v1
    BY <1>11, <1>17 DEF IssuesTypes, Detection
  <2>2. /\ ApartFrom(e, v6[c].pattern, v6[c].from)
        /\ v6[c].at = "throttle" /\ v6[c].id = e.id => v6[c].pattern = e.pattern
    BY <2>1 DEF AlertsApart
  <2> QED
    BY <1>4, <1>9, <1>11, <1>15, <2>1, <2>2
<1>18. AlertsApart'
  <2>1. \A a \in KeysIn(v3') : a.from <= v1' /\ a.id <= v7' /\ Entered(a, v1', v4')
    BY <1>1, <1>10, <1>14
  <2>2. \A a, b \in KeysIn(v3') : ApartFrom(a, b.pattern, b.from)
    BY <1>10, <1>16
  <2>3. ASSUME NEW a \in KeysIn(v3'), NEW c \in ID!Detectors, v6'[c].at # "idle"
        PROVE  /\ ApartFrom(a, v6'[c].pattern, v6'[c].from)
               /\ v6'[c].at = "throttle" /\ v6'[c].id = a.id => v6'[c].pattern = a.pattern
    BY <1>10, <1>17, <2>3
  <2> QED
    BY <2>1, <2>2, <2>3 DEF AlertsApart, ID!Detectors, ID!Tasks
<1> QED
  BY <1>12, <1>18

LEMMA AlertAcknowledged ==
  ASSUME IssuesTypes, AlertsApart, NEW id, ID!Acknowledged(id),
         v1' = v1, v4' = v4, v6' = v6, v7' = v7
  PROVE  IssuesTypes' /\ AlertsApart'
<1> DEFINE f == [e \in AlertRecord |-> IF e.id = id THEN [e EXCEPT !.acknowledged = TRUE] ELSE e]
<1>1. f \in [AlertRecord -> AlertRecord]
  BY DEF AlertRecord
<1>2. \A e \in KeysIn(v3) : e \in AlertRecord
  BY ElementOfSeq, LenProperties DEF KeysIn, IssuesTypes
<1>3. v3' = [i \in DOMAIN v3 |-> f[v3[i]]]
  <2>1. DOMAIN v3 = 1..Len(v3)
    BY LenProperties DEF IssuesTypes
  <2>2. \A i \in DOMAIN v3 : v3[i] \in AlertRecord
    BY <1>2, <2>1 DEF KeysIn
  <2> QED
    BY <2>2 DEF ID!Acknowledged
<1>4. \A e \in AlertRecord : /\ f[e].pattern = e.pattern /\ f[e].from = e.from
                             /\ f[e].id = e.id /\ f[e].throttled = e.throttled
  BY DEF AlertRecord
<1> HIDE DEF f
<1>5. v3' \in Seq(AlertRecord) /\ KeysIn(v3') = {f[e] : e \in KeysIn(v3)}
  <2> DEFINE t == v3'
  <2>1. t = [i \in DOMAIN v3 |-> f[v3[i]]]
    BY <1>3
  <2> HIDE DEF t
  <2>2. t \in Seq(AlertRecord) /\ KeysIn(t) = {f[e] : e \in KeysIn(v3)}
    BY <1>1, <2>1, EntriesChanged DEF IssuesTypes
  <2> QED
    BY <2>2 DEF t
<1>6. IssuesTypes'
  BY <1>5 DEF IssuesTypes, ID!Detectors, ID!Tasks
<1>7. ASSUME NEW e \in KeysIn(v3)
      PROVE  /\ f[e].from <= v1 /\ f[e].id <= v7 /\ Entered(f[e], v1, v4)
             /\ \A b \in KeysIn(v3) : ApartFrom(f[e], f[b].pattern, f[b].from)
             /\ \A d \in ID!Detectors :
                  v6[d].at # "idle" =>
                    /\ ApartFrom(f[e], v6[d].pattern, v6[d].from)
                    /\ v6[d].at = "throttle" /\ v6[d].id = f[e].id => v6[d].pattern = f[e].pattern
  BY <1>2, <1>4 DEF AlertsApart, Entered, ApartFrom
<1>8. AlertsApart'
  BY <1>5, <1>7 DEF AlertsApart, ID!Detectors, ID!Tasks
<1> QED
  BY <1>6, <1>8

(* The other steps of a detection, and those of nobody's detection.            *)
LEMMA DetectionSteps ==
  ASSUME IssuesTypes, AlertsApart, NEW d \in ID!Detectors, ID!detect_issue(d)
  PROVE  IssuesTypes' /\ AlertsApart'
<1>1. CASE ID!check_detection_criteria(d)
  <2> DEFINE x == [v6[d] EXCEPT !.at = IF v2[v6[d].pattern] THEN "record" ELSE "idle"]
  <2>1. /\ v6[d].at = "criteria" /\ v1' = v1 /\ v3' = v3 /\ v4' = v4 /\ v7' = v7
        /\ v6' = [v6 EXCEPT ![d].at = IF v2[v6[d].pattern] THEN "record" ELSE "idle"]
    BY <1>1 DEF ID!check_detection_criteria
  <2>2. v6[d] \in Detection
    BY DEF IssuesTypes
  <2>3. /\ x \in Detection /\ x.at \in {"record", "idle"} /\ x.from = v6[d].from
        /\ x.pattern = v6[d].pattern /\ x.id = v6[d].id
    BY <2>2 DEF Detection
  <2>4. v6' = [v6 EXCEPT ![d] = x]
    BY <2>1, <2>2 DEF IssuesTypes, Detection
  <2> HIDE DEF x
  <2>5. /\ x.from <= v1 /\ x.id <= v7 /\ x.at # "throttle" /\ x.pattern \in IssuePatterns
        /\ \A a \in KeysIn(v3) : ApartFrom(a, x.pattern, x.from)
    BY <2>1, <2>3 DEF IssuesTypes, AlertsApart
  <2> QED
    BY <2>1, <2>3, <2>4, <2>5, DetectionMoves
<1>2. CASE ID!CountDetected(d)
  <2>1. /\ v1' = v1 /\ v3' = v3 /\ v4' = v4 /\ v7' = v7
        /\ v6' = [v6 EXCEPT ![d] = ID!NoDetection]
    BY <1>2 DEF ID!CountDetected
  <2>2. /\ ID!NoDetection \in Detection /\ ID!NoDetection.at = "idle"
        /\ ID!NoDetection.from <= v1 /\ ID!NoDetection.id <= v7
    BY DEF ID!NoDetection, Detection, IssuesTypes
  <2> QED
    BY <2>1, <2>2, DetectionMoves
<1> QED
  BY <1>1, <1>2, AlertRecorded, AlertEntered DEF ID!detect_issue

LEMMA DetectionsUntouched ==
  ASSUME IssuesTypes, AlertsApart, v3' = v3, v4' = v4, v6' = v6, v7' = v7,
         v1' \in Nat, v1' >= v1
  PROVE  IssuesTypes' /\ AlertsApart'
<1>1. \A d \in ID!Detectors : v6[d].from \in Nat /\ v6[d].from <= v1 /\ v1 \in Nat
  BY DEF IssuesTypes, Detection
<1>2. IssuesTypes'
  BY <1>1 DEF IssuesTypes, ID!Detectors, ID!Tasks
<1>3. ASSUME NEW a \in KeysIn(v3) PROVE a.from <= v1' /\ Entered(a, v1', v4)
  <2>1. a \in AlertRecord /\ v1 \in Nat
    BY ElementOfSeq, LenProperties DEF KeysIn, IssuesTypes
  <2>2. a.from \in Nat /\ a.throttled \in Nat \cup {None} /\ a.from <= v1 /\ Entered(a, v1, v4)
    BY <2>1 DEF AlertRecord, AlertsApart
  <2> QED
    BY <2>1, <2>2 DEF Entered
<1>4. AlertsApart'
  BY <1>3 DEF AlertsApart, ID!Detectors, ID!Tasks
<1> QED
  BY <1>2, <1>4

(* Starting, stopping and the tasks.                                           *)
LEMMA MonitorsStep ==
  ASSUME MonitorsTold,
         \/ ID!start_monitoring \/ ID!StopSignals \/ ID!StopReturns
         \/ \E t \in ID!Tasks : ID!CheckStarts(t) \/ ID!CheckEnds(t) \/ ID!TaskEnds(t)
  PROVE  MonitorsTold' /\ UNCHANGED <<v1, ID!detectorVars>>
<1>1. CASE ID!start_monitoring
  <2>1. /\ v10 = None /\ v9 = None /\ v8' = v8 + 1 /\ v9' = v8 + 1 /\ v8 < MaxMonitors
        /\ v12' = [v12 EXCEPT ![v8 + 1] = "tick"] /\ v15' = TRUE
        /\ v10' = v10 /\ v11' = v11 /\ v13' = v13
        /\ UNCHANGED <<v1, ID!detectorVars>>
    BY <1>1 DEF ID!start_monitoring
  <2>2. v8 \in Nat /\ v8 + 1 \in ID!Tasks /\ v8 + 1 # None
    BY <2>1, IssueConstants DEF MonitorsTold, ID!Tasks
  <2>3. v12'[v8 + 1] = "tick" /\ \A t \in ID!Tasks : t # v8 + 1 => v12'[t] = v12[t]
    BY <2>1, <2>2 DEF MonitorsTold
  <2>4. v12[v8 + 1] = "none"
    BY <2>2 DEF MonitorsTold
  <2>5. v13 \in ID!Tasks => v12'[v13] = "check"
    BY <2>3, <2>4 DEF MonitorsTold
  <2>6. \A t \in ID!Tasks : t > v8 + 1 => v12'[t] = "none"
    BY <2>2, <2>3, IssueConstants DEF MonitorsTold, ID!Tasks
  <2>7. \A t \in ID!Tasks : v12'[t] \notin {"none", "done"} => t = v8 + 1 \/ t \in v11
    <3>1. \A t \in ID!Tasks : t # None
      BY IssueConstants DEF ID!Tasks
    <3> QED
      BY <2>1, <2>3, <3>1 DEF MonitorsTold
  <2>8. v12' \in [ID!Tasks -> {"none", "tick", "check", "done"}]
    BY <2>1 DEF MonitorsTold
  <2>9. v8 + 1 \in Nat /\ v8 + 1 \in 1..(v8 + 1)
    BY <2>2
  <2> QED
    BY <2>1, <2>2, <2>5, <2>6, <2>7, <2>8, <2>9 DEF MonitorsTold, ID!Tasks
<1>2. CASE ID!StopSignals
  <2>1. /\ v10 = None /\ v9 # None /\ v10' = v9 /\ v9' = None /\ v11' = v11 \cup {v9}
        /\ v8' = v8 /\ v12' = v12 /\ v13' = v13 /\ v15' = v15
        /\ UNCHANGED <<v1, ID!detectorVars>>
    BY <1>2 DEF ID!StopSignals
  <2> QED
    BY <2>1 DEF MonitorsTold, ID!Tasks
<1>3. CASE ID!StopReturns
  <2>1. /\ v10 # None /\ v10' = None /\ v15' = FALSE
        /\ v8' = v8 /\ v9' = v9 /\ v11' = v11 /\ v12' = v12 /\ v13' = v13
        /\ UNCHANGED <<v1, ID!detectorVars>>
    BY <1>3 DEF ID!StopReturns
  <2> QED
    BY <2>1 DEF MonitorsTold, ID!Tasks
<1>4. ASSUME NEW t \in ID!Tasks, NEW x \in {"tick", "check", "done"},
             v12[t] \notin {"none", "done"}, v12' = [v12 EXCEPT ![t] = x],
             x = "done" \/ v13' \in {t, None}, v13' = t => x = "check",
             v13' = v13 => v13 # t,
             v8' = v8, v9' = v9, v10' = v10, v11' = v11, v15' = v15,
             v13' \in {t, v13, None}
      PROVE  MonitorsTold'
  <2>1. v12'[t] = x /\ \A u \in ID!Tasks : u # t => v12'[u] = v12[u]
    BY <1>4 DEF MonitorsTold
  <2>2. v12' \in [ID!Tasks -> {"none", "tick", "check", "done"}]
    BY <1>4 DEF MonitorsTold
  <2>3. None \notin ID!Tasks
    BY IssueConstants DEF ID!Tasks
  <2>4. v13' \in ID!Tasks => v12'[v13'] = "check"
    BY <1>4, <2>1, <2>3 DEF MonitorsTold
  <2>5. \A u \in ID!Tasks : u > v8 => v12'[u] = "none"
    BY <1>4, <2>1 DEF MonitorsTold
  <2>6. \A u \in ID!Tasks : v12'[u] \notin {"none", "done"} => u = v9 \/ u \in v11
    BY <1>4, <2>1 DEF MonitorsTold
  <2> QED
    BY <1>4, <2>2, <2>4, <2>5, <2>6 DEF MonitorsTold, ID!Tasks
<1>5. ASSUME NEW t \in ID!Tasks, ID!CheckStarts(t)
      PROVE  MonitorsTold' /\ UNCHANGED <<v1, ID!detectorVars>>
  <2>1. t # None
    BY IssueConstants DEF ID!Tasks
  <2> QED
    BY <1>4, <1>5, <2>1 DEF ID!CheckStarts
<1>6. ASSUME NEW t \in ID!Tasks, ID!CheckEnds(t)
      PROVE  MonitorsTold' /\ UNCHANGED <<v1, ID!detectorVars>>
  <2>1. t # None
    BY IssueConstants DEF ID!Tasks
  <2>2. v12[t] = "check"
    BY <1>6 DEF ID!CheckEnds, MonitorsTold
  <2> QED
    BY <1>4, <1>6, <2>1, <2>2 DEF ID!CheckEnds
<1>7. ASSUME NEW t \in ID!Tasks, ID!TaskEnds(t)
      PROVE  MonitorsTold' /\ UNCHANGED <<v1, ID!detectorVars>>
  <2>1. v13 # t
    BY <1>7 DEF ID!TaskEnds, MonitorsTold
  <2> QED
    BY <1>4, <1>7, <2>1 DEF ID!TaskEnds
<1> QED
  BY <1>1, <1>2, <1>3, <1>5, <1>6, <1>7

LEMMA IssuesStep ==
  ASSUME IssuesInv, [ID!Next]_(ID!issueVars)
  PROVE  IssuesInv'
<1> USE DEF IssuesInv
<1>1. CASE ID!Tick
  <2>1. v1' = v1 + 1 /\ v1' >= v1 /\ v1' \in Nat /\ UNCHANGED <<ID!detectorVars, ID!taskVars>>
    BY <1>1 DEF ID!Tick, IssuesTypes
  <2> QED
    BY <2>1, DetectionsUntouched, MonitorsUntouched DEF ID!detectorVars
<1>2. ASSUME UNCHANGED <<v1, ID!detectorVars>> PROVE IssuesTypes' /\ AlertsApart'
  <2>1. v1' = v1 /\ v1 \in Nat /\ v1' >= v1
    BY <1>2 DEF IssuesTypes
  <2> QED
    BY <1>2, <2>1, DetectionsUntouched DEF ID!detectorVars
<1>3. CASE \/ ID!start_monitoring \/ ID!StopSignals \/ ID!StopReturns
           \/ \E t \in ID!Tasks : ID!CheckStarts(t) \/ ID!CheckEnds(t) \/ ID!TaskEnds(t)
  BY <1>2, <1>3, MonitorsStep
<1>4. CASE ID!clear_history
  <2>1. /\ v3' = <<>> /\ v1' = v1 /\ v4' = v4 /\ v6' = v6 /\ v7' = v7
        /\ UNCHANGED ID!taskVars
    BY <1>4 DEF ID!clear_history
  <2>2. KeysIn(<<>>) = {} /\ <<>> \in Seq(AlertRecord)
    BY DEF KeysIn
  <2>3. IssuesTypes' /\ AlertsApart'
    BY <2>1, <2>2 DEF IssuesTypes, AlertsApart, ID!Detectors, ID!Tasks
  <2> QED
    BY <2>1, <2>3, MonitorsUntouched
<1>5. ASSUME NEW p \in IssuePatterns, ID!update_rule(p) PROVE IssuesInv'
  <2>1. /\ v1' = v1 /\ v3' = v3 /\ v4' = v4 /\ v6' = v6 /\ v7' = v7 /\ v1 \in Nat /\ v1' >= v1
        /\ UNCHANGED ID!taskVars
    BY <1>5 DEF ID!update_rule, IssuesTypes
  <2> QED
    BY <2>1, DetectionsUntouched, MonitorsUntouched
<1>6. ASSUME NEW id \in 1..MaxIssueAlerts, ID!acknowledge_alert(id) \/ ID!report_false_positive(id)
      PROVE  IssuesInv'
  <2>1. /\ ID!Acknowledged(id) /\ v1' = v1 /\ v4' = v4 /\ v6' = v6 /\ v7' = v7
        /\ UNCHANGED ID!taskVars
    BY <1>6 DEF ID!acknowledge_alert, ID!report_false_positive
  <2> QED
    BY <2>1, AlertAcknowledged, MonitorsUntouched
<1>7. ASSUME NEW d \in IssueTriggers, NEW p \in IssuePatterns, ID!trigger_detection(d, p)
      PROVE  IssuesInv'
  <2>1. /\ ID!Detects(d, p) /\ v1' = v1 /\ v3' = v3 /\ v4' = v4 /\ v7' = v7
        /\ UNCHANGED ID!taskVars /\ d \in ID!Detectors
    BY <1>7 DEF ID!trigger_detection, ID!Detectors
  <2> QED
    BY <2>1, DetectionBegins, MonitorsUntouched
<1>8. ASSUME NEW d \in ID!Detectors, ID!detect_issue(d) PROVE IssuesInv'
  <2>1. UNCHANGED ID!taskVars
    BY <1>8 DEF ID!detect_issue, ID!check_detection_criteria, ID!record_alert,
       ID!UpdateThrottle, ID!CountDetected
  <2> QED
    BY <1>8, <2>1, DetectionSteps, MonitorsUntouched
<1>9. ASSUME NEW t \in ID!Tasks, ID!perform_detection_check(t) PROVE IssuesInv'
  <2>1. /\ v1' = v1 /\ v3' = v3 /\ v4' = v4 /\ v7' = v7 /\ t \in ID!Detectors
        /\ v8' = v8 /\ v9' = v9 /\ v10' = v10 /\ v11' = v11 /\ v12' = v12 /\ v13' = v13
        /\ v15' = v15
    BY <1>9 DEF ID!perform_detection_check, ID!Detectors
  <2>2. v14 \in DOMAIN IssueChecks => IssueChecks[v14] \in IssuePatterns
    BY IssueConstants, ElementOfSeq, LenProperties
  <2>3. v14 \in DOMAIN IssueChecks
    BY <1>9 DEF ID!perform_detection_check
  <2>4. v6' = v6 \/ ID!Detects(t, IssueChecks[v14])
    BY <1>9 DEF ID!perform_detection_check
  <2>5. v1 \in Nat /\ v1' >= v1
    BY <2>1 DEF IssuesTypes
  <2>6. IssuesTypes' /\ AlertsApart'
    BY <2>1, <2>2, <2>3, <2>4, <2>5, DetectionsUntouched, DetectionBegins
  <2>7. MonitorsTold'
    BY <2>1 DEF MonitorsTold, ID!Tasks
  <2> QED
    BY <2>6, <2>7
<1>10. CASE UNCHANGED ID!issueVars
  BY <1>2, <1>10, MonitorsUntouched DEF ID!issueVars
<1> QED
  BY <1>1, <1>3, <1>4, <1>5, <1>6, <1>7, <1>8, <1>9, <1>10 DEF ID!Next, ID!process

LEMMA IssuesKeepPromises ==
  ASSUME IssuesInv PROVE ID!ApartUnlessOverlapping /\ ID!OthersWereTold
<1>1. ID!OthersWereTold
  BY DEF IssuesInv, MonitorsTold, ID!OthersWereTold
<1>2. \A i \in DOMAIN v3 : v3[i] \in KeysIn(v3)
  BY LenProperties DEF KeysIn, IssuesInv, IssuesTypes
<1>3. ID!ApartUnlessOverlapping
  BY <1>2 DEF IssuesInv, AlertsApart, ApartFrom, ID!ApartUnlessOverlapping
<1> QED
  BY <1>1, <1>3

-----------------------------------------------------------------------------
(* Answers that are put together.  A batch of inspections under way: what has  *)
(* a result and what is left are, in this order, what was asked for.           *)
InspectionResult == [entity : Inspected, found : BOOLEAN]

InspectionBatch ==
  [at : {"fetch"}, kind : {"batch"}, left : Seq(Inspected), asked : Seq(Inspected),
   meta : BOOLEAN, rel : BOOLEAN, results : Seq(InspectionResult), found : Nat,
   missing : Seq(Inspected)]

BatchGoes(j) ==
  /\ j \in InspectionBatch
  /\ Len(j.results) + Len(j.left) = Len(j.asked)
  /\ \A i \in 1..Len(j.results) : j.results[i].entity = j.asked[i]
  /\ \A i \in 1..Len(j.left) : j.left[i] = j.asked[Len(j.results) + i]
  /\ j.found + Len(j.missing) = Len(j.results)

BatchDone(j) ==
  /\ [i \in DOMAIN j.results |-> j.results[i].entity] = j.asked
  /\ j.found + Len(j.missing) = Len(j.asked)

(* What can be the job of a caller.                                            *)
InspectionJob(j) ==
  /\ "at" \in DOMAIN j
  /\ j.at = "fetch" => (j.kind = "batch" => BatchGoes(j))
  /\ j.at = "done" /\ "results" \in DOMAIN j => BatchDone(j)

InspectorInv ==
  /\ DOMAIN v7 = Inspectors
  /\ \A c \in Inspectors : InspectionJob(v7[c])
  /\ \A c \in Inspectors : v6 = c => v7[c].at = "fetch" /\ v7[c].left # <<>>

LEMMA InspectorConstants == MaxInspectBatch \in Nat /\ None \notin Inspectors
  BY ProvedPartsAssumption DEF EI!InspectorAssumption

LEMMA InspectorStart == ASSUME EI!Init PROVE InspectorInv
  BY InspectorConstants DEF EI!Init, EI!NoJob, InspectorInv, InspectionJob

(* The parts of a batch, named apart.                                          *)
BatchParts(left, asked, results, found, missing) ==
  /\ left \in Seq(Inspected) /\ asked \in Seq(Inspected) /\ results \in Seq(InspectionResult)
  /\ found \in Nat /\ missing \in Seq(Inspected)
  /\ Len(results) + Len(left) = Len(asked)
  /\ \A i \in 1..Len(results) : results[i].entity = asked[i]
  /\ \A i \in 1..Len(left) : left[i] = asked[Len(results) + i]
  /\ found + Len(missing) = Len(results)

LEMMA BatchOfParts ==
  ASSUME NEW j
  PROVE  BatchGoes(j) <=> /\ j \in InspectionBatch
                          /\ BatchParts(j.left, j.asked, j.results, j.found, j.missing)
  BY DEF BatchGoes, BatchParts, InspectionBatch

(* The first entity that is left gets its result, whatever it is.              *)
LEMMA PartsGoOn ==
  ASSUME NEW left, NEW asked, NEW results, NEW found, NEW missing, NEW f \in BOOLEAN,
         BatchParts(left, asked, results, found, missing), left # <<>>
  PROVE  BatchParts(Tail(left), asked, Append(results, [entity |-> Head(left), found |-> f]),
                    IF f THEN found + 1 ELSE found,
                    IF f THEN missing ELSE Append(missing, Head(left)))
<1> DEFINE e == Head(left)
           r == [entity |-> e, found |-> f]
           l == Tail(left)
           s == Append(results, r)
           n == IF f THEN found + 1 ELSE found
           m == IF f THEN missing ELSE Append(missing, e)
<1>1. /\ left \in Seq(Inspected) /\ asked \in Seq(Inspected) /\ results \in Seq(InspectionResult)
      /\ found \in Nat /\ missing \in Seq(Inspected)
      /\ Len(results) + Len(left) = Len(asked) /\ found + Len(missing) = Len(results)
      /\ \A i \in 1..Len(results) : results[i].entity = asked[i]
      /\ \A i \in 1..Len(left) : left[i] = asked[Len(results) + i]
  BY DEF BatchParts
<1>2. /\ e \in Inspected /\ e = left[1] /\ l \in Seq(Inspected)
      /\ Len(l) = Len(left) - 1
      /\ \A i \in 1..Len(l) : l[i] = left[i + 1]
  BY <1>1, HeadTailProperties
<1>3. Len(left) \in Nat /\ Len(results) \in Nat /\ Len(missing) \in Nat /\ Len(asked) \in Nat
  BY <1>1, LenProperties
<1>4. Len(left) > 0
  BY <1>1, <1>3, EmptySeq
<1> HIDE DEF e, l
<1>5. r \in InspectionResult /\ r.entity = e
  BY <1>2 DEF InspectionResult
<1> HIDE DEF r
<1>6. /\ s \in Seq(InspectionResult) /\ Len(s) = Len(results) + 1
      /\ \A i \in 1..Len(results) : s[i] = results[i]
      /\ s[Len(results) + 1] = r
  BY <1>1, <1>5, AppendProperties
<1>7. m \in Seq(Inspected) /\ n \in Nat /\ Len(m) \in Nat /\ n + Len(m) = found + Len(missing) + 1
  <2>1. Append(missing, e) \in Seq(Inspected) /\ Len(Append(missing, e)) = Len(missing) + 1
    BY <1>1, <1>2, AppendProperties
  <2>2. CASE f
    <3>1. m = missing /\ n = found + 1
      BY <2>2
    <3> HIDE DEF m, n
    <3> QED
      BY <1>1, <1>3, <3>1
  <2>3. CASE ~f
    <3>1. m = Append(missing, e) /\ n = found
      BY <2>3
    <3> HIDE DEF m, n
    <3> QED
      BY <1>1, <1>3, <2>1, <3>1
  <2> QED
    BY <2>2, <2>3
<1> HIDE DEF s, n, m
<1>8. Len(s) + Len(l) = Len(asked) /\ n + Len(m) = Len(s)
  <2>1. /\ Len(s) = Len(results) + 1 /\ Len(l) = Len(left) - 1
        /\ Len(results) + Len(left) = Len(asked) /\ found + Len(missing) = Len(results)
        /\ n + Len(m) = found + Len(missing) + 1
    BY <1>1, <1>2, <1>6, <1>7
  <2> QED
    BY <1>3, <2>1
<1>9. ASSUME NEW i \in 1..Len(s) PROVE s[i].entity = asked[i]
  <2>1. CASE i \in 1..Len(results)
    BY <1>1, <1>6, <2>1
  <2>2. CASE i = Len(results) + 1
    <3>1. 1 \in 1..Len(left)
      BY <1>3, <1>4
    <3>2. e = asked[Len(results) + 1]
      BY <1>1, <1>2, <3>1
    <3> QED
      BY <1>5, <1>6, <2>2, <3>2
  <2> QED
    BY <1>3, <1>6, <2>1, <2>2
<1>10. ASSUME NEW i \in 1..Len(l) PROVE l[i] = asked[Len(s) + i]
  <2>1. i \in Int /\ i + 1 \in 1..Len(left) /\ l[i] = left[i + 1]
    BY <1>2, <1>3
  <2>2. left[i + 1] = asked[Len(results) + (i + 1)]
    BY <1>1, <2>1
  <2>3. Len(results) + (i + 1) = Len(s) + i
    BY <1>3, <1>6, <2>1
  <2> QED
    BY <2>1, <2>2, <2>3
<1>11. BatchParts(l, asked, s, n, m)
  BY <1>1, <1>2, <1>6, <1>7, <1>8, <1>9, <1>10 DEF BatchParts
<1> QED
  BY <1>11 DEF l, s, n, m, r, e

LEMMA BatchGoesOn ==
  ASSUME NEW j, BatchGoes(j), j.left # <<>>, NEW f \in BOOLEAN
  PROVE  BatchGoes(EI!Noted([j EXCEPT !.left = Tail(@)], Head(j.left), f))
<1> DEFINE e == Head(j.left)
           l == Tail(j.left)
           s == Append(j.results, [entity |-> e, found |-> f])
           n == IF f THEN j.found + 1 ELSE j.found
           m == IF f THEN j.missing ELSE Append(j.missing, e)
           k == EI!Noted([j EXCEPT !.left = Tail(@)], e, f)
<1>1. j \in InspectionBatch /\ BatchParts(j.left, j.asked, j.results, j.found, j.missing)
  BY BatchOfParts
<1>2. BatchParts(l, j.asked, s, n, m)
  BY <1>1, PartsGoOn
<1> HIDE DEF e, l
<1>3. k = [[j EXCEPT !.left = l] EXCEPT !.results = s, !.found = n, !.missing = m]
  BY <1>1 DEF EI!Noted, InspectionBatch, l
<1> HIDE DEF s, n, m, k
<1>4. l \in Seq(Inspected) /\ s \in Seq(InspectionResult) /\ n \in Nat /\ m \in Seq(Inspected)
  BY <1>2 DEF BatchParts
<1>5. /\ k \in InspectionBatch
      /\ k.left = l /\ k.results = s /\ k.found = n /\ k.missing = m /\ k.asked = j.asked
  BY <1>1, <1>3, <1>4 DEF InspectionBatch
<1>6. BatchGoes(k)
  BY <1>2, <1>5, BatchOfParts
<1> QED
  BY <1>6 DEF k, e

LEMMA BatchTaken ==
  ASSUME NEW s \in EI!Asked, NEW n \in {1, MaxInspectBatch}
  PROVE  EI!Taken(s, n) \in Seq(Inspected)
<1>1. s \in Seq(Inspected) /\ Len(s) \in Nat
  BY DEF EI!Asked
<1>2. n \in Nat
  BY InspectorConstants
<1> DEFINE m == IF n < MaxInspectBatch THEN n ELSE MaxInspectBatch
<1>3. m \in Nat
  BY <1>2, InspectorConstants
<1> HIDE DEF m
<1>4. ASSUME ~(Len(s) < m) PROVE SubSeq(s, 1, m) \in Seq(Inspected)
  <2>1. \A i \in 1..m : s[i] \in Inspected
    BY <1>1, <1>3, <1>4, ElementOfSeq
  <2> QED
    BY <1>1, <1>3, <2>1, SubSeqProperties
<1> QED
  BY <1>1, <1>4 DEF EI!Taken, m

(* A step that gives a caller another job, and leaves it no lock.              *)
LEMMA InspectorMoves ==
  ASSUME InspectorInv, NEW c \in Inspectors, NEW j, InspectionJob(j),
         v7' = [v7 EXCEPT ![c] = j], v6' \in {v6, None}, v6' # c
  PROVE  InspectorInv'
<1>1. v7'[c] = j /\ \A d \in Inspectors : d # c => v7'[d] = v7[d]
  BY DEF InspectorInv
<1>2. DOMAIN v7' = Inspectors
  BY DEF InspectorInv
<1>3. \A d \in Inspectors : InspectionJob(v7'[d])
  BY <1>1 DEF InspectorInv
<1>4. \A d \in Inspectors : v6' = d => v7'[d].at = "fetch" /\ v7'[d].left # <<>>
  BY <1>1, InspectorConstants DEF InspectorInv
<1> QED
  BY <1>2, <1>3, <1>4 DEF InspectorInv, InspectionJob, BatchGoes, BatchDone

LEMMA InspectorStep ==
  ASSUME InspectorInv, [EI!Next]_(EI!vars)
  PROVE  InspectorInv'
<1>1. ASSUME v7' = v7, v6' = v6 PROVE InspectorInv'
  BY <1>1 DEF InspectorInv, InspectionJob, BatchGoes, BatchDone
<1>2. ASSUME NEW c \in Inspectors, v7[c].at # "fetch" PROVE v6 # c
  BY <1>2 DEF InspectorInv
<1>3. ASSUME NEW c \in Inspectors, NEW e \in Inspected, NEW m \in BOOLEAN, NEW r \in BOOLEAN,
             EI!inspect_entity(c, e, m, r)
      PROVE  InspectorInv'
  <2>1. v7[c].at \in {"none", "done"} /\ v6' = v6
    BY <1>3 DEF EI!inspect_entity
  <2>2. CASE EI!get_cached_entity(e) = {}
    <3> DEFINE j == [at |-> "fetch", kind |-> "one", left |-> <<e>>, meta |-> m, rel |-> r,
                     results |-> <<>>]
    <3>1. v7' = [v7 EXCEPT ![c] = j]
      BY <1>3, <2>2 DEF EI!inspect_entity
    <3>2. InspectionJob(j)
      BY DEF InspectionJob
    <3> QED
      BY <1>2, <2>1, <3>1, <3>2, InspectorMoves
  <2>3. CASE EI!get_cached_entity(e) # {}
    <3>1. PICK data, x, y : v7' = [v7 EXCEPT ![c] = EI!Answer(e, data, x, y)]
      BY <1>3, <2>3 DEF EI!inspect_entity
    <3>2. InspectionJob(EI!Answer(e, data, x, y))
      BY DEF InspectionJob, EI!Answer
    <3> QED
      BY <1>2, <2>1, <3>1, <3>2, InspectorMoves
  <2> QED
    BY <2>2, <2>3
<1>4. ASSUME NEW c \in Inspectors, NEW s \in EI!Asked, NEW m \in BOOLEAN, NEW r \in BOOLEAN,
             NEW n \in {1, MaxInspectBatch}, EI!inspect_batch(c, s, m, r, n)
      PROVE  InspectorInv'
  <2> DEFINE t == EI!Taken(s, n)
             j == [at |-> "fetch", kind |-> "batch", left |-> t, asked |-> t, meta |-> m,
                   rel |-> r, results |-> <<>>, found |-> 0, missing |-> <<>>]
  <2>1. v7[c].at \in {"none", "done"} /\ v6' = v6 /\ v7' = [v7 EXCEPT ![c] = j]
    BY <1>4 DEF EI!inspect_batch
  <2>2. t \in Seq(Inspected) /\ Len(t) \in Nat
    BY BatchTaken, LenProperties
  <2> HIDE DEF t
  <2>3. BatchGoes(j)
    BY <2>2 DEF BatchGoes, InspectionBatch
  <2>4. InspectionJob(j)
    BY <2>3 DEF InspectionJob
  <2> QED
    BY <1>2, <2>1, <2>4, InspectorMoves
<1>5. ASSUME NEW c \in Inspectors, EI!Locks(c) PROVE InspectorInv'
  <2>1. v6' = c /\ v7' = v7 /\ v7[c].at = "fetch" /\ v7[c].left # <<>>
    BY <1>5 DEF EI!Locks
  <2>2. \A d \in Inspectors : v6' = d => d = c
    BY <2>1
  <2>3. \A d \in Inspectors : InspectionJob(v7'[d])
    BY <2>1 DEF InspectorInv
  <2> QED
    BY <2>1, <2>2, <2>3 DEF InspectorInv, InspectionJob, BatchGoes, BatchDone
<1>6. ASSUME NEW c \in Inspectors, EI!Fetched(c) PROVE InspectorInv'
  <2> DEFINE e == Head(v7[c].left)
  <2>1. /\ v6 = c /\ v6' = None /\ v7[c].at = "fetch" /\ v7[c].left # <<>>
        /\ InspectionJob(v7[c]) /\ None # c
    BY <1>6, InspectorConstants DEF EI!Fetched, InspectorInv
  <2>2. PICK f \in {FALSE, (e \in DOMAIN v1)} : v7' = [v7 EXCEPT ![c] = EI!Answered(@, e, f)]
    BY <1>6 DEF EI!Fetched
  <2> DEFINE j == EI!Answered(v7[c], e, f)
  <2>3. v7' = [v7 EXCEPT ![c] = j]
    BY <2>2
  <2>4. CASE v7[c].kind = "batch"
    <3>1. BatchGoes(v7[c])
      BY <2>1, <2>4 DEF InspectionJob
    <3>2. f \in BOOLEAN
      <4>1. (e \in DOMAIN v1) \in BOOLEAN
        OBVIOUS
      <4> QED
        BY <4>1
    <3>3. j = EI!Noted([v7[c] EXCEPT !.left = Tail(@)], e, f)
      BY <2>4 DEF EI!Answered
    <3>4. BatchGoes(j)
      BY <2>1, <3>1, <3>2, <3>3, BatchGoesOn
    <3> HIDE DEF j
    <3>5. InspectionJob(j)
      BY <3>4 DEF InspectionJob, BatchGoes, InspectionBatch
    <3> QED
      BY <2>1, <2>3, <3>5, InspectorMoves
  <2>5. CASE v7[c].kind # "batch"
    <3>1. InspectionJob(j)
      BY <2>5 DEF InspectionJob, EI!Answered
    <3> QED
      BY <2>1, <2>3, <3>1, InspectorMoves
  <2> QED
    BY <2>4, <2>5
<1>7. ASSUME NEW c \in Inspectors, EI!BatchEnds(c) PROVE InspectorInv'
  <2> DEFINE j == [at |-> "done", results |-> v7[c].results, asked |-> v7[c].asked,
                   found |-> v7[c].found, missing |-> v7[c].missing]
  <2>1. v7[c].at = "fetch" /\ v7[c].kind = "batch" /\ v7[c].left = <<>> /\ v6' = v6
    BY <1>7 DEF EI!BatchEnds
  <2>2. v7' = [v7 EXCEPT ![c] = j]
    BY <1>7 DEF EI!BatchEnds, InspectorInv
  <2>3. BatchGoes(v7[c]) /\ v6 # c
    BY <2>1 DEF InspectorInv, InspectionJob
  <2>4. /\ Len(v7[c].results) \in Nat /\ Len(v7[c].left) = 0
        /\ DOMAIN v7[c].results = 1..Len(v7[c].results)
        /\ v7[c].asked = [i \in 1..Len(v7[c].asked) |-> v7[c].asked[i]]
    BY <2>1, <2>3, LenProperties DEF BatchGoes, InspectionBatch
  <2>5. BatchDone(j)
    <3>1. Len(v7[c].results) = Len(v7[c].asked)
      BY <2>3, <2>4 DEF BatchGoes
    <3>2. [i \in DOMAIN v7[c].results |-> v7[c].results[i].entity] = v7[c].asked
      BY <2>3, <2>4, <3>1 DEF BatchGoes
    <3> QED
      BY <2>3, <3>1, <3>2 DEF BatchGoes, BatchDone
  <2>6. InspectionJob(j)
    BY <2>5 DEF InspectionJob
  <2> QED
    BY <2>1, <2>2, <2>3, <2>6, InspectorMoves
<1>8. ASSUME NEW c \in Inspectors, EI!Builds(c) PROVE InspectorInv'
  <2>1. v7[c].at = "build" /\ v6' = v6
    BY <1>8 DEF EI!Builds
  <2>2. PICK e, d, m, r, k : v7' = [v7 EXCEPT ![c] = [at |-> "cache", entity |-> e, data |-> d,
                                              meta |-> m, rel |-> r, changed |-> k]]
    BY <1>8 DEF EI!Builds
  <2>3. InspectionJob([at |-> "cache", entity |-> e, data |-> d, meta |-> m, rel |-> r,
                       changed |-> k])
    BY DEF InspectionJob
  <2> QED
    BY <1>2, <2>1, <2>2, <2>3, InspectorMoves
<1>9. ASSUME NEW c \in Inspectors, EI!cache_entity(c) PROVE InspectorInv'
  <2> DEFINE j == [v7[c] EXCEPT !.at = "track"]
  <2>1. v7[c].at = "cache" /\ v6' = v6 /\ v7' = [v7 EXCEPT ![c] = j]
    BY <1>9 DEF EI!cache_entity
  <2>2. InspectionJob(j)
    BY DEF InspectorInv, InspectionJob
  <2> QED
    BY <1>2, <2>1, <2>2, InspectorMoves
<1>10. ASSUME NEW c \in Inspectors, EI!update_change_tracking(c) PROVE InspectorInv'
  <2>1. v7[c].at = "track" /\ v6' = v6
    BY <1>10 DEF EI!update_change_tracking
  <2>2. PICK e, d, x, y : v7' = [v7 EXCEPT ![c] = EI!Answer(e, d, x, y)]
    BY <1>10 DEF EI!update_change_tracking
  <2>3. InspectionJob(EI!Answer(e, d, x, y))
    BY DEF InspectionJob, EI!Answer
  <2> QED
    BY <1>2, <2>1, <2>2, <2>3, InspectorMoves
<1> QED
  BY <1>1, <1>3, <1>4, <1>5, <1>6, <1>7, <1>8, <1>9, <1>10
     DEF EI!Next, EI!vars, EI!WorldChanges, EI!Tick, EI!invalidate_cache

LEMMA InspectorAnswersWhole == ASSUME InspectorInv PROVE EI!BatchIsComplete
  BY DEF InspectorInv, InspectionJob, BatchDone, EI!BatchIsComplete

(* Two snapshots and what is reported of them: nothing exactly when they are   *)
(* the same up to the tolerance.  The snapshots that are kept are of the past, *)
(* and a call compares with the world as it was when it was asked.             *)
SnapshotsKept ==
  /\ v1 \in Nat /\ v7 \in Nat /\ v6 \in Seq(OB!Snapshots)
  /\ \A i \in 1..Len(v6) : v6[i].generation <= v7 /\ v6[i].at <= v1
  /\ OB!HistoryIsLatest

WorldsSeen ==
  /\ v2 \in OB!Worlds
  /\ v8 \in [Observers -> [at : {"idle", "send", "got"}, diff : BOOLEAN, target : Int,
                           world : OB!Worlds \cup {None}]]

ObserveInv == OB!DiffIsComplete /\ SnapshotsKept /\ WorldsSeen

LEMMA ObserveConstants == KeptSnapshots \in Nat \ {0} /\ None \notin OB!Snapshots
  BY ProvedPartsAssumption DEF OB!ObserveAssumption

LEMMA ObserveStart == ASSUME OB!Init PROVE ObserveInv
<1>1. OB!DiffIsComplete /\ WorldsSeen
  BY DEF OB!Init, OB!Idle, OB!DiffIsComplete, WorldsSeen
<1>2. SnapshotsKept
  BY DEF OB!Init, OB!HistoryIsLatest, SnapshotsKept
<1> QED
  BY <1>1, <1>2 DEF ObserveInv

LEMMA EntitiesCompared ==
  ASSUME NEW e, NEW b, NEW a
  PROVE  OB!diff_entity(e, b, a) = {}
           <=> /\ DOMAIN b = DOMAIN a
               /\ \A k \in DOMAIN b : OB!fuzzy_eq(b[k], a[k])
<1> DEFINE Added == {OB!Change("ComponentAdded", e, c, None, a[c]) : c \in DOMAIN a \ DOMAIN b}
           Removed == {OB!Change("ComponentRemoved", e, c, b[c], None) : c \in DOMAIN b \ DOMAIN a}
           Other == {c \in DOMAIN a \cap DOMAIN b : ~OB!fuzzy_eq(b[c], a[c])}
           Modified == {OB!Change("ComponentModified", e, c, b[c], a[c]) : c \in Other}
<1>1. OB!diff_entity(e, b, a) = Added \cup Removed \cup Modified
  BY DEF OB!diff_entity
<1>2. Added = {} <=> DOMAIN a \subseteq DOMAIN b
  OBVIOUS
<1>3. Removed = {} <=> DOMAIN b \subseteq DOMAIN a
  OBVIOUS
<1>4. Modified = {} <=> \A k \in DOMAIN a \cap DOMAIN b : OB!fuzzy_eq(b[k], a[k])
  OBVIOUS
<1> HIDE DEF Added, Removed, Modified
<1>5. OB!diff_entity(e, b, a) = {} <=> Added = {} /\ Removed = {} /\ Modified = {}
  BY <1>1
<1>6. DOMAIN b = DOMAIN a <=> DOMAIN a \subseteq DOMAIN b /\ DOMAIN b \subseteq DOMAIN a
  OBVIOUS
<1> QED
  BY <1>2, <1>3, <1>4, <1>5, <1>6

LEMMA SnapshotsCompared ==
  ASSUME NEW before, NEW after
  PROVE  OB!diff_snapshots(before, after) = {} <=> OB!SameUpToTolerance(before.world, after.world)
<1> DEFINE v == before.world
           w == after.world
           both == DOMAIN v \cap DOMAIN w
           Inside == UNION {OB!diff_entity(e, v[e], w[e]) : e \in both}
           Around == OB!EntityChanges(v, w)
           all == Around \cup Inside
<1>1. OB!diff_snapshots(before, after) = {} <=> all = {}
  BY DEF OB!diff_snapshots
<1> HIDE DEF v, w
<1>2. Around = {} <=> DOMAIN v = DOMAIN w
  <2>1. {OB!Change("EntityAdded", e, None, None, None) : e \in DOMAIN w \ DOMAIN v} = {}
          <=> DOMAIN w \subseteq DOMAIN v
    OBVIOUS
  <2>2. {OB!Change("EntityRemoved", e, None, None, None) : e \in DOMAIN v \ DOMAIN w} = {}
          <=> DOMAIN v \subseteq DOMAIN w
    OBVIOUS
  <2>3. DOMAIN v = DOMAIN w <=> DOMAIN v \subseteq DOMAIN w /\ DOMAIN w \subseteq DOMAIN v
    OBVIOUS
  <2> QED
    BY <2>1, <2>2, <2>3 DEF OB!EntityChanges
<1>3. Inside = {} <=> \A e \in both : OB!diff_entity(e, v[e], w[e]) = {}
  OBVIOUS
<1>4. Inside = {} <=> \A e \in both : /\ DOMAIN v[e] = DOMAIN w[e]
                                      /\ \A k \in DOMAIN v[e] : OB!fuzzy_eq(v[e][k], w[e][k])
  BY <1>3, EntitiesCompared
<1> HIDE DEF Inside, Around
<1>5. all = {} <=> Around = {} /\ Inside = {}
  OBVIOUS
<1>6. OB!SameUpToTolerance(v, w) <=> Around = {} /\ Inside = {}
  BY <1>2, <1>4 DEF OB!SameUpToTolerance
<1> QED
  BY <1>1, <1>5, <1>6 DEF v, w

LEMMA DiffStaysComplete ==
  ASSUME OB!DiffIsComplete, [OB!Next]_(OB!observeVars)
  PROVE  OB!DiffIsComplete'
<1>1. CASE v9' = v9
  BY <1>1 DEF OB!DiffIsComplete, OB!SameUpToTolerance
<1>2. ASSUME NEW c \in Observers, OB!Diff(c) PROVE OB!DiffIsComplete'
  <2>1. \/ v9' = None
        \/ \E before, after, last, target :
             v9' = [before |-> before, after |-> after, last |-> last, target |-> target,
                    changes |-> OB!diff_snapshots(before, after)]
    BY <1>2 DEF OB!Diff
  <2>2. ASSUME NEW before, NEW after, NEW last, NEW target,
               v9' = [before |-> before, after |-> after, last |-> last, target |-> target,
                      changes |-> OB!diff_snapshots(before, after)]
        PROVE  OB!DiffIsComplete'
    <3>1. /\ v9'.before = before /\ v9'.after = after
          /\ v9'.changes = OB!diff_snapshots(before, after)
      BY <2>2
    <3> QED
      BY <3>1, SnapshotsCompared DEF OB!DiffIsComplete, OB!SameUpToTolerance
  <2> QED
    BY <2>1, <2>2 DEF OB!DiffIsComplete
<1>3. CASE OB!GameMoves \/ OB!clear_cache
  BY <1>1, <1>3 DEF OB!GameMoves, OB!clear_cache
<1>4. CASE UNCHANGED OB!observeVars
  BY <1>1, <1>4 DEF OB!observeVars
<1>5. ASSUME NEW c \in Observers, OB!clear_history(c) \/ OB!Request(c) \/ OB!Stores(c)
      PROVE  OB!DiffIsComplete'
  BY <1>1, <1>5 DEF OB!clear_history, OB!Request, OB!Stores
<1>6. ASSUME NEW c \in Observers, NEW d \in BOOLEAN, NEW t, OB!Observes(c, d, t)
      PROVE  OB!DiffIsComplete'
  BY <1>1, <1>6 DEF OB!Observes
<1> QED
  BY <1>2, <1>3, <1>4, <1>5, <1>6 DEF OB!Next

LEMMA SnapshotsAreDated ==
  ASSUME NEW q \in Seq(OB!Snapshots), NEW i \in 1..Len(q)
  PROVE  q[i].generation \in Nat /\ q[i].at \in Nat
<1>1. q[i] \in OB!Snapshots
  BY ElementOfSeq
<1> QED
  BY <1>1 DEF OB!Snapshots

(* The new snapshot is later than those kept, and becomes the last of them.    *)
LEMMA NewestIsLast ==
  ASSUME SnapshotsKept, NEW s \in OB!Snapshots, s.generation = v7 + 1, s.at = v1,
         v1' = v1, v7' = v7 + 1, v6' = OB!Newest(v6, s), v5' = s
  PROVE  SnapshotsKept'
<1> DEFINE old == IF Len(v6) + 1 > KeptSnapshots THEN Tail(v6) ELSE v6
<1>1. /\ v1 \in Nat /\ v7 \in Nat /\ v6 \in Seq(OB!Snapshots) /\ Len(v6) \in Nat
      /\ \A i \in 1..Len(v6) : v6[i].generation <= v7 /\ v6[i].at <= v1
      /\ \A i, j \in 1..Len(v6) : i < j =>
           v6[i].generation < v6[j].generation /\ v6[i].at <= v6[j].at
  BY LenProperties DEF SnapshotsKept, OB!HistoryIsLatest
<1>2. /\ old \in Seq(OB!Snapshots) /\ Len(old) \in Nat
      /\ \E k \in 0..1 : \A i \in 1..Len(old) : i + k \in 1..Len(v6) /\ old[i] = v6[i + k]
  <2>1. CASE Len(v6) + 1 > KeptSnapshots
    <3>1. Len(v6) > 0 /\ v6 # <<>>
      BY <1>1, <2>1, ObserveConstants
    <3>2. /\ Tail(v6) \in Seq(OB!Snapshots) /\ Len(Tail(v6)) = Len(v6) - 1
          /\ \A i \in 1..Len(Tail(v6)) : Tail(v6)[i] = v6[i + 1]
      BY <1>1, <3>1, HeadTailProperties
    <3> QED
      BY <1>1, <2>1, <3>1, <3>2
  <2>2. CASE ~(Len(v6) + 1 > KeptSnapshots)
    BY <1>1, <2>2
  <2> QED
    BY <2>1, <2>2
<1>3. /\ \A i \in 1..Len(old) : old[i].generation <= v7 /\ old[i].at <= v1
      /\ \A i, j \in 1..Len(old) : i < j =>
           old[i].generation < old[j].generation /\ old[i].at <= old[j].at
  BY <1>1, <1>2
<1>4. v6' = Append(old, s)
  BY DEF OB!Newest
<1> HIDE DEF old
<1>5. /\ v6' \in Seq(OB!Snapshots) /\ Len(v6') = Len(old) + 1
      /\ v6'[Len(v6')] = s /\ \A i \in 1..Len(old) : v6'[i] = old[i]
  BY <1>2, <1>4, AppendProperties
<1>6. \A i \in 1..Len(v6') : v6'[i] \in OB!Snapshots /\ (i \in 1..Len(old) \/ i = Len(v6'))
  BY <1>2, <1>5
<1>7. \A i \in 1..Len(v6') : v6'[i].generation <= v7' /\ v6'[i].at <= v1'
  <2>1. ASSUME NEW i \in 1..Len(old) PROVE v6'[i].generation <= v7 + 1 /\ v6'[i].at <= v1
    <3>1. old[i].generation \in Nat /\ old[i].generation <= v7 /\ old[i].at <= v1
      BY <1>2, <1>3, SnapshotsAreDated
    <3> QED
      BY <1>1, <1>5, <3>1
  <2> QED
    BY <1>1, <1>5, <1>6, <2>1
<1>8. \A i, j \in 1..Len(v6') : i < j =>
        v6'[i].generation < v6'[j].generation /\ v6'[i].at <= v6'[j].at
  <2> SUFFICES ASSUME NEW i \in 1..Len(v6'), NEW j \in 1..Len(v6'), i < j
               PROVE  v6'[i].generation < v6'[j].generation /\ v6'[i].at <= v6'[j].at
    OBVIOUS
  <2>1. i \in 1..Len(old)
    BY <1>2, <1>5
  <2>2. CASE j = Len(v6')
    <3>1. old[i].generation \in Nat /\ old[i].generation <= v7 /\ old[i].at <= v1
      BY <1>2, <1>3, <2>1, SnapshotsAreDated
    <3>2. v6'[i] = old[i] /\ v6'[j] = s
      BY <1>5, <2>1, <2>2
    <3> QED
      BY <1>1, <3>1, <3>2
  <2>3. CASE j \in 1..Len(old)
    BY <1>3, <1>5, <2>1, <2>3
  <2> QED
    BY <1>6, <2>2, <2>3
<1>9. v5' # None /\ v6' # <<>>
  <2>1. Len(<<>>) = 0 /\ Len(v6') # 0
    BY <1>2, <1>5
  <2> QED
    BY <2>1, ObserveConstants
<1> QED
  BY <1>1, <1>5, <1>7, <1>8, <1>9 DEF SnapshotsKept, OB!HistoryIsLatest

LEMMA ObserveStep ==
  ASSUME ObserveInv, [OB!Next]_(OB!observeVars)
  PROVE  ObserveInv'
<1> USE DEF ObserveInv
<1>1. OB!DiffIsComplete'
  BY DiffStaysComplete
<1>2. ASSUME UNCHANGED <<v1, v5, v6, v7>> PROVE SnapshotsKept'
  BY <1>2 DEF SnapshotsKept, OB!HistoryIsLatest
<1>3. ASSUME v5' = None, v6' = <<>>, v7' = v7 \/ v7' = 0, v1' = v1 PROVE SnapshotsKept'
  BY <1>3 DEF SnapshotsKept, OB!HistoryIsLatest
<1>4. ASSUME NEW c \in Observers, v2' = v2, v8' = [v8 EXCEPT ![c] = OB!Idle] PROVE WorldsSeen'
  BY <1>4 DEF WorldsSeen, OB!Idle
<1>5. ASSUME v2' = v2, v8' = v8 PROVE WorldsSeen'
  BY <1>5 DEF WorldsSeen
<1>6. CASE OB!GameMoves
  <2>1. v1' = v1 + 1 /\ UNCHANGED <<v5, v6, v7, v8>> /\ v2' \in OB!Worlds
    BY <1>6 DEF OB!GameMoves, OB!diffVars
  <2>2. WorldsSeen'
    BY <2>1 DEF WorldsSeen
  <2>3. \A i \in 1..Len(v6) : v6[i].at \in Nat
    BY SnapshotsAreDated DEF SnapshotsKept
  <2>4. SnapshotsKept'
    BY <2>1, <2>3 DEF SnapshotsKept, OB!HistoryIsLatest
  <2> QED
    BY <1>1, <2>2, <2>4
<1>7. CASE OB!clear_cache
  BY <1>1, <1>3, <1>5, <1>7 DEF OB!clear_cache, OB!gameVars
<1>8. CASE UNCHANGED OB!observeVars
  BY <1>1, <1>2, <1>5, <1>8 DEF OB!observeVars, OB!gameVars, OB!diffVars
<1>9. ASSUME NEW c \in Observers, OB!clear_history(c) PROVE ObserveInv'
  BY <1>1, <1>3, <1>5, <1>9 DEF OB!clear_history, OB!gameVars
<1>10. ASSUME NEW c \in Observers, OB!Request(c) PROVE ObserveInv'
  <2>1. UNCHANGED <<v1, v5, v6, v7>> /\ v2' = v2
    BY <1>10 DEF OB!Request, OB!gameVars, OB!diffVars
  <2>2. CASE v8' = [v8 EXCEPT ![c].at = "got", ![c].world = v2]
    BY <1>1, <1>2, <2>1, <2>2 DEF WorldsSeen
  <2> QED
    BY <1>1, <1>2, <1>4, <1>10, <2>1, <2>2 DEF OB!Request
<1>11. ASSUME NEW c \in Observers, OB!Diff(c) PROVE ObserveInv'
  <2> DEFINE s == [generation |-> v7 + 1, at |-> v1, world |-> v8[c].world]
  <2>1. /\ v1' = v1 /\ v2' = v2 /\ v7' = v7 + 1 /\ v6' = OB!Newest(v6, s) /\ v5' = s
        /\ v8' = [v8 EXCEPT ![c] = OB!Idle]
    BY <1>11 DEF OB!Diff, OB!gameVars
  <2>2. s \in OB!Snapshots
    BY DEF SnapshotsKept, WorldsSeen, OB!Snapshots
  <2>3. SnapshotsKept'
    BY <2>1, <2>2, NewestIsLast
  <2> QED
    BY <1>1, <1>4, <2>1, <2>3
<1>12. ASSUME NEW c \in Observers, OB!Stores(c) PROVE ObserveInv'
  BY <1>1, <1>2, <1>4, <1>12 DEF OB!Stores, OB!gameVars, OB!diffVars
<1>13. ASSUME NEW c \in Observers, NEW d \in BOOLEAN, NEW t \in 0..KeptSnapshots,
              OB!Observes(c, d, t)
       PROVE  ObserveInv'
  <2>1. UNCHANGED <<v1, v5, v6, v7>> /\ v2' = v2
    BY <1>13 DEF OB!Observes, OB!gameVars, OB!diffVars
  <2>2. CASE v8' = [v8 EXCEPT ![c] = [at |-> "send", diff |-> d, target |-> t, world |-> None]]
    BY <1>1, <1>2, <2>1, <2>2 DEF WorldsSeen
  <2> QED
    BY <1>1, <1>2, <1>5, <1>13, <2>1, <2>2 DEF OB!Observes
<1> QED
  BY <1>6, <1>7, <1>8, <1>9, <1>10, <1>11, <1>12, <1>13 DEF OB!Next

LEMMA ObserveKeepsLatest == ASSUME ObserveInv PROVE OB!HistoryIsLatest
  BY DEF ObserveInv, SnapshotsKept

(* A query is answered with what fits its filter, and with all of it unless    *)
(* there are as many as its limit.                                             *)
RpcInv == JR!AnswersAreWhole

LEMMA RpcStart == ASSUME JR!Init PROVE RpcInv
  BY DEF JR!Init, RpcInv, JR!AnswersAreWhole

LEMMA RpcStep ==
  ASSUME RpcInv, [JR!Next]_(JR!vars)
  PROVE  RpcInv'
<1>1. CASE v6' = v6
  BY <1>1 DEF RpcInv, JR!AnswersAreWhole
<1>2. CASE v6'.kind # "entities"
  BY <1>2 DEF RpcInv, JR!AnswersAreWhole
<1>3. CASE JR!Converted
  <2>1. CASE v5.ask.kind \in {"query", "entities"}
    <3> DEFINE fit == JR!Where(v5.result, v5.ask, v3)
    <3>1. PICK S \in JR!Found(v5.result, v5.ask, v3) :
            v6' = [kind |-> "entities", ask |-> v5.ask, found |-> S, rows |-> v5.result,
                   known |-> v3]
      BY <1>3, <2>1 DEF JR!Converted, JR!Return
    <3>2. S \in JR!Truncated(fit, v5.ask)
      BY <3>1 DEF JR!Found
    <3> HIDE DEF fit
    <3>3. /\ S \subseteq fit
          /\ S # fit => /\ v5.ask.kind = "query" /\ v5.ask.limit # None
                        /\ JR!Cardinality(S) = v5.ask.limit
      BY <3>2 DEF JR!Truncated
    <3>4. /\ v6'.found = S /\ v6'.ask = v5.ask
          /\ JR!Where(v6'.rows, v6'.ask, v6'.known) = fit
      BY <3>1 DEF fit
    <3> QED
      BY <3>3, <3>4 DEF RpcInv, JR!AnswersAreWhole
  <2>2. CASE v5.ask.kind \notin {"query", "entities"}
    BY <1>2, <1>3, <2>2 DEF JR!Converted, JR!Return, JR!Failed
  <2> QED
    BY <2>1, <2>2
<1>4. CASE JR!NotBuilt \/ JR!PostFails \/ JR!GameRefuses
  <2>1. CASE JR!NotBuilt
    BY <1>2, <2>1 DEF JR!NotBuilt, JR!Return, JR!Failed
  <2>2. CASE JR!PostFails
    BY <1>2, <2>2 DEF JR!PostFails, JR!Return, JR!Failed
  <2>3. CASE JR!GameRefuses
    BY <1>2, <2>3 DEF JR!GameRefuses, JR!Return
  <2> QED
    BY <1>4, <2>1, <2>2, <2>3
<1>5. CASE JR!GameGoesOn \/ JR!Built \/ JR!Executed
  BY <1>1, <1>5 DEF JR!GameGoesOn, JR!Built, JR!Executed
<1>6. CASE \E r \in JR!Asks : JR!Begin(r)
  BY <1>1, <1>6 DEF JR!Begin
<1>7. CASE \E stage \in {"build", "convert"} : JR!TypesFetched(stage)
  BY <1>1, <1>7 DEF JR!TypesFetched
<1>8. CASE UNCHANGED JR!vars
  BY <1>1, <1>8 DEF JR!vars
<1> QED
  BY <1>3, <1>4, <1>5, <1>6, <1>7, <1>8 DEF JR!Next

-----------------------------------------------------------------------------
(* The hypotheses' test runner.                                                *)
VariationOutcomes == {"failed", "met", "unmet"}
Failed == {"failed", "unmet"}

(* The variations that came out so, those that failed first, and the counts    *)
(* that tell of them: an example for each failure as long as there is room,    *)
(* none of it later than the run, and an edge case for each that is not met.   *)
Came(o, what) == {i \in 1..Len(o) : o[i] \in what}
FirstFailed(o) ==
  {i \in Came(o, Failed) : Cardinality({j \in Came(o, Failed) : j < i}) < KeptExamples}

RunTypes(o, s, f, ex, ed) ==
  /\ o \in Seq(VariationOutcomes) /\ s \in Nat /\ f \in Nat
  /\ ex \in Seq(Nat) /\ ed \in Seq(Nat)

ExamplesAreFirst(o, f, ex) ==
  /\ Len(ex) = IF f < KeptExamples THEN f ELSE KeptExamples
  /\ \A x, y \in 1..Len(ex) : ex[x] = ex[y] => x = y
  /\ \A x \in 1..Len(ex) : ex[x] < Len(o)
  /\ {x + 1 : x \in KeysIn(ex)} = FirstFailed(o)

UnmetAreEdges(o, ed) == \A i \in Came(o, {"unmet"}) : i - 1 \in KeysIn(ed)

RunTold(o, s, f, ex, ed) ==
  /\ RunTypes(o, s, f, ex, ed)
  /\ s = Cardinality(Came(o, {"met"})) /\ f = Cardinality(Came(o, Failed))
  /\ ExamplesAreFirst(o, f, ex)
  /\ UnmetAreEdges(o, ed)

HypothesesInv == RunTold(v2, v3, v4, v5, v6)

LEMMA KeptExamplesIsNat == KeptExamples \in Nat
  BY ProvedPartsAssumption DEF HY!HypothesesAssumption

LEMMA NothingRun == RunTold(<<>>, 0, 0, <<>>, <<>>)
<1>1. \A what : Came(<<>>, what) = {}
  BY DEF Came
<1>2. FirstFailed(<<>>) = {} /\ KeysIn(<<>>) = {}
  BY <1>1 DEF FirstFailed, KeysIn
<1>3. {x + 1 : x \in {}} = {} /\ Len(<<>>) = 0
  OBVIOUS
<1>4. ExamplesAreFirst(<<>>, 0, <<>>)
  BY <1>2, <1>3, KeptExamplesIsNat DEF ExamplesAreFirst
<1>5. RunTypes(<<>>, 0, 0, <<>>, <<>>)
  BY DEF RunTypes
<1> QED
  BY <1>1, <1>4, <1>5, FS_EmptySet DEF RunTold, UnmetAreEdges

LEMMA HypothesesStart == ASSUME HY!Init PROVE HypothesesInv
  BY NothingRun DEF HY!Init, HypothesesInv

(* One more outcome is one more variation that came out so.                    *)
LEMMA OneMoreCame ==
  ASSUME NEW o \in Seq(VariationOutcomes), NEW r \in VariationOutcomes, NEW what
  PROVE  /\ Came(Append(o, r), what) =
              IF r \in what THEN Came(o, what) \cup {Len(o) + 1} ELSE Came(o, what)
         /\ IsFiniteSet(Came(o, what)) /\ Cardinality(Came(o, what)) \in Nat
         /\ Len(o) + 1 \notin Came(o, what)
         /\ Cardinality(Came(o, what) \cup {Len(o) + 1}) = Cardinality(Came(o, what)) + 1
<1>1. Len(o) \in Nat
  BY LenProperties
<1>2. /\ Len(Append(o, r)) = Len(o) + 1 /\ Append(o, r)[Len(o) + 1] = r
      /\ \A i \in 1..Len(o) : Append(o, r)[i] = o[i]
  BY AppendProperties
<1>3. Came(Append(o, r), what) =
        IF r \in what THEN Came(o, what) \cup {Len(o) + 1} ELSE Came(o, what)
  BY <1>1, <1>2 DEF Came
<1>4. Came(o, what) \subseteq 1..Len(o)
  BY DEF Came
<1>5. IsFiniteSet(Came(o, what)) /\ Cardinality(Came(o, what)) \in Nat
  <2>1. IsFiniteSet(1..Len(o))
    BY <1>1, FS_Interval
  <2>2. IsFiniteSet(Came(o, what))
    BY <1>4, <2>1, FS_Subset
  <2> QED
    BY <2>2, FS_CardinalityType
<1>6. Len(o) + 1 \notin Came(o, what)
  BY <1>1, <1>4
<1>7. Cardinality(Came(o, what) \cup {Len(o) + 1}) = Cardinality(Came(o, what)) + 1
  BY <1>5, <1>6, FS_AddElement
<1> QED
  BY <1>3, <1>5, <1>6, <1>7

(* A variation that is met adds no example.                                    *)
LEMMA ExamplesWhenMet ==
  ASSUME NEW o \in Seq(VariationOutcomes), NEW f, NEW ex \in Seq(Nat), ExamplesAreFirst(o, f, ex)
  PROVE  ExamplesAreFirst(Append(o, "met"), f, ex)
<1>1. Came(Append(o, "met"), Failed) = Came(o, Failed)
  BY OneMoreCame DEF VariationOutcomes, Failed
<1>2. FirstFailed(Append(o, "met")) = FirstFailed(o)
  BY <1>1 DEF FirstFailed
<1>3. Len(Append(o, "met")) = Len(o) + 1 /\ Len(o) \in Nat
  BY AppendProperties, LenProperties DEF VariationOutcomes
<1>4. \A x \in 1..Len(ex) : ex[x] \in Nat
  BY ElementOfSeq
<1>5. \A x \in 1..Len(ex) : ex[x] < Len(o) + 1
  BY <1>3, <1>4 DEF ExamplesAreFirst
<1> QED
  BY <1>2, <1>3, <1>5 DEF ExamplesAreFirst

(* The next failure is among the first if there are fewer than are kept.       *)
LEMMA NextFailed ==
  ASSUME NEW o \in Seq(VariationOutcomes), NEW r \in Failed
  PROVE  FirstFailed(Append(o, r)) =
           IF Cardinality(Came(o, Failed)) < KeptExamples
           THEN FirstFailed(o) \cup {Len(o) + 1} ELSE FirstFailed(o)
<1> DEFINE F == Came(o, Failed)
           n == Len(o) + 1
           G == F \cup {n}
<1>1. r \in VariationOutcomes /\ Len(o) \in Nat
  BY LenProperties DEF Failed, VariationOutcomes
<1>2. Came(Append(o, r), Failed) = G
  BY <1>1, OneMoreCame
<1>3. F \subseteq 1..Len(o)
  BY DEF Came
<1> HIDE DEF F
<1>4. {j \in G : j < n} = F
  <2>1. \A j \in F : j < n
    BY <1>1, <1>3
  <2>2. ~(n < n)
    BY <1>1
  <2> QED
    BY <2>1, <2>2
<1>5. \A i \in F : {j \in G : j < i} = {j \in F : j < i}
  BY <1>1, <1>3
<1>6. FirstFailed(Append(o, r)) = {i \in G : Cardinality({j \in G : j < i}) < KeptExamples}
  BY <1>2 DEF FirstFailed
<1>7. FirstFailed(o) = {i \in F : Cardinality({j \in F : j < i}) < KeptExamples}
  BY DEF FirstFailed, F
<1> DEFINE Few(i) == Cardinality({j \in G : j < i}) < KeptExamples
           Was(i) == Cardinality({j \in F : j < i}) < KeptExamples
<1>8. \A i \in F : Few(i) <=> Was(i)
  BY <1>5
<1>9. Few(n) <=> Cardinality(F) < KeptExamples
  BY <1>4
<1> HIDE DEF Few, Was
<1>10. FirstFailed(Append(o, r)) = {i \in G : Few(i)} /\ FirstFailed(o) = {i \in F : Was(i)}
  BY <1>6, <1>7 DEF Few, Was
<1>11. {i \in G : Few(i)} = IF Cardinality(F) < KeptExamples
                            THEN {i \in F : Was(i)} \cup {n} ELSE {i \in F : Was(i)}
  BY <1>8, <1>9
<1> QED
  BY <1>10, <1>11 DEF F

(* A variation that failed becomes an example as long as there is room.        *)
LEMMA ExamplesWhenFailed ==
  ASSUME NEW o \in Seq(VariationOutcomes), NEW f \in Nat, NEW ex \in Seq(Nat),
         NEW r \in Failed, f = Cardinality(Came(o, Failed)), ExamplesAreFirst(o, f, ex),
         NEW e, e = IF Len(ex) < KeptExamples THEN Append(ex, Len(o)) ELSE ex
  PROVE  e \in Seq(Nat) /\ ExamplesAreFirst(Append(o, r), f + 1, e)
<1>1. /\ Len(ex) \in Nat /\ Len(o) \in Nat /\ KeptExamples \in Nat
      /\ \A x \in 1..Len(ex) : ex[x] \in Nat /\ ex[x] < Len(o)
  BY LenProperties, ElementOfSeq, KeptExamplesIsNat DEF ExamplesAreFirst
<1>2. Len(Append(o, r)) = Len(o) + 1
  BY AppendProperties DEF Failed, VariationOutcomes
<1>3. Len(ex) < KeptExamples <=> f < KeptExamples
  BY <1>1 DEF ExamplesAreFirst
<1>4. CASE f < KeptExamples
  <2>1. /\ e \in Seq(Nat) /\ Len(e) = Len(ex) + 1 /\ e[Len(ex) + 1] = Len(o)
        /\ \A x \in 1..Len(ex) : e[x] = ex[x]
    BY <1>1, <1>3, <1>4, AppendProperties
  <2>2. Len(e) = IF f + 1 < KeptExamples THEN f + 1 ELSE KeptExamples
    BY <1>1, <1>4, <2>1 DEF ExamplesAreFirst
  <2>3. \A x \in 1..Len(e) : e[x] < Len(o) + 1
    BY <1>1, <2>1
  <2>4. \A x, y \in 1..Len(e) : e[x] = e[y] => x = y
    BY <1>1, <2>1 DEF ExamplesAreFirst
  <2>5. KeysIn(e) = KeysIn(ex) \cup {Len(o)}
    BY <1>1, <1>3, <1>4, Appended
  <2>6. {x + 1 : x \in KeysIn(e)} = {x + 1 : x \in KeysIn(ex)} \cup {Len(o) + 1}
    BY <2>5
  <2>7. {x + 1 : x \in KeysIn(e)} = FirstFailed(Append(o, r))
    BY <1>4, <2>6, NextFailed DEF ExamplesAreFirst
  <2> QED
    BY <1>2, <2>1, <2>2, <2>3, <2>4, <2>7 DEF ExamplesAreFirst
<1>5. CASE ~(f < KeptExamples)
  <2>1. e = ex
    BY <1>3, <1>5
  <2>2. FirstFailed(Append(o, r)) = FirstFailed(o)
    BY <1>5, NextFailed
  <2>3. \A x \in 1..Len(ex) : ex[x] < Len(o) + 1
    BY <1>1
  <2>4. Len(ex) = IF f + 1 < KeptExamples THEN f + 1 ELSE KeptExamples
    BY <1>1, <1>5 DEF ExamplesAreFirst
  <2> QED
    BY <1>2, <2>1, <2>2, <2>3, <2>4 DEF ExamplesAreFirst
<1> QED
  BY <1>4, <1>5

LEMMA EdgesGoOn ==
  ASSUME NEW o \in Seq(VariationOutcomes), NEW ed \in Seq(Nat), NEW r \in VariationOutcomes,
         UnmetAreEdges(o, ed), NEW e, (e = ed /\ r # "unmet") \/ e = Append(ed, Len(o))
  PROVE  e \in Seq(Nat) /\ UnmetAreEdges(Append(o, r), e)
<1>1. Len(o) \in Nat /\ Len(ed) \in Nat
  BY LenProperties
<1>2. Came(Append(o, r), {"unmet"}) \subseteq Came(o, {"unmet"}) \cup (IF r = "unmet" THEN {Len(o) + 1} ELSE {})
  BY OneMoreCame
<1>3. CASE e = ed /\ r # "unmet"
  BY <1>2, <1>3 DEF UnmetAreEdges
<1>4. CASE e = Append(ed, Len(o))
  <2>1. e \in Seq(Nat)
    BY <1>1, <1>4, AppendProperties
  <2>2. KeysIn(e) = KeysIn(ed) \cup {Len(o)}
    BY <1>1, <1>4, Appended
  <2>3. (Len(o) + 1) - 1 = Len(o)
    BY <1>1
  <2> QED
    BY <1>2, <2>1, <2>2, <2>3 DEF UnmetAreEdges
<1> QED
  BY <1>3, <1>4

(* A variation that is met, and one that is not.                               *)
LEMMA VariationMet ==
  ASSUME NEW o, NEW s, NEW f, NEW ex, NEW ed, RunTold(o, s, f, ex, ed),
         NEW e, e = ed \/ e = Append(ed, Len(o))
  PROVE  RunTold(Append(o, "met"), s + 1, f, ex, e)
<1>1. o \in Seq(VariationOutcomes) /\ s \in Nat /\ f \in Nat /\ ex \in Seq(Nat) /\ ed \in Seq(Nat)
  BY DEF RunTold, RunTypes
<1>2. e \in Seq(Nat) /\ UnmetAreEdges(Append(o, "met"), e)
  BY <1>1, EdgesGoOn DEF RunTold, VariationOutcomes
<1>3. ExamplesAreFirst(Append(o, "met"), f, ex)
  BY <1>1, ExamplesWhenMet DEF RunTold
<1>4. /\ s + 1 = Cardinality(Came(Append(o, "met"), {"met"}))
      /\ f = Cardinality(Came(Append(o, "met"), Failed))
  BY <1>1, OneMoreCame DEF RunTold, VariationOutcomes, Failed
<1>5. RunTypes(Append(o, "met"), s + 1, f, ex, e)
  BY <1>1, <1>2, AppendProperties DEF RunTypes, VariationOutcomes
<1> QED
  BY <1>2, <1>3, <1>4, <1>5 DEF RunTold

LEMMA VariationFailed ==
  ASSUME NEW o, NEW s, NEW f, NEW ex, NEW ed, RunTold(o, s, f, ex, ed), NEW r \in Failed,
         NEW e, (e = ed /\ r # "unmet") \/ e = Append(ed, Len(o)),
         NEW x, x = IF Len(ex) < KeptExamples THEN Append(ex, Len(o)) ELSE ex
  PROVE  RunTold(Append(o, r), s, f + 1, x, e)
<1>1. o \in Seq(VariationOutcomes) /\ s \in Nat /\ f \in Nat /\ ex \in Seq(Nat) /\ ed \in Seq(Nat)
  BY DEF RunTold, RunTypes
<1>2. r \in VariationOutcomes /\ r # "met"
  BY DEF Failed, VariationOutcomes
<1>3. e \in Seq(Nat) /\ UnmetAreEdges(Append(o, r), e)
  BY <1>1, <1>2, EdgesGoOn DEF RunTold
<1>4. x \in Seq(Nat) /\ ExamplesAreFirst(Append(o, r), f + 1, x)
  BY <1>1, ExamplesWhenFailed DEF RunTold
<1>5. /\ s = Cardinality(Came(Append(o, r), {"met"}))
      /\ f + 1 = Cardinality(Came(Append(o, r), Failed))
  BY <1>1, <1>2, OneMoreCame DEF RunTold
<1>6. RunTypes(Append(o, r), s, f + 1, x, e)
  BY <1>1, <1>2, <1>3, <1>4, AppendProperties DEF RunTypes
<1> QED
  BY <1>3, <1>4, <1>5, <1>6 DEF RunTold

LEMMA HypothesesStep ==
  ASSUME HypothesesInv, [HY!Next]_(HY!hypothesisVars)
  PROVE  HypothesesInv'
<1>1. CASE v2' = v2 /\ v3' = v3 /\ v4' = v4 /\ v5' = v5 /\ v6' = v6
  BY <1>1 DEF HypothesesInv
<1>2. CASE v2' = <<>> /\ v3' = 0 /\ v4' = 0 /\ v5' = <<>> /\ v6' = <<>>
  BY <1>2, NothingRun DEF HypothesesInv
<1>3. CASE HY!handle_test \/ HY!handle_quick_test \/ HY!handle_stress_test
  BY <1>2, <1>3 DEF HY!handle_test, HY!handle_quick_test, HY!handle_stress_test, HY!Tests
<1>4. CASE HY!VariationFails
  <2>1. /\ v2' = Append(v2, "failed") /\ v4' = v4 + 1 /\ v3' = v3 /\ v6' = v6
        /\ v5' = IF Len(v5) < KeptExamples THEN Append(v5, Len(v2)) ELSE v5
    BY <1>4 DEF HY!VariationFails, HY!Example
  <2> QED
    BY <2>1, VariationFailed DEF HypothesesInv, Failed
<1>5. CASE HY!VariationEvaluated
  <2>1. CASE /\ v2' = Append(v2, "met") /\ v3' = v3 + 1 /\ v4' = v4 /\ v5' = v5
             /\ v6' = v6 \/ v6' = Append(v6, Len(v2))
    BY <2>1, VariationMet DEF HypothesesInv
  <2>2. CASE /\ v2' = Append(v2, "unmet") /\ v3' = v3 /\ v4' = v4 + 1
             /\ v5' = IF Len(v5) < KeptExamples THEN Append(v5, Len(v2)) ELSE v5
             /\ v6' = Append(v6, Len(v2))
    BY <2>2, VariationFailed DEF HypothesesInv, Failed
  <2> QED
    BY <1>5, <2>1, <2>2 DEF HY!VariationEvaluated, HY!Example
<1>6. CASE HY!Panicked \/ HY!ConditionErrs \/ HY!TestEnds
  BY <1>1, <1>6 DEF HY!Panicked, HY!ConditionErrs, HY!TestEnds
<1>7. CASE UNCHANGED HY!hypothesisVars
  BY <1>1, <1>7 DEF HY!hypothesisVars
<1> QED
  BY <1>3, <1>4, <1>5, <1>6, <1>7 DEF HY!Next

LEMMA HypothesesToldTrue == ASSUME HypothesesInv PROVE HY!CountsTellTheRun
<1> DEFINE At(what) == {i \in DOMAIN v2 : v2[i] \in what}
<1>1. /\ v2 \in Seq(VariationOutcomes) /\ v5 \in Seq(Nat) /\ v6 \in Seq(Nat)
      /\ DOMAIN v2 = 1..Len(v2) /\ DOMAIN v5 = 1..Len(v5) /\ DOMAIN v6 = 1..Len(v6)
  BY LenProperties DEF HypothesesInv, RunTold, RunTypes
<1>2. At({"met"}) = Came(v2, {"met"}) /\ At({"unmet"}) = Came(v2, {"unmet"})
      /\ At({"failed", "unmet"}) = Came(v2, Failed)
  BY <1>1 DEF Came, Failed
<1>3. HY!Range(v5) = KeysIn(v5) /\ HY!Range(v6) = KeysIn(v6)
  BY <1>1 DEF HY!Range, KeysIn
<1>4. \A S : HY!Cardinality(S) = Cardinality(S)
  BY DEF HY!Cardinality, Cardinality, HY!IsFiniteSet, IsFiniteSet
<1>5. HY!IsInjective(v5)
  BY <1>1 DEF HypothesesInv, RunTold, ExamplesAreFirst, HY!IsInjective
<1> HIDE DEF At
<1>6. v3 = HY!Cardinality(At({"met"})) /\ v4 = HY!Cardinality(At({"failed", "unmet"}))
  BY <1>2, <1>4 DEF HypothesesInv, RunTold
<1>7. {x + 1 : x \in HY!Range(v5)} =
        {i \in At({"failed", "unmet"}) :
           HY!Cardinality({j \in At({"failed", "unmet"}) : j < i}) < KeptExamples}
  BY <1>2, <1>3, <1>4 DEF HypothesesInv, RunTold, ExamplesAreFirst, FirstFailed
<1>8. \A i \in At({"unmet"}) : i - 1 \in HY!Range(v6)
  BY <1>2, <1>3 DEF HypothesesInv, RunTold, UnmetAreEdges
<1> QED
  BY <1>5, <1>6, <1>7, <1>8 DEF HY!CountsTellTheRun, At

-----------------------------------------------------------------------------
(* The budget monitor.  Between checks nothing is found that is not counted.   *)
BudgetInv ==
  /\ PB!RecentWithinTotal
  /\ v7 \in [violations : Nat, samples : Nat]
  /\ v8 \in {"none", "tick", "handle"} /\ v8 # "handle" => v9 = {}
  /\ IsFiniteSet(v9)
  /\ v10 \in [continuous : BOOLEAN, recent : Nat, consecutive : Nat]

LEMMA BudgetCounts ==
  \A S : PB!Cardinality(S) = Cardinality(S) /\ (PB!IsFiniteSet(S) <=> IsFiniteSet(S))
BY DEF PB!Cardinality, Cardinality, PB!IsFiniteSet, IsFiniteSet

(* A check finds finitely many violations, and counts them.                    *)
LEMMA ViolationsAreFinite == ASSUME NEW values PROVE IsFiniteSet(PB!Violations(values))
<1> DEFINE over == {m \in PB!Metrics : values[m] > PB!apply_platform_overrides(v2)[m]}
           violation(m) == PB!create_violation(m, values, PB!apply_platform_overrides(v2))
<1>1. IsFiniteSet(PB!Metrics)
  BY ProvedPartsAssumption, BudgetCounts, FS_Singleton, FS_Union DEF PB!BudgetAssumption, PB!Metrics
<1>2. IsFiniteSet(over)
  BY <1>1, FS_Subset
<1>3. PB!Violations(values) = {violation(m) : m \in over}
  BY DEF PB!Violations
<1> HIDE DEF over, violation
<1> DEFINE f == [m \in over |-> violation(m)]
<1>4. f \in Surjection(over, PB!Violations(values))
  BY <1>3 DEF Surjection
<1> QED
  BY <1>2, <1>4, FS_Surjection

LEMMA ChecksAreCounted ==
  ASSUME NEW values, PB!check_violations(values), v7 \in [violations : Nat, samples : Nat]
  PROVE  /\ v7' \in [violations : Nat, samples : Nat]
         /\ v7'.violations = v7.violations + Cardinality(PB!Violations(values))
<1> DEFINE n == Cardinality(PB!Violations(values))
<1>1. n \in Nat
  BY ViolationsAreFinite, FS_CardinalityType
<1>2. v7' = [violations |-> v7.violations + n, samples |-> v7.samples + 1]
  BY BudgetCounts DEF PB!check_violations, PB!update_statistics
<1> HIDE DEF n
<1>3. v7' \in [violations : Nat, samples : Nat] /\ v7'.violations = v7.violations + n
  BY <1>1, <1>2
<1> QED
  BY <1>3 DEF n

LEMMA BudgetStart == ASSUME PB!Init PROVE BudgetInv
  BY BudgetCounts, FS_EmptySet DEF PB!Init, BudgetInv, PB!RecentWithinTotal

LEMMA BudgetStep ==
  ASSUME BudgetInv, [PB!Next]_(PB!budgetVars)
  PROVE  BudgetInv'
<1>0. /\ Cardinality(v9) \in Nat /\ Cardinality({}) = 0 /\ IsFiniteSet({})
      /\ v10.recent + Cardinality(v9) <= v7.violations
      /\ v10.recent \in Nat /\ v7.violations \in Nat
  BY BudgetCounts, FS_CardinalityType, FS_EmptySet DEF BudgetInv, PB!RecentWithinTotal
<1>a. ASSUME v10'.recent + Cardinality(v9') <= v7'.violations PROVE PB!RecentWithinTotal'
  BY <1>a, BudgetCounts DEF PB!RecentWithinTotal
<1>1. CASE UNCHANGED <<v7, v8, v9, v10>>
  BY <1>1 DEF BudgetInv, PB!RecentWithinTotal
<1>2. CASE PB!start_continuous_monitoring
  <2>1. /\ v7' = v7 /\ v8 = "none" /\ v8' = "tick" /\ v9' = v9
        /\ v10' = [v10 EXCEPT !.continuous = TRUE]
    BY <1>2 DEF PB!start_continuous_monitoring
  <2>2. /\ v10' \in [continuous : BOOLEAN, recent : Nat, consecutive : Nat]
        /\ v10'.recent = v10.recent
    BY <2>1 DEF BudgetInv
  <2> QED
    BY <1>0, <1>a, <2>1, <2>2 DEF BudgetInv
<1>3. CASE PB!stop_continuous_monitoring
  <2>1. /\ v7' = v7 /\ v8' = "none" /\ v9' = {}
        /\ v10' = [v10 EXCEPT !.continuous = FALSE]
    BY <1>3 DEF PB!stop_continuous_monitoring
  <2>2. /\ v10' \in [continuous : BOOLEAN, recent : Nat, consecutive : Nat]
        /\ v10'.recent = v10.recent
    BY <2>1 DEF BudgetInv
  <2>3. v10'.recent + Cardinality(v9') <= v7'.violations
    BY <1>0, <2>1, <2>2
  <2> QED
    BY <1>0, <1>a, <2>1, <2>2, <2>3 DEF BudgetInv
<1>4. CASE PB!TaskChecks
  <2>1. PICK values : PB!check_violations(values) /\ v9' = PB!Violations(values)
    BY <1>4 DEF PB!TaskChecks
  <2>2. v8 = "tick" /\ v8' = "handle" /\ v10' = v10
    BY <1>4 DEF PB!TaskChecks
  <2>3. /\ v7' \in [violations : Nat, samples : Nat]
        /\ v7'.violations = v7.violations + Cardinality(v9')
    BY <2>1, ChecksAreCounted DEF BudgetInv
  <2>4. IsFiniteSet(v9') /\ Cardinality(v9') \in Nat
    BY <2>1, ViolationsAreFinite, FS_CardinalityType
  <2>5. v10.recent <= v7.violations
    BY <1>0, <2>2 DEF BudgetInv
  <2>6. v10'.recent + Cardinality(v9') <= v7'.violations
    BY <1>0, <2>2, <2>3, <2>4, <2>5
  <2> QED
    BY <1>a, <2>2, <2>3, <2>4, <2>6 DEF BudgetInv
<1>5. CASE PB!CheckCommand
  <2>1. PICK values : PB!check_violations(values)
    BY <1>5 DEF PB!CheckCommand
  <2>2. v8' = v8 /\ v9' = v9 /\ v10' = v10
    BY <1>5 DEF PB!CheckCommand
  <2>3. /\ v7' \in [violations : Nat, samples : Nat]
        /\ v7'.violations = v7.violations + Cardinality(PB!Violations(values))
    BY <2>1, ChecksAreCounted DEF BudgetInv
  <2>4. Cardinality(PB!Violations(values)) \in Nat
    BY ViolationsAreFinite, FS_CardinalityType
  <2>5. v10'.recent + Cardinality(v9') <= v7'.violations
    BY <1>0, <2>2, <2>3, <2>4
  <2> QED
    BY <1>a, <2>2, <2>3, <2>5 DEF BudgetInv
<1>6. CASE PB!handle_violations
  <2> DEFINE n == PB!Cardinality(v9)
             z == IF v9 = {} THEN 0 ELSE v10.consecutive + 1
  <2>0. v10' = [v10 EXCEPT !.recent = @ + n, !.consecutive = z]
    BY <1>6, Zenon DEF PB!handle_violations
  <2>1. v7' = v7 /\ v8' = "tick" /\ v9' = {}
    BY <1>6 DEF PB!handle_violations, PB!monitorVars
  <2>2. n \in Nat /\ v10.recent + n <= v7.violations
    BY <1>0, BudgetCounts
  <2>3. z \in Nat
    BY DEF BudgetInv
  <2> HIDE DEF n, z
  <2>a. v10 \in [continuous : BOOLEAN, recent : Nat, consecutive : Nat]
    BY DEF BudgetInv
  <2>b. v10' = [continuous |-> v10.continuous, recent |-> v10.recent + n, consecutive |-> z]
    BY <2>0, <2>a
  <2>4. /\ v10' \in [continuous : BOOLEAN, recent : Nat, consecutive : Nat]
        /\ v10'.recent = v10.recent + n
    BY <2>a, <2>b, <2>2, <2>3
  <2>5. v10'.recent + Cardinality(v9') <= v7'.violations
    BY <1>0, <2>1, <2>2, <2>4
  <2> QED
    BY <1>0, <1>a, <2>1, <2>4, <2>5 DEF BudgetInv
<1>7. CASE PB!Tick \/ PB!update_config
  BY <1>1, <1>7 DEF PB!Tick, PB!update_config, PB!monitorVars
<1>8. CASE PB!clear_violation_history \/ PB!generate_compliance_report
  BY <1>1, <1>8 DEF PB!clear_violation_history, PB!generate_compliance_report, PB!monitorVars
<1>9. CASE UNCHANGED PB!budgetVars
  BY <1>1, <1>9 DEF PB!budgetVars, PB!monitorVars
<1> QED
  BY <1>2, <1>3, <1>4, <1>5, <1>6, <1>7, <1>8, <1>9 DEF PB!Next, PB!process

-----------------------------------------------------------------------------
(* The profiler's frames.                                                      *)
FrameTimes == UNION {[K -> ExecutionTimes] : K \in SUBSET ProfiledSystems}
ProfiledFrame == [number : Nat, start : Nat, times : FrameTimes]

(* Frames that are numbered without a gap up to the current one.               *)
Consecutive(fs, current) ==
  /\ fs \in Seq(ProfiledFrame) /\ current \in Nat
  /\ \A i \in 1..Len(fs) : fs[i].number + Len(fs) = current + i

ProfilerInv == v1 \in Nat /\ Consecutive(v6, v7)

LEMMA ProfilerStart == ASSUME SP!Init PROVE ProfilerInv
  BY DEF SP!Init, ProfilerInv, Consecutive

LEMMA FramesAreNumbered ==
  ASSUME NEW fs \in Seq(ProfiledFrame), NEW i \in 1..Len(fs)
  PROVE  fs[i] \in ProfiledFrame /\ fs[i].number \in Nat
<1>1. fs[i] \in ProfiledFrame
  BY ElementOfSeq
<1> QED
  BY <1>1 DEF ProfiledFrame

LEMMA OldestFrameGoes ==
  ASSUME NEW fs, NEW current, Consecutive(fs, current), Len(fs) > 0
  PROVE  Consecutive(Tail(fs), current)
<1>1. Len(fs) \in Nat /\ fs # <<>> /\ fs \in Seq(ProfiledFrame)
  BY LenProperties DEF Consecutive
<1>2. /\ Tail(fs) \in Seq(ProfiledFrame) /\ Len(Tail(fs)) = Len(fs) - 1
      /\ \A i \in 1..Len(Tail(fs)) : Tail(fs)[i] = fs[i + 1]
  BY <1>1, HeadTailProperties
<1> SUFFICES ASSUME NEW i \in 1..Len(Tail(fs))
             PROVE  Tail(fs)[i].number + Len(Tail(fs)) = current + i
  BY <1>2 DEF Consecutive
<1>3. i \in Nat /\ i + 1 \in 1..Len(fs) /\ Tail(fs)[i] = fs[i + 1]
  BY <1>1, <1>2
<1>4. fs[i + 1].number \in Nat
  BY <1>1, <1>3, FramesAreNumbered
<1>5. fs[i + 1].number + Len(fs) = current + (i + 1) /\ current \in Nat
  BY <1>3 DEF Consecutive
<1> QED
  BY <1>1, <1>2, <1>3, <1>4, <1>5

LEMMA NextFrameComes ==
  ASSUME NEW fs, NEW current, Consecutive(fs, current),
         NEW f \in ProfiledFrame, f.number = current + 1
  PROVE  Consecutive(Append(fs, f), current + 1)
<1>1. Len(fs) \in Nat /\ fs \in Seq(ProfiledFrame) /\ current \in Nat
  BY LenProperties DEF Consecutive
<1>2. /\ Append(fs, f) \in Seq(ProfiledFrame) /\ Len(Append(fs, f)) = Len(fs) + 1
      /\ \A i \in 1..Len(fs) : Append(fs, f)[i] = fs[i]
      /\ Append(fs, f)[Len(fs) + 1] = f
  BY <1>1, AppendProperties
<1> SUFFICES ASSUME NEW i \in 1..(Len(fs) + 1)
             PROVE  Append(fs, f)[i].number + (Len(fs) + 1) = current + 1 + i
  BY <1>1, <1>2 DEF Consecutive
<1>3. CASE i \in 1..Len(fs)
  <2>1. fs[i].number \in Nat /\ fs[i].number + Len(fs) = current + i
    BY <1>1, <1>3, FramesAreNumbered DEF Consecutive
  <2> QED
    BY <1>1, <1>2, <1>3, <2>1
<1>4. CASE i = Len(fs) + 1
  BY <1>1, <1>2, <1>4
<1> QED
  BY <1>1, <1>3, <1>4

LEMMA LastFrameTimed ==
  ASSUME NEW fs, NEW current, Consecutive(fs, current), Len(fs) > 0, NEW t \in FrameTimes
  PROVE  Consecutive([fs EXCEPT ![Len(fs)].times = t], current)
<1> DEFINE n == Len(fs)
           f == [fs[n] EXCEPT !.times = t]
           gs == [fs EXCEPT ![n] = f]
<1>1. n \in Nat /\ n \in 1..n /\ fs \in Seq(ProfiledFrame) /\ current \in Nat
  BY LenProperties DEF Consecutive
<1>2. fs[n] \in ProfiledFrame
  BY <1>1, FramesAreNumbered
<1>3. f \in ProfiledFrame /\ f.number = fs[n].number
  BY <1>2 DEF ProfiledFrame
<1>4. [fs EXCEPT ![Len(fs)].times = t] = gs
  OBVIOUS
<1> HIDE DEF n, f
<1>5. gs \in Seq(ProfiledFrame) /\ Len(gs) = n
  BY <1>1, <1>3, ExceptSeq DEF n
<1>6. \A i \in 1..n : gs[i].number = fs[i].number
  BY <1>1, <1>3 DEF n
<1>7. \A i \in 1..n : fs[i].number + n = current + i
  BY DEF Consecutive, n
<1> HIDE DEF gs
<1> QED
  BY <1>1, <1>4, <1>5, <1>6, <1>7 DEF Consecutive

(* A sample is entered in the current frame, or in a new one.                  *)
LEMMA FramesGoOn ==
  ASSUME ProfilerInv, NEW s \in ProfiledSystems, NEW time \in ExecutionTimes,
         SP!update_frame_history(s, time), v1' = v1
  PROVE  ProfilerInv'
<1> DEFINE fresh == v6 = <<>> \/ v1 > v6[Len(v6)].start
           new == [number |-> v7 + 1, start |-> v1, times |-> <<>>]
           grown == IF ~fresh THEN v6
                    ELSE IF Len(v6) = KeptFrames THEN Append(Tail(v6), new) ELSE Append(v6, new)
           last == grown[Len(grown)]
           times == [x \in DOMAIN last.times \cup {s} |-> IF x = s THEN time ELSE last.times[x]]
           current == IF fresh THEN v7 + 1 ELSE v7
<1>1. v6' = [grown EXCEPT ![Len(grown)].times = times] /\ v7' = current
  BY Zenon DEF SP!update_frame_history
<1>2. Consecutive(v6, v7) /\ v6 \in Seq(ProfiledFrame) /\ Len(v6) \in Nat /\ v7 \in Nat /\ v1 \in Nat
  BY LenProperties DEF ProfilerInv, Consecutive
<1>3. <<>> \in FrameTimes
  <2>1. <<>> \in [{} -> ExecutionTimes] /\ {} \in SUBSET ProfiledSystems
    OBVIOUS
  <2> QED
    BY <2>1 DEF FrameTimes
<1>4. new \in ProfiledFrame /\ new.number = v7 + 1
  BY <1>2, <1>3 DEF ProfiledFrame
<1>5. Consecutive(grown, current) /\ Len(grown) > 0
  <2> HIDE DEF new
  <2>1. CASE ~fresh
    <3>1. v6 # <<>>
      BY <2>1
    <3>2. Len(v6) > 0
      BY <1>2, <3>1, EmptySeq
    <3> QED
      BY <1>2, <2>1, <3>2
  <2>2. CASE fresh /\ Len(v6) = KeptFrames
    <3>1. Len(v6) > 0
      BY <2>2, ProvedPartsAssumption DEF SP!ProfilerAssumption
    <3>2. Consecutive(Tail(v6), v7)
      BY <1>2, <3>1, OldestFrameGoes
    <3>3. Consecutive(Append(Tail(v6), new), v7 + 1)
      BY <1>4, <3>2, NextFrameComes
    <3>4. Tail(v6) \in Seq(ProfiledFrame)
      BY <3>2 DEF Consecutive
    <3>5. Len(Append(Tail(v6), new)) > 0
      BY <1>4, <3>4, AppendProperties, LenProperties
    <3> HIDE DEF fresh
    <3> QED
      BY <2>2, <3>3, <3>5
  <2>3. CASE fresh /\ Len(v6) # KeptFrames
    <3>1. Consecutive(Append(v6, new), v7 + 1)
      BY <1>2, <1>4, NextFrameComes
    <3>2. Len(Append(v6, new)) > 0
      BY <1>2, <1>4, AppendProperties
    <3> HIDE DEF fresh
    <3> QED
      BY <2>3, <3>1, <3>2
  <2> HIDE DEF fresh, grown, current
  <2> QED
    BY <2>1, <2>2, <2>3
<1> HIDE DEF grown, current
<1>6. last \in ProfiledFrame
  <2>1. grown \in Seq(ProfiledFrame)
    BY <1>5 DEF Consecutive
  <2>2. Len(grown) \in 1..Len(grown)
    BY <1>5, <2>1, LenProperties
  <2> QED
    BY <2>1, <2>2, FramesAreNumbered
<1> HIDE DEF last
<1>7. times \in FrameTimes
  <2>1. PICK K \in SUBSET ProfiledSystems : last.times \in [K -> ExecutionTimes]
    BY <1>6 DEF ProfiledFrame, FrameTimes
  <2>2. times \in [K \cup {s} -> ExecutionTimes]
    BY <2>1
  <2> HIDE DEF times
  <2>3. K \cup {s} \in SUBSET ProfiledSystems
    OBVIOUS
  <2> QED
    BY <2>2, <2>3 DEF FrameTimes
<1> HIDE DEF times
<1>8. Consecutive([grown EXCEPT ![Len(grown)].times = times], current)
  BY <1>5, <1>7, LastFrameTimed
<1> QED
  BY <1>1, <1>2, <1>8 DEF ProfilerInv

LEMMA ProfilerStep ==
  ASSUME ProfilerInv, [SP!Next]_(SP!profilerVars)
  PROVE  ProfilerInv'
<1>1. ASSUME v1' = v1, v6' = v6, v7' = v7 PROVE ProfilerInv'
  BY <1>1 DEF ProfilerInv, Consecutive
<1>2. CASE SP!Tick
  BY <1>2 DEF SP!Tick, SP!frameVars, ProfilerInv, Consecutive
<1>3. CASE SP!clear_profiling_data
  BY <1>3 DEF SP!clear_profiling_data, ProfilerInv, Consecutive
<1>4. CASE UNCHANGED SP!profilerVars
  BY <1>1, <1>4 DEF SP!profilerVars, SP!frameVars
<1>5. ASSUME NEW s \in ProfiledSystems, SP!StopCommand(s) PROVE ProfilerInv'
  BY <1>1, <1>5 DEF SP!StopCommand, SP!frameVars
<1>6. ASSUME NEW s \in ProfiledSystems, NEW time \in ExecutionTimes, SP!collect_sample(s, time)
      PROVE  ProfilerInv'
  <2>1. CASE SP!update_frame_history(s, time)
    BY <1>6, <2>1, FramesGoOn DEF SP!collect_sample
  <2>2. CASE v6' = v6 /\ v7' = v7
    BY <1>1, <1>6, <2>2 DEF SP!collect_sample
  <2> QED
    BY <1>6, <2>1, <2>2 DEF SP!collect_sample
<1>7. ASSUME NEW s \in ProfiledSystems, NEW d \in ProfileDurations, SP!process_command(s, d)
      PROVE  ProfilerInv'
  BY <1>1, <1>7 DEF SP!process_command, SP!frameVars
<1>8. ASSUME NEW s \in ProfiledSystems, NEW d \in ProfileDurations, NEW c \in Profilers,
             SP!ProfileSystem(c, s, d)
      PROVE  ProfilerInv'
  BY <1>1, <1>8 DEF SP!ProfileSystem, SP!frameVars
<1>9. ASSUME NEW c \in Profilers, SP!Answers(c) \/ SP!Dropped(c) PROVE ProfilerInv'
  BY <1>1, <1>9 DEF SP!Answers, SP!Dropped, SP!frameVars
<1>10. ASSUME NEW t \in v5, SP!TimerFires(t) PROVE ProfilerInv'
  BY <1>1, <1>10 DEF SP!TimerFires, SP!frameVars
<1> QED
  BY <1>2, <1>3, <1>4, <1>5, <1>6, <1>7, <1>8, <1>9, <1>10 DEF SP!Next

LEMMA FramesStayConsecutive == ASSUME ProfilerInv PROVE SP!FramesAreConsecutive
<1>1. v6 \in Seq(ProfiledFrame) /\ DOMAIN v6 = 1..Len(v6)
  BY LenProperties DEF ProfilerInv, Consecutive
<1> QED
  BY <1>1 DEF ProfilerInv, Consecutive, SP!FramesAreConsecutive

-----------------------------------------------------------------------------
(* The processor of overlays.                                                  *)
ProcessorInv == OP!StatusIsAcknowledged /\ \A y \in DOMAIN v1 : "shown" \in DOMAIN v1[y]

LEMMA ProcessorStart == ASSUME OP!Init PROVE ProcessorInv
  BY DEF OP!Init, ProcessorInv, OP!StatusIsAcknowledged

LEMMA ProcessorStep ==
  ASSUME ProcessorInv, [OP!Next]_(OP!vars)
  PROVE  ProcessorInv'
<1> USE DEF ProcessorInv, OP!StatusIsAcknowledged
<1>1. CASE v1' = v1 /\ v8' = v8
  BY <1>1
<1>2. ASSUME NEW t \in OverlayTasks, NEW a \in BOOLEAN, NEW b \in BOOLEAN, OP!Ends(t, a, b)
      PROVE  ProcessorInv'
  <2> DEFINE y == v5[t].type
             s == v5[t].new
  <2>1. /\ v1' = IF a THEN OP!Stored(y, s) ELSE v1
        /\ v8' = IF a THEN OP!With(v8, y, s) ELSE v8
    BY <1>2 DEF OP!Ends, OP!KeptAfter
  <2> HIDE DEF y, s
  <2>2. CASE a = TRUE
    BY <2>1, <2>2 DEF OP!Stored, OP!With
  <2>3. CASE a = FALSE
    BY <2>1, <2>3
  <2> QED
    BY <2>2, <2>3
<1>3. ASSUME NEW t \in OverlayTasks, NEW y \in ProcessedTypes, NEW r \in RenderTimes,
             OP!update_metrics(t, y, r)
      PROVE  ProcessorInv'
  <2>1. CASE y \in DOMAIN v1
    <3>1. v8' = v8 /\ v1' = [v1 EXCEPT ![y].render = r]
      BY <1>3, <2>1 DEF OP!update_metrics
    <3> QED
      BY <3>1
  <2> QED
    BY <1>1, <1>3, <2>1 DEF OP!update_metrics
<1>4. CASE OP!LinkChanges \/ UNCHANGED OP!vars
  BY <1>1, <1>4 DEF OP!LinkChanges, OP!vars
<1>5. ASSUME NEW t \in OverlayTasks, OP!GetStatus(t) PROVE ProcessorInv'
  BY <1>1, <1>5 DEF OP!GetStatus
<1>6. ASSUME NEW t \in OverlayTasks, NEW y \in ProcessedTypes, NEW s \in OP!Setting,
             OP!SetVisualDebug(t, y, s)
      PROVE  ProcessorInv'
  BY <1>1, <1>6 DEF OP!SetVisualDebug
<1> QED
  BY <1>2, <1>3, <1>4, <1>5, <1>6 DEF OP!Next, OP!Acknowledged, OP!Refused, OP!AnswerLost
=============================================================================
