------------------------------ MODULE MCServer ------------------------------
(* TLC instance of the parts of the MCP server and its tools, for what they    *)
(* keep and answer.  No two of them share state in the code, so one run checks *)
(* them all: each behaviour exercises the part chosen at its start.  All of    *)
(* them use v1, v2, ... for their variables, each in the order of its          *)
(* VARIABLES, and None fills those a part has no use for.                      *)
EXTENDS ServerParts

CONSTANT Parts   \* the parts of the run

VARIABLE part    \* the part that runs

-----------------------------------------------------------------------------
(* All entities, which are listed and filtered in parallel, and at most one of *)
(* those with three components, which are not.                                 *)
SomeRequests ==
  {[with |-> {}, without |-> {}, where |-> QueryEntities, limit |-> None],
   [with |-> QueryComponents, without |-> {}, where |-> QueryEntities, limit |-> 1]}

(* A pipeline of three tools in turn; one that retries, meets a tool nobody    *)
(* registered and stops; one whose steps run at the same time.                 *)
Step(tool, condition, attempts) ==
  [tool |-> tool, condition |-> condition, max_attempts |-> attempts]
Always == <<"Always", "unknown">>
SomePipelines ==
  {[parallel |-> FALSE, fail_fast |-> TRUE,
    steps |-> <<Step("observe", Always, 3),
                Step("experiment", <<"OnSuccess", "observe">>, 1),
                Step("stress", <<"OnFailure", "experiment">>, 2)>>],
   [parallel |-> FALSE, fail_fast |-> FALSE,
    steps |-> <<Step("stress", Always, 1), Step("unknown", Always, 1),
                Step("observe", <<"ResultContains", "stress">>, 1)>>],
   [parallel |-> TRUE, fail_fast |-> TRUE,
    steps |-> <<Step("stress", Always, 1), Step("observe", Always, 1),
                Step("experiment", <<"OnSuccess", "observe">>, 1),
                Step("unknown", <<"OnFailure", "observe">>, 1)>>]}

SomeKinds == [get |-> [by |-> {"core"}, level |-> 1, entity |-> TRUE],
              debug |-> [by |-> {"debug"}, level |-> 3, entity |-> FALSE]]
SomeHandlers == [core |-> 0, debug |-> 150]
SomeTier(size) == IF size <= 1 THEN "small" ELSE "large"
SomePerMille(name) == 800
SomeChecks == <<"leak">>
SomeLists == {<<"GlobalTransform", "Transform">>, <<"Transform">>}
SomeEnding(type, name) == type = name \/ (type = "GlobalTransform" /\ name = "Transform")

PL == INSTANCE Patterns WITH
  Commands <- {"a", "b"}, Sessions <- {"s1"}, KAnonymity <- 2,
  MinFrequency <- 2, MaxLength <- 2, MaxPatterns <- 2, MaxBatches <- 1,
  active_sessions <- v1, session_buffer <- v2, patterns <- v3, mined <- v4,
  exported <- v5

SG == INSTANCE Suggestions WITH
  MaxSuggestions <- 5, MaxAnswers <- 3, state <- v1, templates <- v2,
  suggested <- v3, suggestion_history <- v4

MP == INSTANCE MemoryProfiler WITH
  Systems <- {"s1"}, Sizes <- {1}, Threads <- {"t1", "t2"}, Callers <- {"c1"},
  Sessions <- {"a"}, Targets <- {{"s1"}}, Durations <- {1},
  MaxAllocations <- 0, MaxSnapshots <- 3, Kept <- 0, MaxIds <- 2,
  MaxStarts <- 1, MaxTime <- 1, MaxTaken <- 3, now <- v1, allocations <- v2,
  system_memory <- v3, next_id <- v4, thread <- v5, sessions <- v6,
  handle <- v7, task <- v8, caller <- v9, starts <- v10, snapshots <- v11,
  taken <- v12

AN == INSTANCE Anomalies WITH
  Callers <- {"c1"}, Entities <- {"e1", "e2"}, Speeds <- {0, 3}, Windows <- {1,
  3}, MinSamples <- {1, 3}, ZScore <- 1, Growth <- 0, MaxChanges <- 2,
  MaxDetects <- 2, MaxConfigures <- 1, game <- v1, dead <- v2, config <- v3,
  listed <- v4, speeds <- v5, counts <- v6, found <- v7, monitoring <- v8,
  changes <- v9, detects <- v10, configures <- v11

QB == INSTANCE QueryBuilder WITH
  Callers <- {"c1"}, Names <- {"Transform"}, Known <- {"Transform"},
  Selective <- {}, Broad <- {"Transform"}, PerMille <- SomePerMille,
  Limits <- {5}, Offsets <- {}, MaxListed <- 1, MaxComponents <- 2,
  Budget <- 50000, Ttl <- 1, MaxTime <- 1, MaxRequests <- 2, MaxSteps <- 1,
  draft <- v1, costCache <- v2, keyCache <- v3, steps <- v4, validated <- v5,
  stats <- v6, now <- v7, client <- v8, job <- v9, requests <- v10

ASSUME PartsAssumption ==
  /\ PL!PatternsAssumption /\ SG!SuggestionsAssumption /\ MP!MemoryAssumption
  /\ AN!AnomalyAssumption /\ QB!QueryBuilderAssumption

-----------------------------------------------------------------------------
f13 == <<v13, v14, v15>>
f12 == <<v12, f13>>
f11 == <<v11, f12>>
f10 == <<v10, f11>>
f9 == <<v9, f10>>
f8 == <<v8, f9>>
f7 == <<v7, f8>>
f6 == <<v6, f7>>
f5 == <<v5, f6>>
f1 == <<v1, v2, v3, v4, f5>>
all == <<part, f1>>

Free13 == v13 = None /\ v14 = None /\ v15 = None
Free12 == v12 = None /\ Free13
Free11 == v11 = None /\ Free12
Free10 == v10 = None /\ Free11
Free9 == v9 = None /\ Free10
Free8 == v8 = None /\ Free9
Free7 == v7 = None /\ Free8
Free6 == v6 = None /\ Free7
Free5 == v5 = None /\ Free6

MCInit ==
  /\ part \in Parts
  /\ \/ part = "lazy" /\ LZ!Init /\ Free6
     \/ part = "cache" /\ CC!Init /\ Free8
     \/ part = "queries" /\ QE!Init /\ Free13
     \/ part = "orchestrator" /\ TO!Init /\ Free11
     \/ part = "experiments" /\ EX!Init /\ Free7
     \/ part = "hypotheses" /\ HY!Init /\ Free10
     \/ part = "stress" /\ ST!Init
     \/ part = "patterns" /\ PL!Init /\ Free6
     \/ part = "suggestions" /\ SG!Init /\ Free5
     \/ part = "reload" /\ HR!Init /\ Free13
     \/ part = "observe" /\ OB!Init /\ Free10
     \/ part = "budget" /\ PB!Init /\ Free12
     \/ part = "issues" /\ ID!Init
     \/ part = "profiler" /\ SP!Init /\ Free12
     \/ part = "memory" /\ MP!Init /\ Free13
     \/ part = "anomalies" /\ AN!Init /\ Free12
     \/ part = "registry" /\ CR!Init /\ Free10
     \/ part = "deadlocks" /\ DD!Init /\ Free10
     \/ part = "pools" /\ RP!Init /\ Free8
     \/ part = "inspector" /\ EI!Init /\ Free11
     \/ part = "builder" /\ QB!Init /\ Free11
     \/ part = "overlays" /\ OV!Init /\ Free11
     \/ part = "processor" /\ OP!Init /\ Free10
     \/ part = "rpc" /\ JR!Init /\ Free9

LazyNext == part = "lazy" /\ LZ!Next /\ UNCHANGED <<part, f6>>
CacheNext == part = "cache" /\ CC!Next /\ UNCHANGED <<part, f8>>
QueriesNext == part = "queries" /\ QE!Next /\ UNCHANGED <<part, f13>>
OrchestratorNext == part = "orchestrator" /\ TO!Next /\ UNCHANGED <<part, f11>>
ExperimentsNext == part = "experiments" /\ EX!Next /\ UNCHANGED <<part, f7>>
HypothesesNext == part = "hypotheses" /\ HY!Next /\ UNCHANGED <<part, f10>>
StressNext == part = "stress" /\ ST!Next /\ UNCHANGED part
PatternsNext == part = "patterns" /\ PL!Next /\ UNCHANGED <<part, f6>>
SuggestionsNext == part = "suggestions" /\ SG!Next /\ UNCHANGED <<part, f5>>
ReloadNext == part = "reload" /\ HR!Next /\ UNCHANGED <<part, f13>>
ObserveNext == part = "observe" /\ OB!Next /\ UNCHANGED <<part, f10>>
BudgetNext == part = "budget" /\ PB!Next /\ UNCHANGED <<part, f12>>
IssuesNext == part = "issues" /\ ID!Next /\ UNCHANGED part
ProfilerNext == part = "profiler" /\ SP!Next /\ UNCHANGED <<part, f12>>
MemoryNext == part = "memory" /\ MP!Next /\ UNCHANGED <<part, f13>>
AnomaliesNext == part = "anomalies" /\ AN!Next /\ UNCHANGED <<part, f12>>
RegistryNext == part = "registry" /\ CR!Next /\ UNCHANGED <<part, f10>>
DeadlocksNext == part = "deadlocks" /\ DD!Next /\ UNCHANGED <<part, f10>>
PoolsNext == part = "pools" /\ RP!Next /\ UNCHANGED <<part, f8>>
InspectorNext == part = "inspector" /\ EI!Next /\ UNCHANGED <<part, f11>>
BuilderNext == part = "builder" /\ QB!Next /\ UNCHANGED <<part, f11>>
OverlaysNext == part = "overlays" /\ OV!Next /\ UNCHANGED <<part, f11>>
ProcessorNext == part = "processor" /\ OP!Next /\ UNCHANGED <<part, f10>>
RpcNext == part = "rpc" /\ JR!Next /\ UNCHANGED <<part, f9>>

MCNext ==
  \/ LazyNext \/ CacheNext \/ QueriesNext \/ OrchestratorNext
  \/ ExperimentsNext \/ HypothesesNext \/ StressNext \/ PatternsNext
  \/ SuggestionsNext \/ ReloadNext \/ ObserveNext \/ BudgetNext
  \/ IssuesNext \/ ProfilerNext \/ MemoryNext \/ AnomaliesNext
  \/ RegistryNext \/ DeadlocksNext \/ PoolsNext \/ InspectorNext
  \/ BuilderNext \/ OverlaysNext \/ ProcessorNext \/ RpcNext

MCSpec == MCInit /\ [][MCNext]_all

-----------------------------------------------------------------------------
(* The properties of the parts; the modules say what each is about.            *)

(* The types of every part.                                                    *)
TypesOK ==
  /\ part = "lazy" => LZ!TypeOK
  /\ part = "cache" => CC!TypeOK
  /\ part = "queries" => QE!TypeOK
  /\ part = "orchestrator" => TO!TypeOK
  /\ part = "experiments" => EX!TypeOK
  /\ part = "hypotheses" => HY!TypeOK
  /\ part = "stress" => ST!TypeOK
  /\ part = "patterns" => PL!TypeOK
  /\ part = "suggestions" => SG!TypeOK
  /\ part = "reload" => HR!TypeOK
  /\ part = "observe" => OB!TypeOK
  /\ part = "budget" => PB!TypeOK
  /\ part = "issues" => ID!TypeOK
  /\ part = "profiler" => SP!TypeOK
  /\ part = "memory" => MP!TypeOK
  /\ part = "anomalies" => AN!TypeOK
  /\ part = "registry" => CR!TypeOK
  /\ part = "deadlocks" => DD!TypeOK
  /\ part = "pools" => RP!TypeOK
  /\ part = "inspector" => EI!TypeOK
  /\ part = "builder" => QB!TypeOK
  /\ part = "overlays" => OV!TypeOK
  /\ part = "processor" => OP!TypeOK
  /\ part = "rpc" => JR!TypeOK

(* What the command cache evicts is the least recently used: it implements     *)
(* LruCache (command_cache.rs).                                                *)
EvictsLru ==
  /\ part = "cache" => CC!Lru!Init
  /\ [][part = "cache" => CC!LruSteps]_all

(* An atomic batch in which an action failed adds nothing to the history       *)
(* (experiment_system.rs), and a query that was split into batches loses none  *)
(* of the entities (parallel_query_executor.rs).                               *)
AllOrNothing ==
  [][/\ part = "experiments" => EX!Atomic
     /\ part = "queries" => QE!LosesNothing]_all

(* An overlay request leaves the game equal to what the manager holds, however *)
(* tasks interleave (visual_debug_overlay.rs).                                 *)
AppliedIsCurrent == [][part = "overlays" => OV!Applies]_all

(* What was put together in several steps or comes from a cache has all that   *)
(* was asked for: components have the ones they are built from (lazy_init.rs); *)
(* so have the answers about a batch of entities (entity_inspector.rs), the    *)
(* entities of a query (brp_client.rs) and two snapshots (state_diff.rs).      *)
AnswersWhole ==
  /\ part = "lazy" => LZ!BuiltFromParts
  /\ part = "inspector" => EI!BatchIsComplete
  /\ part = "rpc" => JR!AnswersAreWhole
  /\ part = "observe" => OB!DiffIsComplete

(* Limits that several tasks or several windows share hold: a component is     *)
(* built once (lazy_init.rs), and there are only as many as allowed of cached  *)
(* results (command_cache.rs), pooled objects (resource_manager.rs), entities  *)
(* of a test (stress_test_system.rs), kept classifications                     *)
(* (query_optimization.rs) and commands in a window (brp_validation.rs).       *)
LimitsHold ==
  /\ part = "lazy" => LZ!BuiltOnce
  /\ part = "cache" => CC!GrowthBounded
  /\ part = "pools" => RP!PooledWithinLimit
  /\ part = "stress" => ST!SpawnsWithinLimit
  /\ part = "queries" => QE!StatesWithinLimit
  /\ part = "registry" => CR!BurstBounded

(* What is kept of the past tells of it, in its order and without a gap: the   *)
(* order of uses of the cache (command_cache.rs), the snapshots                *)
(* (state_diff.rs), the frames of the profiler (system_profiler.rs), the       *)
(* recent violations (performance_budget.rs), the counts, examples and edge    *)
(* cases of a hypothesis (hypothesis_system.rs), the overlays the game         *)
(* acknowledged (visual_debug_overlay_processor.rs).                           *)
HistoriesTrue ==
  /\ part = "cache" => CC!OrderTracksCache
  /\ part = "observe" => OB!HistoryIsLatest
  /\ part = "profiler" => SP!FramesAreConsecutive
  /\ part = "budget" => PB!RecentWithinTotal
  /\ part = "hypotheses" => HY!CountsTellTheRun
  /\ part = "processor" => OP!StatusIsAcknowledged

(* What is computed from that agrees with it as well: the statistics of the    *)
(* cache, the running sum of the profiler, the memory of live allocations and  *)
(* its trend, the anomalies, what a query builder knows of its query or has    *)
(* validated.  What is suggested was learned from enough sessions              *)
(* (pattern_learning.rs), the most urgent first (suggestion_engine.rs).        *)
SummariesTrue ==
  /\ part = "cache" => CC!StatsExact
  /\ part = "profiler" => SP!SumOfWindow
  /\ part = "memory" => MP!MemoryIsOfLive /\ MP!TrendIsOfAChange
  /\ part = "anomalies" => AN!SpikeIsGrowth
  /\ part = "builder" => QB!CacheAnswersAsFresh /\ QB!MemoIsOfDraft
  /\ part = "patterns" => PL!LearnedFromMany
  /\ part = "suggestions" => SG!MostUrgentShown

(* Nothing is left behind or lost on the way: entities of a test whose spawns  *)
(* all succeeded, results of a pipeline's steps, the old model when a new one  *)
(* is loaded, the contents of an object that goes back to its pool.            *)
NothingLeftBehind ==
  /\ part = "stress" => ST!SpawnersCleanUp
  /\ part = "orchestrator" => TO!NoLostResult
  /\ part = "reload" => HR!BackupBeforeLoad
  /\ part = "pools" => RP!HandedOutClean

(* Alarms are given as they should be: threads that wait for each other in a   *)
(* circle are reported, whatever the order of their requests                   *)
(* (deadlock_detector.rs); alerts of one issue are apart unless their          *)
(* detections overlapped, and every task but the one that stop knows of was    *)
(* told to end (issue_detector.rs).                                            *)
AlarmsGiven ==
  /\ part = "deadlocks" => DD!DeadlocksReported
  /\ part = "issues" => ID!ApartUnlessOverlapping /\ ID!OthersWereTold

-----------------------------------------------------------------------------
(* What holds of the part that runs: its inductive invariant of ServerParts.   *)
PartsInv ==
  /\ part = "lazy" => LazyInv
  /\ part = "cache" => CacheInv
  /\ part = "queries" => QueriesInv
  /\ part = "orchestrator" => OrchestratorInv
  /\ part = "experiments" => ExperimentsInv
  /\ part = "stress" => StressInv
  /\ part = "reload" => ReloadInv
  /\ part = "registry" => RegistryInv
  /\ part = "pools" => PoolsInv
  /\ part = "overlays" => OverlaysInv
  /\ part = "deadlocks" => DeadlocksInv
  /\ part = "issues" => IssuesInv
  /\ part = "inspector" => InspectorInv
  /\ part = "observe" => ObserveInv
  /\ part = "rpc" => RpcInv
  /\ part = "hypotheses" => HypothesesInv
  /\ part = "budget" => BudgetInv
  /\ part = "profiler" => ProfilerInv
  /\ part = "processor" => ProcessorInv

(* A step is one of the part that runs, or none of its variables changes.      *)
LEMMA StepOfPart ==
  ASSUME [MCNext]_all
  PROVE  /\ part' = part
         /\ part = "lazy" => [LZ!Next]_(LZ!vars)
         /\ part = "cache" => [CC!Next]_(CC!vars)
         /\ part = "queries" => [QE!Next]_(QE!vars)
         /\ part = "orchestrator" => [TO!Next]_(TO!orchestratorVars)
         /\ part = "experiments" => [EX!Next]_(EX!experimentVars)
         /\ part = "stress" => [ST!Next]_(ST!stressVars)
         /\ part = "reload" => [HR!Next]_(HR!reloadVars)
         /\ part = "registry" => [CR!Next]_(CR!registryVars)
         /\ part = "pools" => [RP!Next]_(RP!vars)
         /\ part = "overlays" => [OV!Next]_(OV!vars)
         /\ part = "deadlocks" => [DD!Next]_(DD!vars)
         /\ part = "issues" => [ID!Next]_(ID!issueVars)
         /\ part = "inspector" => [EI!Next]_(EI!vars)
         /\ part = "observe" => [OB!Next]_(OB!observeVars)
         /\ part = "rpc" => [JR!Next]_(JR!vars)
         /\ part = "hypotheses" => [HY!Next]_(HY!hypothesisVars)
         /\ part = "budget" => [PB!Next]_(PB!budgetVars)
         /\ part = "profiler" => [SP!Next]_(SP!profilerVars)
         /\ part = "processor" => [OP!Next]_(OP!vars)
<1>1. CASE MCNext
  BY <1>1 DEF MCNext, LazyNext, CacheNext, QueriesNext, OrchestratorNext,
     ExperimentsNext, HypothesesNext, StressNext, PatternsNext, SuggestionsNext,
     ReloadNext, ObserveNext, BudgetNext, IssuesNext, ProfilerNext, MemoryNext,
     AnomaliesNext, RegistryNext, DeadlocksNext, PoolsNext, InspectorNext,
     BuilderNext, OverlaysNext, ProcessorNext, RpcNext
<1>2. CASE UNCHANGED all
  BY <1>2 DEF all, f1, f5, f6, f7, f8, f9, f10, f11, f12, f13, LZ!vars, CC!vars,
     CC!store, QE!vars, TO!orchestratorVars, EX!experimentVars, ST!stressVars,
     ST!breakerVars, ST!gameVars, HR!reloadVars, HR!fileVars, CR!registryVars,
     RP!vars, OV!vars, DD!vars, ID!issueVars, ID!detectorVars, ID!taskVars, EI!vars,
     OB!observeVars, OB!gameVars, OB!diffVars, JR!vars, HY!hypothesisVars,
     PB!budgetVars, PB!monitorVars, SP!profilerVars, SP!frameVars, SP!averageVars,
     OP!vars
<1> QED
  BY <1>1, <1>2

LEMMA PartsStart == ASSUME MCInit PROVE PartsInv
<1>1. part = "lazy" => LazyInv
  BY LazyStart DEF MCInit
<1>2. part = "cache" => CacheInv
  BY CacheStart DEF MCInit
<1>3. part = "queries" => QueriesInv
  BY QueriesStart DEF MCInit
<1>4. part = "orchestrator" => OrchestratorInv
  BY OrchestratorStart DEF MCInit
<1>5. part = "experiments" => ExperimentsInv
  BY ExperimentsStart DEF MCInit
<1>6. part = "stress" => StressInv
  BY StressStart DEF MCInit
<1>7. part = "reload" => ReloadInv
  BY ReloadStart DEF MCInit
<1>8. part = "registry" => RegistryInv
  BY RegistryStart DEF MCInit
<1>9. part = "pools" => PoolsInv
  BY PoolsStart DEF MCInit
<1>10. part = "overlays" => OverlaysInv
  BY OverlaysStart DEF MCInit
<1>11. part = "deadlocks" => DeadlocksInv
  BY DeadlocksStart DEF MCInit
<1>12. part = "issues" => IssuesInv
  BY IssuesStart DEF MCInit
<1>13. part = "inspector" => InspectorInv
  BY InspectorStart DEF MCInit
<1>14. part = "observe" => ObserveInv
  BY ObserveStart DEF MCInit
<1>15. part = "rpc" => RpcInv
  BY RpcStart DEF MCInit
<1>16. part = "hypotheses" => HypothesesInv
  BY HypothesesStart DEF MCInit
<1>17. part = "budget" => BudgetInv
  BY BudgetStart DEF MCInit
<1>18. part = "profiler" => ProfilerInv
  BY ProfilerStart DEF MCInit
<1>19. part = "processor" => ProcessorInv
  BY ProcessorStart DEF MCInit
<1> QED
  BY <1>1, <1>2, <1>3, <1>4, <1>5, <1>6, <1>7, <1>8, <1>9, <1>10,
     <1>11, <1>12, <1>13, <1>14, <1>15, <1>16, <1>17, <1>18, <1>19 DEF PartsInv

LEMMA PartsStep == ASSUME PartsInv, [MCNext]_all PROVE PartsInv'
<1>1. part = "lazy" => LazyInv'
  BY StepOfPart, LazyStep DEF PartsInv
<1>2. part = "cache" => CacheInv'
  BY StepOfPart, CacheStep DEF PartsInv
<1>3. part = "queries" => QueriesInv'
  BY StepOfPart, QueriesStep DEF PartsInv
<1>4. part = "orchestrator" => OrchestratorInv'
  BY StepOfPart, OrchestratorStep DEF PartsInv
<1>5. part = "experiments" => ExperimentsInv'
  BY StepOfPart, ExperimentsStep DEF PartsInv
<1>6. part = "stress" => StressInv'
  BY StepOfPart, StressStep DEF PartsInv
<1>7. part = "reload" => ReloadInv'
  BY StepOfPart, ReloadStep DEF PartsInv
<1>8. part = "registry" => RegistryInv'
  BY StepOfPart, RegistryStep DEF PartsInv
<1>9. part = "pools" => PoolsInv'
  BY StepOfPart, PoolsStep DEF PartsInv
<1>10. part = "overlays" => OverlaysInv'
  BY StepOfPart, OverlaysStep DEF PartsInv
<1>11. part = "deadlocks" => DeadlocksInv'
  BY StepOfPart, DeadlocksStep DEF PartsInv
<1>12. part = "issues" => IssuesInv'
  BY StepOfPart, IssuesStep DEF PartsInv
<1>13. part = "inspector" => InspectorInv'
  BY StepOfPart, InspectorStep DEF PartsInv
<1>14. part = "observe" => ObserveInv'
  BY StepOfPart, ObserveStep DEF PartsInv
<1>15. part = "rpc" => RpcInv'
  BY StepOfPart, RpcStep DEF PartsInv
<1>16. part = "hypotheses" => HypothesesInv'
  BY StepOfPart, HypothesesStep DEF PartsInv
<1>17. part = "budget" => BudgetInv'
  BY StepOfPart, BudgetStep DEF PartsInv
<1>18. part = "profiler" => ProfilerInv'
  BY StepOfPart, ProfilerStep DEF PartsInv
<1>19. part = "processor" => ProcessorInv'
  BY StepOfPart, ProcessorStep DEF PartsInv
<1> QED
  BY StepOfPart, <1>1, <1>2, <1>3, <1>4, <1>5, <1>6, <1>7, <1>8, <1>9, <1>10,
     <1>11, <1>12, <1>13, <1>14, <1>15, <1>16, <1>17, <1>18, <1>19 DEF PartsInv

LEMMA PartsHold == MCSpec => []PartsInv
<1>1. MCInit => PartsInv
  BY PartsStart
<1>2. PartsInv /\ [MCNext]_all => PartsInv'
  BY PartsStep
<1> QED
  BY <1>1, <1>2, PTL DEF MCSpec

(* Limits that several tasks or several windows share hold, for any number of  *)
(* them and whatever the limits are (lazy_init.rs, command_cache.rs,           *)
(* resource_manager.rs, stress_test_system.rs, query_optimization.rs,          *)
(* brp_validation.rs).                                                         *)
THEOREM LimitsAlwaysHold == MCSpec => []LimitsHold
<1>1. PartsInv => LimitsHold
  BY LazyKeepsPromises, PoolsKeepToLimit, StressKeepsPromises, QueriesKeepToLimit,
     RegistryBoundsBursts DEF PartsInv, CacheInv, LimitsHold
<1> QED
  BY <1>1, PartsHold, PTL

(* Nothing is left behind or lost on the way, whatever the tests, pipelines,   *)
(* files and tasks are (stress_test_system.rs, tool_orchestration.rs,          *)
(* hot_reload.rs, resource_manager.rs).                                        *)
THEOREM NothingStaysBehind == MCSpec => []NothingLeftBehind
<1>1. PartsInv => NothingLeftBehind
  BY StressKeepsPromises, OrchestratorLosesNoResult, ReloadKeepsBackup, PoolsKeepToLimit
     DEF PartsInv, NothingLeftBehind
<1> QED
  BY <1>1, PartsHold, PTL

(* An atomic batch with a failure leaves the history as it was                 *)
(* (experiment_system.rs), and batches lose no entity of a query               *)
(* (parallel_query_executor.rs).                                               *)
THEOREM BatchesAllOrNothing == MCSpec => AllOrNothing
<1>1. PartsInv /\ [MCNext]_all => (part = "experiments" => EX!Atomic)
  BY StepOfPart, ExperimentsAreAtomic DEF PartsInv
<1>2. PartsInv /\ [MCNext]_all => (part = "queries" => QE!LosesNothing)
  BY QueriesLoseNothing DEF PartsInv
<1> QED
  BY <1>1, <1>2, PartsHold, PTL DEF MCSpec, AllOrNothing

(* The command cache implements the abstract LRU cache: it evicts only from a  *)
(* full cache and nothing that was used after what stays (command_cache.rs).   *)
THEOREM CacheIsLru == MCSpec => EvictsLru
<1>1. MCInit => (part = "cache" => CC!Lru!Init)
  BY CacheStartsEmpty DEF MCInit
<1>2. PartsInv /\ [MCNext]_all => (part = "cache" => CC!LruSteps)
  BY StepOfPart, CacheStep DEF PartsInv
<1> QED
  BY <1>1, <1>2, PartsHold, PTL DEF MCSpec, EvictsLru

(* An overlay request that the game applied shows what the manager holds,      *)
(* however the tasks interleave (visual_debug_overlay.rs).                     *)
THEOREM AppliedStaysCurrent == MCSpec => AppliedIsCurrent
<1>1. PartsInv /\ [MCNext]_all => (part = "overlays" => OV!Applies)
  BY StepOfPart, OverlaysApply DEF PartsInv
<1> QED
  BY <1>1, PartsHold, PTL DEF MCSpec, AppliedIsCurrent

(* Threads that wait for each other in a circle are reported, whatever the     *)
(* order of their requests, the number of threads and of locks                 *)
(* (deadlock_detector.rs); alerts of one issue are apart and every task is     *)
(* told to end (issue_detector.rs).                                            *)
THEOREM AlarmsAlwaysGiven == MCSpec => []AlarmsGiven
<1>1. PartsInv => AlarmsGiven
  BY DetectorReports, IssuesKeepPromises DEF PartsInv, AlarmsGiven
<1> QED
  BY <1>1, PartsHold, PTL

(* What is put together in steps has all that was asked for: components with   *)
(* their parts, batches of inspections, answers of queries, and diffs          *)
(* (lazy_init.rs, entity_inspector.rs, brp_client.rs, state_diff.rs).          *)
THEOREM AnswersStayWhole == MCSpec => []AnswersWhole
<1>1. PartsInv => AnswersWhole
  BY LazyKeepsPromises, InspectorAnswersWhole DEF PartsInv, ObserveInv, RpcInv, AnswersWhole
<1> QED
  BY <1>1, PartsHold, PTL

(* What is kept of the past tells of it, for any number of tasks, entities,    *)
(* frames, metrics and variations and any limits of what is kept               *)
(* (command_cache.rs, state_diff.rs, system_profiler.rs,                       *)
(* performance_budget.rs, hypothesis_system.rs,                                *)
(* visual_debug_overlay_processor.rs).                                         *)
THEOREM HistoriesStayTrue == MCSpec => []HistoriesTrue
<1>1. PartsInv => HistoriesTrue
  BY OrderTracks, ObserveKeepsLatest, FramesStayConsecutive, HypothesesToldTrue
     DEF PartsInv, CacheInv, BudgetInv, ProcessorInv, HistoriesTrue
<1> QED
  BY <1>1, PartsHold, PTL
=============================================================================
