---------------------------- MODULE MCResilience ----------------------------
(* TLC instance of the parts that calls of several tasks meet in and that      *)
(* must let every one of them go.  No two of them share state in the code, so  *)
(* one run checks them all: each behaviour exercises the part chosen at its    *)
(* start.  The circuit breaker has the variables of its module, and stays as   *)
(* it was while another part runs; the others use v1, v2, ... for theirs, each *)
(* in the order of its VARIABLES, and None fills those a part has no use for.  *)
EXTENDS CircuitBreaker, SequencesExt, TLC

CONSTANTS
  Parts,                       \* the parts of the run
  Conns, MaxConns, MinConns,   \* see ConnectionPool
  Requested, Features,         \* see LazyInit
  None

VARIABLES
  part, v1, v2, v3, v4, v5, v6, v7, v8, v9, v10, v11, v12, v13, v14, v15

CP == INSTANCE ConnectionPool WITH
  pool <- v1, poolLock <- v2, metricsLock <- v3, permits <- v4, active <- v5,
  available <- v6, created <- v7, closed <- v8, pc <- v9, conn <- v10,
  removed <- v11, phase <- v12, unused <- v13, dead <- v14, expired <- v15

HB == INSTANCE Heartbeat WITH
  Pings <- {"p1", "p2"}, MaxMissed <- 2,
  hbRunning <- v1, sender <- v2, sending <- v3, handler <- v4, reading <- v5,
  pending <- v6, atGame <- v7, pongs <- v8, linkUp <- v9, hbFailures <- v10,
  reported <- v11

RM == INSTANCE ResourceManager WITH
  Tasks <- {"t1"}, Monitor <- "monitor", Threshold <- 2, MaxRequests <- 2, MaxOps <- 1,
  Window <- 1, Levels <- 2,
  isOpen <- v1, failed <- v2, lastFailed <- v3, at <- v4, todo <- v5, requests <- v6,
  permitsHeld <- v7, rate <- v8

DL == INSTANCE DeadLetters WITH
  MaxSize <- 1, MaxMade <- 2,
  persisting <- v1, dlq <- v2, made <- v3, adding <- v4, stuck <- v5, file <- v6,
  loaded <- v7

SE == INSTANCE Security WITH
  Users <- {"u1"}, Shards <- {"s1", "s2"}, MaxFailed <- 1, Lockout <- 1, Timeout <- 0,
  MaxSessions <- 2, MaxFailures <- 1, MaxTime <- 1,
  now <- v1, ready <- v2, call <- v3, failed_logins <- v4, pending <- v5, sessions <- v6,
  made <- v7, failures <- v8, cleaner <- v9

BA == INSTANCE Batches WITH
  MaxBatch <- 1, Limited <- TRUE, MaxRequests <- 2, MaxStarts <- 2,
  lock <- v1, queue <- v2, running <- v3, batch <- v4, verdict <- v5, waiting <- v6,
  sent <- v7, answer <- v8, requests <- v9, starts <- v10

(* The processors that have no parts and are not preloaded.                    *)
Leaves ==
  SelectSeq(
    <<"visual_overlay_processor", "query_builder_processor", "memory_profiler_processor",
      "issue_detector_processor", "performance_budget_processor">>,
    LAMBDA x : x \in Requested)

LZ == INSTANCE LazyInit WITH
  Alike <- Leaves,
  built <- v1, cell <- v2, owner <- v3, stack <- v4, todo <- v5

(* All entities, which are listed and filtered in parallel, and at most one of *)
(* those with three components, which are not.                                 *)
SomeRequests ==
  {[with |-> {}, without |-> {}, where |-> {"e1", "e2"}, limit |-> None],
   [with |-> {"k1", "k2", "k3"}, without |-> {}, where |-> {"e1", "e2"}, limit |-> 1]}

QE == INSTANCE QueryExecutor WITH
  Entities <- {"e1", "e2"}, Components <- {"k1", "k2", "k3"},
  Requests <- SomeRequests,
  MaxStates <- 1, EnoughFor <- 2, BatchSize <- 1, Permits <- 1, MaxHistory <- 1,
  MaxAsked <- 2, MaxChanges <- 0,
  world <- v1, states <- v2, results <- v3, last <- v4, history <- v5, readers <- v6,
  writer <- v7, client <- v8, permits <- v9, job <- v10, asked <- v11, changes <- v12

ASSUME
  /\ CP!PoolAssumption /\ HB!HeartbeatAssumption /\ RM!ResourceAssumption
  /\ DL!DeadLettersAssumption /\ BA!BatchesAssumption
  /\ SE!SecurityAssumption /\ QE!ExecutorAssumption
  /\ LZ!CallersAssumption /\ LZ!RequestedAssumption

-----------------------------------------------------------------------------
f13 == <<v13, v14, v15>>
f12 == <<v12, f13>>
f11 == <<v11, f12>>
f10 == <<v10, f11>>
f9 == <<v9, f10>>
f8 == <<v8, f9>>
f6 == <<v6, v7, f8>>
f1 == <<v1, v2, v3, v4, v5, f6>>
all == <<part, vars, f1>>

Free13 == v13 = None /\ v14 = None /\ v15 = None
Free12 == v12 = None /\ Free13
Free11 == v11 = None /\ Free12
Free10 == v10 = None /\ Free11
Free9 == v9 = None /\ Free10
Free8 == v8 = None /\ Free9
Free6 == v6 = None /\ v7 = None /\ Free8
Free1 == v1 = None /\ v2 = None /\ v3 = None /\ v4 = None /\ v5 = None /\ Free6

MCInit ==
  /\ part \in Parts
  /\ Init
  /\ \/ part = "breaker" /\ Free1
     \/ part = "pool" /\ CP!Init
     \/ part = "heartbeat" /\ HB!Init /\ Free12
     \/ part = "resources" /\ RM!Init /\ Free9
     \/ part = "letters" /\ DL!Init /\ Free8
     \/ part = "logins" /\ SE!Init /\ Free10
     \/ part = "batches" /\ BA!Init /\ Free11
     \/ part = "getters" /\ LZ!Init /\ Free6
     \/ part = "queries" /\ QE!Init /\ Free13

BreakerNext == part = "breaker" /\ Next /\ UNCHANGED <<part, f1>>
PoolNext == part = "pool" /\ CP!Next /\ UNCHANGED <<part, vars>>
HeartbeatNext == part = "heartbeat" /\ HB!Next /\ UNCHANGED <<part, vars, f12>>
ResourcesNext == part = "resources" /\ RM!Next /\ UNCHANGED <<part, vars, f9>>
LettersNext == part = "letters" /\ DL!Next /\ UNCHANGED <<part, vars, f8>>
LoginsNext == part = "logins" /\ SE!Next /\ UNCHANGED <<part, vars, f10>>
BatchesNext == part = "batches" /\ BA!Next /\ UNCHANGED <<part, vars, f11>>
GettersNext == part = "getters" /\ LZ!Next /\ UNCHANGED <<part, vars, f6>>
QueriesNext == part = "queries" /\ QE!Next /\ UNCHANGED <<part, vars, f13>>

MCNext ==
  \/ BreakerNext \/ PoolNext \/ HeartbeatNext \/ ResourcesNext \/ LettersNext
  \/ LoginsNext \/ BatchesNext \/ GettersNext \/ QueriesNext

MCSpec == MCInit /\ [][MCNext]_all

(* What has strong fairness, by process: as part never changes, that of a      *)
(* disjunction over the parts is that of each of them.  The task that preloads *)
(* components goes by the name of the one that cleans the pool.                *)
Preloads(p) == IF p = "cleanup" THEN LZ!Preload ELSE p
Proceeds(p) ==
  \/ /\ part = "pool" /\ UNCHANGED <<part, vars>>
     /\ \/ p \in Callers /\ CP!CallStep(p)
        \/ p \in CP!Tasks /\ CP!TaskStep(p)
        \/ CP!LockMetrics(p)
  \/ /\ part = "getters" /\ UNCHANGED <<part, vars, f6>>
     /\ Preloads(p) \in LZ!Processes /\ LZ!Step(Preloads(p))
  \/ /\ part = "queries" /\ UNCHANGED <<part, vars, f13>>
     /\ p \in Callers /\ QE!Proceeds(p)

(* The fairness of the parts, see there.                                       *)
MCFairSpec ==
  /\ MCSpec
  /\ \A p \in Callers \cup CP!Tasks : SF_all(Proceeds(p))
  /\ WF_vars(part = "breaker" /\ Elapse)
  /\ \A c \in Callers : WF_vars(part = "breaker" /\ InCall(c))
  /\ WF_(HB!hbvars)(part = "heartbeat" /\ HB!SenderStep)
  /\ WF_(HB!hbvars)(part = "heartbeat" /\ HB!HandlerStep)
  /\ WF_(HB!hbvars)(part = "heartbeat" /\ HB!LostOnDeadLink)
  /\ WF_(RM!rmvars)(part = "resources" /\ RM!Request("t1"))
  /\ WF_(RM!rmvars)(part = "resources" /\ RM!Answer("t1"))
  /\ WF_(RM!rmvars)(part = "resources" /\ RM!IsOpen("monitor"))
  /\ WF_(RM!rmvars)(part = "resources" /\ RM!TimeoutPasses)
  /\ WF_(RM!rmvars)(part = "resources" /\ RM!Tick)
  /\ \A op \in 0..2 : WF_(DL!dlvars)(part = "letters" /\ DL!add_failed_operation(op))
  /\ WF_(SE!securityVars)(part = "logins" /\ SE!initialize_default_users)
  /\ \A c \in Callers : WF_(SE!securityVars)(part = "logins" /\ SE!LoginStep(c))
  /\ WF_(BA!vars)(part = "batches" /\ (BA!Drain \/ BA!Checked \/ BA!Processed))
  /\ \A c \in Callers : WF_(BA!vars)(part = "batches" /\ BA!Received(c))
  /\ WF_(LZ!vars)(part = "getters" /\ LZ!PreloadNext)

-----------------------------------------------------------------------------
(* The properties of the parts; the modules say what each is about.            *)

(* The types of every part.                                                    *)
TypesOK ==
  /\ TypeOK
  /\ part = "pool" => CP!TypeOK
  /\ part = "heartbeat" => HB!TypeOK
  /\ part = "resources" => RM!TypeOK
  /\ part = "letters" => DL!TypeOK
  /\ part = "logins" => SE!TypeOK
  /\ part = "batches" => BA!TypeOK
  /\ part = "getters" => LZ!TypeOK
  /\ part = "queries" => QE!TypeOK

(* Holds, while part p runs.                                                   *)
In(p, Holds) == part = p /\ Holds

(* An open breaker gets to the point where the next request tests the service, *)
(* and a half-open one at its limit does not reject for ever                   *)
(* (circuit_breaker.rs).                                                       *)
BreakerRecovers == OpenBecomesTestable /\ HalfOpenSettles

(* A get_connection or return_connection that has begun ends                   *)
(* (connection_pool.rs); so do a batched request while the batch task runs     *)
(* (brp_client.rs), an addition to a dead letter queue in memory               *)
(* (dead_letter_queue.rs), and a login that was let in, unless some token was  *)
(* checked (security.rs).                                                      *)
CallsEnd ==
  /\ \A c \in Callers :
       In("pool", ~CP!Rests(c)) \/ In("batches", BA!Served(c)) \/ In("logins", SE!LetIn(c))
         ~> \/ In("pool", CP!Rests(c)) \/ In("batches", ~BA!Waits(c))
            \/ In("logins", SE!Out(c) \/ SE!Checking)
  /\ \A op \in 1..2 : In("letters", DL!Adds(op)) ~> In("letters", ~DL!Adds(op))

(* A dead link is reported unless the service is stopped (heartbeat.rs).       *)
OutageReported == In("heartbeat", HB!DeadLink) ~> In("heartbeat", HB!ToldOrStopped)

(* An open breaker of the resource manager closes again, unless it forgets     *)
(* when it failed (resource_manager.rs).                                       *)
OpenCloses == In("resources", RM!OpenAndDated) ~> In("resources", ~RM!OpenAndDated)

(* A getter of a component returns unless some process waits for its own guard *)
(* (lazy_init.rs).                                                             *)
GetsEnd ==
  \A p \in LZ!Processes : In("getters", LZ!Gets(p)) ~> In("getters", ~LZ!Gets(p) \/ LZ!SelfLocked)

(* lazy_init_integration_tests.rs:244, "Debug router initialization should     *)
(* complete within 5 seconds": a call that asks for the router gets it.        *)
RouterCompletes ==
  \A c \in Callers : In("getters", LZ!GetsRouter(c)) ~> In("getters", ~LZ!Gets(c))

(* A query ends: permits and locks that calls hold while they wait for one     *)
(* another never make a circle (parallel_query_executor.rs).                   *)
QueriesEnd == \A c \in Callers : In("queries", QE!Looking(c)) ~> In("queries", QE!Answered(c))
=============================================================================
