---------------------------- MODULE StressTests -----------------------------
(* The StressTestRunner of stress_test_system.rs under tools/stress.rs: tests  *)
(* that load the game one after the other, a circuit breaker of their own, and *)
(* a cleanup after each.  Time is counted in the seconds a test sleeps between *)
(* two batches.  A task of its own samples the game for as long as the run is  *)
(* to take, or until the run ends.                                             *)
EXTENDS Naturals, Sequences, FiniteSets

CONSTANTS
  Rate,         \* the spawns or changes of a batch
  MaxSpawned,   \* max_entities of the spawn test
  Made,         \* entities the changes test makes for itself
  Target,       \* entities until the memory test has its megabytes
  Duration,     \* seconds for each test
  Threshold,    \* failures that open the breaker
  ResetTimeout, \* seconds until it closes again
  MaxEntities   \* bound on the entities that are ever made

StressAssumption ==
  /\ {Rate, MaxSpawned, Made, Target, Duration, MaxEntities} \subseteq Nat
  /\ Threshold \in Nat \ {0} /\ ResetTimeout \in Nat

Tests == {"spawn_many", "rapid_changes", "memory_pressure"}

VARIABLES
  tests,        \* the tests of the runner that are left, the first one runs
  phase,        \* "idle", "setup", "executing", "batch", "cleaning" or "reporting"
  left,         \* seconds left for the test
  batch,        \* operations left in the batch
  total,        \* what the test counts as spawned: total_spawned, estimated_memory
  known,        \* spawned_entities of the test, or the ids it changes
  failure_count,
  is_open,
  since,        \* seconds since last_failure_time, at most ResetTimeout + 1
  error_count,
  monitor,      \* whether the sampling task runs
  report,       \* the last report: [triggered, issues], in a set
  alive,        \* the entities of the game
  owner,        \* [entity -> the test that made it]
  refused       \* entities the game did not delete, or whose id was never told

breakerVars == <<failure_count, is_open, since>>
gameVars == <<alive, owner, refused>>
stressVars == <<tests, phase, left, batch, total, known, breakerVars, error_count, monitor,
                report, gameVars>>

Init ==
  /\ tests = << >> /\ phase = "idle" /\ left = 0 /\ batch = 0 /\ total = 0 /\ known = {}
  /\ failure_count = 0 /\ is_open = FALSE /\ since = 0 /\ error_count = 0 /\ monitor = FALSE
  /\ report = {} /\ alive = {} /\ owner = << >> /\ refused = {}

Starts(what) ==
  phase' = (IF what = "rapid_changes" THEN "setup" ELSE "executing")

(* One test, or a combination of them in this order.                           *)
Plans == {<<t>> : t \in Tests} \cup {<<"spawn_many", "rapid_changes", "memory_pressure">>}

(* Each request makes a runner: its breaker and its metrics are new.           *)
run(plan) ==
  /\ phase = "idle" /\ tests' = plan /\ Starts(plan[1])
  /\ left' = Duration /\ batch' = 0 /\ total' = 0 /\ known' = {}
  /\ failure_count' = 0 /\ is_open' = FALSE /\ since' = 0 /\ error_count' = 0
  /\ monitor' = TRUE /\ report' = {} /\ UNCHANGED gameVars

(* The requests.  A quick one asks for less of the same; entities named for the *)
(* changes are left out.                                                       *)
handle_spawn_many == run(<<"spawn_many">>)
handle_rapid_changes == run(<<"rapid_changes">>)
handle_memory_pressure == run(<<"memory_pressure">>)
handle_run == \E plan \in Plans : run(plan)

-----------------------------------------------------------------------------
(* The breaker: is_open closes it when enough time has passed.                 *)
MayClose == is_open /\ since > ResetTimeout

is_open_resets ==
  /\ failure_count' = 0 /\ is_open' = FALSE /\ since' = 0

record_success ==
  /\ failure_count' = IF failure_count > 0 THEN failure_count - 1 ELSE 0
  /\ UNCHANGED <<is_open, since>>

record_failure ==
  /\ failure_count' = failure_count + 1
  /\ IF failure_count' >= Threshold THEN is_open' = TRUE /\ since' = 0
     ELSE UNCHANGED <<is_open, since>>

AtMost(bound, n) == IF n <= bound THEN n ELSE bound

Ticks(n) == since' = IF is_open THEN AtMost(ResetTimeout + 1, since + n) ELSE since

-----------------------------------------------------------------------------
Test == Head(tests)
NextEntity == Cardinality(DOMAIN owner) + 1

Spawns(told) ==
  /\ NextEntity <= MaxEntities
  /\ alive' = alive \cup {NextEntity}
  /\ owner' = [e \in 1..NextEntity |-> IF e = NextEntity THEN Test ELSE owner[e]]
  /\ IF told THEN known' = known \cup {NextEntity} /\ UNCHANGED refused
     ELSE refused' = refused \cup {NextEntity} /\ UNCHANGED known

(* The entities the changes test makes when none are named: a failure is       *)
(* passed over.                                                                *)
Setup ==
  /\ phase = "setup"
  /\ \/ total < Made /\ total' = total + 1 /\ UNCHANGED phase
        /\ (Spawns(TRUE) \/ UNCHANGED <<gameVars, known>>)
     \/ phase' = "executing" /\ total' = 0 /\ UNCHANGED <<gameVars, known>>
        /\ total = Made
  /\ UNCHANGED <<tests, left, batch, breakerVars, error_count, monitor, report>>

WantsMore ==
  CASE Test = "spawn_many" -> total < MaxSpawned
    [] Test = "memory_pressure" -> total < Target
    [] OTHER -> TRUE

(* An open breaker costs a second and is asked again.                          *)
Waits ==
  /\ phase = "executing" /\ left > 0 /\ WantsMore /\ is_open /\ ~MayClose
  /\ left' = left - 1 /\ Ticks(1)
  /\ UNCHANGED <<tests, phase, batch, total, known, failure_count, is_open, error_count, monitor,
                 report, gameVars>>

(* Mutant: the batch is as large as the rate, however few are missing.         *)
BatchSize_rate ==
  CASE Test = "spawn_many" -> Rate
    [] Test = "memory_pressure" -> 1
    [] OTHER -> IF known = {} THEN 0 ELSE Rate
BatchSize ==
  CASE Test = "spawn_many" -> AtMost(Rate, MaxSpawned - total)
    [] Test = "memory_pressure" -> 1
    [] OTHER -> IF known = {} THEN 0 ELSE Rate

BatchStarts ==
  /\ phase = "executing" /\ left > 0 /\ WantsMore
  /\ IF is_open THEN MayClose /\ is_open_resets ELSE UNCHANGED breakerVars
  /\ phase' = "batch" /\ batch' = BatchSize
  /\ UNCHANGED <<tests, left, total, known, error_count, monitor, report, gameVars>>

Succeeds ==
  /\ IF Test = "rapid_changes" THEN UNCHANGED <<gameVars, known, total>>
     ELSE Spawns(TRUE) /\ total' = total + 1
  /\ record_success /\ UNCHANGED error_count

(* The answer of a spawn that happened may be lost.                            *)
Errs ==
  /\ \/ UNCHANGED <<gameVars, known>>
     \/ Test # "rapid_changes" /\ Spawns(FALSE)
  /\ record_failure /\ error_count' = AtMost(1, error_count + 1) /\ UNCHANGED total

Warns == UNCHANGED <<gameVars, known, total, breakerVars, error_count>>

(* The breaker is not asked again within a batch.                              *)
Operation ==
  /\ phase = "batch" /\ batch > 0 /\ batch' = batch - 1
  /\ Succeeds \/ Errs \/ Warns
  /\ UNCHANGED <<tests, phase, left, monitor, report>>

BatchEnds ==
  /\ phase = "batch" /\ batch = 0 /\ phase' = "executing"
  /\ left' = left - 1 /\ Ticks(1)
  /\ UNCHANGED <<tests, batch, total, known, failure_count, is_open, error_count, monitor, report,
                 gameVars>>

ExecuteEnds ==
  /\ phase = "executing" /\ (left = 0 \/ ~WantsMore) /\ phase' = "cleaning"
  /\ UNCHANGED <<tests, left, batch, total, known, breakerVars, error_count, monitor, report,
                 gameVars>>

(* Mutant: cleaning ends with the first delete that fails.                     *)
Cleaned_first_refusal(asked, unwilling) == IF unwilling # {} THEN {} ELSE asked
Cleaned(asked, unwilling) == asked \ unwilling

(* Each test deletes what it knows it spawned, but the changes test nothing; a *)
(* delete that is refused or fails is passed over.                             *)
cleanup ==
  /\ phase = "cleaning"
  /\ IF Test = "rapid_changes" THEN UNCHANGED gameVars
     ELSE \E unwilling \in SUBSET known :
            /\ alive' = alive \ Cleaned(known, unwilling)
            /\ refused' = refused \cup unwilling /\ UNCHANGED owner
  /\ tests' = Tail(tests) /\ known' = {} /\ total' = 0 /\ left' = Duration
  /\ IF tests' = << >> THEN phase' = "reporting" ELSE Starts(Head(tests'))
  /\ UNCHANGED <<batch, breakerVars, error_count, monitor, report>>

(* The frame times and the load of the processor are drawn from where they     *)
(* never are an issue: only errors can be.                                     *)
detect_issues == error_count > 0

generate_report ==
  /\ phase = "reporting" /\ phase' = "idle" /\ monitor' = FALSE
  /\ report' = {[triggered |-> is_open, issues |-> detect_issues]}
  /\ UNCHANGED <<tests, left, batch, total, known, breakerVars, error_count, gameVars>>

(* The orchestrator's timeout drops the run: nothing is cleaned up, and the    *)
(* sampling task goes on until its time is over.                               *)
RunDropped ==
  /\ phase # "idle" /\ phase' = "idle" /\ refused' = refused \cup known
  /\ UNCHANGED <<tests, left, batch, total, known, breakerVars, error_count, monitor, report,
                 alive, owner>>

MonitorEnds ==
  /\ phase = "idle" /\ monitor /\ monitor' = FALSE
  /\ UNCHANGED <<tests, phase, left, batch, total, known, breakerVars, error_count, report,
                 gameVars>>

Next ==
  \/ handle_run \/ handle_spawn_many \/ handle_rapid_changes \/ handle_memory_pressure
  \/ Setup \/ Waits \/ BatchStarts \/ Operation \/ BatchEnds \/ ExecuteEnds
  \/ cleanup \/ generate_report \/ RunDropped \/ MonitorEnds

Spec == Init /\ [][Next]_stressVars

-----------------------------------------------------------------------------
TypeOK ==
  /\ phase \in {"idle", "setup", "executing", "batch", "cleaning", "reporting"}
  /\ alive \subseteq DOMAIN owner /\ known \subseteq DOMAIN owner
  /\ left <= Duration /\ failure_count \in Nat /\ since <= ResetTimeout + 1

(* When a run has reported, what its spawning tests made is gone again, save   *)
(* what the game would not delete and what it made without saying so.          *)
SpawnersCleanUp ==
  report # {} => \A e \in alive \ refused : owner[e] = "rapid_changes"

(* However many batches it takes, a spawn test never makes more entities than  *)
(* the request allows.                                                         *)
SpawnsWithinLimit == tests # << >> /\ Test = "spawn_many" => total <= MaxSpawned

(* stress_test_system.rs:227: "Clean up resources after test".                 *)
EverythingCleanedUp == report # {} => alive \subseteq refused
=============================================================================
