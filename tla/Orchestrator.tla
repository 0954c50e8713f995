---------------------------- MODULE Orchestrator ----------------------------
(* The ToolOrchestrator of tool_orchestration.rs as mcp_server.rs uses it:     *)
(* one request at a time holds its write lock and runs either one tool or one  *)
(* pipeline, each in a fresh ToolContext.  Sequential steps go through the     *)
(* result cache and may be tried again; parallel steps are tasks that bypass   *)
(* both and share the context behind a lock of its own.                        *)
EXTENDS Naturals, Sequences, FiniteSets

CONSTANTS
  Tools,        \* the registered tools
  Pipelines,    \* the pipelines that clients send
  MaxRuns       \* bound on the requests

(* A pipeline: its steps and the two flags.  A condition is <<type, tool>>.    *)
(* A step may name a tool that is not registered.                              *)
Step(tool, condition, attempts) ==
  [tool |-> tool, condition |-> condition, max_attempts |-> attempts]
Pipeline(steps, parallel, fail_fast) ==
  [steps |-> steps, parallel |-> parallel, fail_fast |-> fail_fast]

(* "marked" stands for an output that contains what a condition looks for.     *)
Outcomes == {"plain", "marked", "failed"}
Absent == "absent"

VARIABLES
  result_cache, \* [tool -> the outcome kept for it, or Absent]; the arguments
                \* of a tool never change here, so the tool is its own key
  pipeline,     \* the pipeline that runs, in a set
  context,      \* its ToolContext: [tool -> outcome or Absent]
  results,      \* the StepResults so far: TRUE for a success
  attempt,      \* failed attempts of the sequential step that runs
  tasks,        \* the parallel steps: [step number -> what its task has done]
  local,        \* the context each task has read
  produced,     \* the last outcome of each tool in this pipeline, a history
  reports,      \* what the last pipeline reported, in a set
  runs          \* requests so far

orchestratorVars == <<result_cache, pipeline, context, results, attempt, tasks,
                      local, produced, reports, runs>>

Fresh == [t \in Tools |-> Absent]

Init ==
  /\ result_cache = Fresh /\ pipeline = {} /\ context = Fresh /\ results = << >>
  /\ attempt = 0 /\ tasks = << >> /\ local = << >> /\ produced = Fresh
  /\ reports = {} /\ runs = 0

(* OnSuccess is not met by a tool that has left no result, OnFailure is.       *)
should_execute_step(step) ==
  LET kind == step.condition[1]
      found == IF step.condition[2] \in Tools THEN context[step.condition[2]] ELSE Absent
  IN \/ kind = "Always"
     \/ kind = "OnSuccess" /\ found \in {"plain", "marked"}
     \/ kind = "OnFailure" /\ found \in {"failed", Absent}
     \/ kind = "ResultContains" /\ found = "marked"

-----------------------------------------------------------------------------
(* A tool called on its own, in a context nobody reads afterwards.             *)
handle_orchestration ==
  /\ pipeline = {} /\ runs < MaxRuns /\ runs' = runs + 1
  /\ \E tool \in Tools :
       /\ result_cache[tool] = Absent
       /\ \E outcome \in Outcomes \ {"failed"} :
            result_cache' = [result_cache EXCEPT ![tool] = outcome]
  /\ UNCHANGED <<pipeline, context, results, attempt, tasks, local, produced, reports>>

(* The parallel steps that become tasks: their conditions are all evaluated    *)
(* on the context as it was handed in, which is fresh.                         *)
Spawned(p) == SelectSeq(p.steps, LAMBDA s : s.condition[1] \in {"Always", "OnFailure"})

StartPipeline(p) ==
  /\ pipeline = {} /\ runs < MaxRuns /\ runs' = runs + 1
  /\ pipeline' = {p} /\ context' = Fresh /\ produced' = Fresh
  /\ results' = << >> /\ attempt' = 0 /\ reports' = {}
  /\ tasks' = IF p.parallel THEN [i \in DOMAIN Spawned(p) |-> "spawned"] ELSE << >>
  /\ local' = [i \in DOMAIN tasks' |-> Fresh]
  /\ UNCHANGED result_cache

-----------------------------------------------------------------------------
(* One attempt of execute_step at the next sequential step.  Whatever the tool *)
(* answered, the step is a success; an attempt fails when the tool is unknown  *)
(* or times out.  An answer from the cache leaves no result in the context.    *)
Ended(p) ==
  \/ Len(results) = Len(p.steps)
  \/ p.fail_fast /\ results # << >> /\ ~results[Len(results)]

StepEnds(success) == results' = Append(results, success) /\ attempt' = 0

Skip(step) ==
  /\ attempt = 0 /\ ~should_execute_step(step)
  /\ StepEnds(TRUE)
  /\ UNCHANGED <<result_cache, context, produced>>

CacheHit(step) ==
  /\ step.tool \in Tools /\ result_cache[step.tool] # Absent
  /\ StepEnds(TRUE)
  /\ UNCHANGED <<result_cache, context, produced>>

Answered(step, outcome) ==
  /\ step.tool \in Tools /\ result_cache[step.tool] = Absent
  /\ result_cache' = IF outcome = "failed" THEN result_cache
                     ELSE [result_cache EXCEPT ![step.tool] = outcome]
  /\ context' = [context EXCEPT ![step.tool] = outcome]
  /\ produced' = [produced EXCEPT ![step.tool] = outcome]
  /\ StepEnds(TRUE)

AttemptFails(step) ==
  /\ step.tool \in Tools => result_cache[step.tool] = Absent
  /\ IF attempt + 1 >= step.max_attempts THEN StepEnds(FALSE)
     ELSE attempt' = attempt + 1 /\ UNCHANGED results
  /\ UNCHANGED <<result_cache, context, produced>>

execute_step ==
  /\ \E p \in pipeline :
       /\ ~p.parallel /\ ~Ended(p)
       /\ LET step == p.steps[Len(results) + 1] IN
            \/ Skip(step)
            \/ /\ attempt > 0 \/ should_execute_step(step)
               /\ \/ CacheHit(step) \/ AttemptFails(step)
                  \/ \E outcome \in Outcomes : Answered(step, outcome)
  /\ UNCHANGED <<pipeline, tasks, local, reports, runs>>

-----------------------------------------------------------------------------
(* A parallel task copies the shared context, runs its tool on the copy, and   *)
(* adds its result, when the tool succeeded, to the shared context.            *)
TaskReads(i) ==
  /\ tasks[i] = "spawned"
  /\ tasks' = [tasks EXCEPT ![i] = "running"] /\ local' = [local EXCEPT ![i] = context]
  /\ UNCHANGED <<result_cache, pipeline, context, results, attempt, produced, reports, runs>>

(* Mutant: the task stores its copy, with its result, as the shared context.   *)
TaskEnds_stores_copy(i) ==
  /\ tasks[i] = "running"
  /\ \E p \in pipeline, outcome \in Outcomes :
       LET tool == Spawned(p)[i].tool
           success == tool \in Tools /\ outcome # "failed"
       IN /\ tasks' = [tasks EXCEPT ![i] = IF success THEN "succeeded" ELSE "failed"]
          /\ context' = IF success THEN [local[i] EXCEPT ![tool] = outcome] ELSE context
          /\ produced' = IF success THEN [produced EXCEPT ![tool] = outcome] ELSE produced
  /\ UNCHANGED <<result_cache, pipeline, results, attempt, local, reports, runs>>

TaskEnds(i) ==
  /\ tasks[i] = "running"
  /\ \E p \in pipeline, outcome \in Outcomes :
       LET tool == Spawned(p)[i].tool
           success == tool \in Tools /\ outcome # "failed"
       IN /\ tasks' = [tasks EXCEPT ![i] = IF success THEN "succeeded" ELSE "failed"]
          /\ context' = IF success THEN [context EXCEPT ![tool] = outcome] ELSE context
          /\ produced' = IF success THEN [produced EXCEPT ![tool] = outcome] ELSE produced
  /\ UNCHANGED <<result_cache, pipeline, results, attempt, local, reports, runs>>

(* All tasks are awaited in order before the pipeline is judged.               *)
JoinAll ==
  /\ \E p \in pipeline : p.parallel
  /\ \A i \in DOMAIN tasks : tasks[i] \in {"succeeded", "failed"}
  /\ Len(results) < Len(tasks)
  /\ results' = [i \in DOMAIN tasks |-> tasks[i] = "succeeded"]
  /\ UNCHANGED <<result_cache, pipeline, context, attempt, tasks, local, produced, reports, runs>>

(* The pipeline succeeds when every step that was judged did.                  *)
PipelineEnds ==
  /\ \E p \in pipeline :
       /\ IF p.parallel THEN Len(results) = Len(tasks) ELSE Ended(p)
       /\ reports' = {\A i \in DOMAIN results : results[i]}
  /\ pipeline' = {} /\ tasks' = << >> /\ local' = << >>
  /\ UNCHANGED <<result_cache, context, results, attempt, produced, runs>>

(* The thirty minutes of a pipeline are over: the request fails.  Tasks that   *)
(* still run keep the context they share, which nobody reads any more.         *)
PipelineTimesOut ==
  /\ pipeline # {} /\ pipeline' = {} /\ tasks' = << >> /\ local' = << >>
  /\ UNCHANGED <<result_cache, context, results, attempt, produced, reports, runs>>

Next ==
  \/ handle_orchestration \/ (\E p \in Pipelines : StartPipeline(p)) \/ execute_step
  \/ (\E i \in DOMAIN tasks : TaskReads(i) \/ TaskEnds(i))
  \/ JoinAll \/ PipelineEnds \/ PipelineTimesOut

Spec == Init /\ [][Next]_orchestratorVars

-----------------------------------------------------------------------------
TypeOK ==
  /\ result_cache \in [Tools -> {"plain", "marked", Absent}]
  /\ context \in [Tools -> Outcomes \cup {Absent}]
  /\ \A p \in pipeline : Len(results) <= Len(p.steps) /\ Len(tasks) <= Len(p.steps)
  /\ reports \subseteq BOOLEAN /\ runs <= MaxRuns
  /\ DOMAIN local = DOMAIN tasks

(* The context a pipeline returns holds the last outcome of every tool that    *)
(* answered in it, in whatever order parallel tasks read and write it.         *)
NoLostResult == reports # {} => context = produced

(* tests/tool_orchestration_tests.rs:269 asserts !pipeline_result.success of a *)
(* pipeline in which a tool failed.                                            *)
ReportHonest == reports = {TRUE} => \A t \in Tools : produced[t] # "failed"
=============================================================================
