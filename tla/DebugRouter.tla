----------------------------- MODULE DebugRouter -----------------------------
(* The DebugCommandRouter of debug_command_processor.rs: a priority queue of  *)
(* debug commands, shared by every task that wants one processed, and a map   *)
(* of responses by correlation id.  A task queues its own command, then       *)
(* processes whichever command comes first, which may be another task's.      *)
(*                                                                            *)
(* A caller is one task with one command; its correlation id is its name.     *)
(* Each lock is held for one step; the steps of different callers interleave  *)
(* at the awaits between them.                                                *)
EXTENDS Naturals, FiniteSets, Functions, FiniteSetTheorems, TLAPS

CONSTANTS
  Callers,      \* tasks that submit a debug command
  Routers,      \* those that call route (debug_brp_handler.rs); the others call
                \* queue_command then process_next (mcp_server.rs)
  Names,        \* keys of the processors map
  Processors,   \* DebugCommandProcessor objects
  Supports,     \* which callers' commands each processor supports
  Priority,     \* the priority of each caller's command, at most MAX_PRIORITY
  MaxQueue,     \* MAX_QUEUE_SIZE
  Timeout,      \* DEBUG_COMMAND_TIMEOUT, in ticks
  Ttl,          \* response_ttl, in ticks
  MaxTime,      \* bound on the clock
  None

ASSUME RouterAssumption ==
  /\ Routers \subseteq Callers /\ IsFiniteSet(Callers)
  /\ Supports \subseteq Processors \X Callers
  /\ None \notin Processors \cup Callers
  /\ Priority \in [Callers -> Nat]
  /\ {MaxQueue, Timeout, Ttl, MaxTime} \subseteq Nat

VARIABLES
  now,         \* the clock (Instant), in ticks
  processors,  \* [Names -> processor or None]
  queue,       \* command_queue: the callers whose commands wait in the heap
  received_at, \* [Callers -> when the command was made]
  responses,   \* response_map: stored_at of each stored response
  metrics,     \* total, successful and failed commands
  pc,          \* where each caller is
  job,         \* the command a caller popped and is processing
  outcome,     \* the result of running it
  result       \* what the call returned, and the command it is about

vars == <<now, processors, queue, received_at, responses, metrics, pc, job,
          outcome, result>>

Points == {"idle", "length", "validate", "push", "pop", "find", "run",
           "metrics", "store", "get", "done"}
Running == {"find", "run", "metrics", "store"}
Kinds == {"none", "full", "rejected", "empty", "ok", "error", "timeout",
          "not_found"}

Init ==
  /\ now = 0
  /\ processors = [n \in Names |-> None]
  /\ queue = {}
  /\ received_at = [c \in Callers |-> 0]
  /\ responses = << >>
  /\ metrics = [total |-> 0, successful |-> 0, failed |-> 0]
  /\ pc = [c \in Callers |-> "idle"]
  /\ job = [c \in Callers |-> None]
  /\ outcome = [c \in Callers |-> "none"]
  /\ result = [c \in Callers |-> [kind |-> "none", of |-> None]]

Goto(c, point) == pc' = [pc EXCEPT ![c] = point]

Return(c, kind, of) ==
  /\ Goto(c, "done")
  /\ result' = [result EXCEPT ![c] = [kind |-> kind, of |-> of]]

find_processor(r) ==
  {p \in Range(processors) \ {None} : <<p, r>> \in Supports}

is_timed_out(r) == now - received_at[r] > Timeout

fresh(stored_at) == now - stored_at <= Ttl

\* Higher priority first, then the earlier command; the heap may return any of
\* those that compare equal.
Before(r, s) ==
  \/ Priority[r] > Priority[s]
  \/ /\ Priority[r] = Priority[s]
     /\ received_at[r] <= received_at[s]

First == {r \in queue : \A s \in queue : Before(r, s)}

-----------------------------------------------------------------------------
\* Faulty variants of the actions below, one per property.

\* The response times are kept relative to the next tick.
StoreLate(c) ==
  /\ pc[c] = "store"
  /\ responses' = [r \in DOMAIN responses \cup {job[c]} |->
                     IF r = job[c] THEN now + 1 ELSE responses[r]]
  /\ IF c \in Routers /\ job[c] # c
     THEN Goto(c, "get") /\ UNCHANGED result
     ELSE Return(c, "ok", job[c])
  /\ UNCHANGED <<now, processors, queue, received_at, metrics, job, outcome>>

\* route does not compare the correlation ids.
StoreAny(c) ==
  /\ pc[c] = "store"
  /\ responses' = [r \in DOMAIN responses \cup {job[c]} |->
                     IF r = job[c] THEN now ELSE responses[r]]
  /\ Return(c, "ok", job[c])
  /\ UNCHANGED <<now, processors, queue, received_at, metrics, job, outcome>>

\* The response is returned but not stored.
StoreNothing(c) ==
  /\ pc[c] = "store"
  /\ IF c \in Routers /\ job[c] # c
     THEN Goto(c, "get") /\ UNCHANGED result
     ELSE Return(c, "ok", job[c])
  /\ UNCHANGED <<now, processors, queue, received_at, responses, metrics, job, outcome>>

\* A command that timed out is reported but left in the queue.
PopPeeks(c) ==
  /\ pc[c] = "pop"
  /\ IF queue = {}
     THEN Return(c, "empty", c) /\ UNCHANGED <<queue, job>>
     ELSE \E r \in First :
            /\ job' = [job EXCEPT ![c] = r]
            /\ IF is_timed_out(r)
               THEN Return(c, "timeout", r) /\ UNCHANGED queue
               ELSE Goto(c, "find") /\ queue' = queue \ {r} /\ UNCHANGED result
  /\ UNCHANGED <<now, processors, received_at, responses, metrics, outcome>>

\* A command that timed out is skipped, and looked at again.
PopSkips(c) ==
  /\ pc[c] = "pop"
  /\ IF queue = {}
     THEN Return(c, "empty", c) /\ UNCHANGED <<queue, job>>
     ELSE \E r \in First :
            IF is_timed_out(r)
            THEN UNCHANGED <<queue, job, pc, result>>
            ELSE /\ queue' = queue \ {r}
                 /\ job' = [job EXCEPT ![c] = r]
                 /\ Goto(c, "find") /\ UNCHANGED result
  /\ UNCHANGED <<now, processors, received_at, responses, metrics, outcome>>

\* A processor that is gone returns early, before the metrics.
FindProcessorOrReturn(c) ==
  /\ pc[c] = "find"
  /\ IF find_processor(job[c]) = {}
     THEN Return(c, "error", job[c])
     ELSE Goto(c, "run") /\ UNCHANGED result
  /\ UNCHANGED <<now, processors, queue, received_at, responses, metrics, job, outcome>>

-----------------------------------------------------------------------------
register_processor(n, p) ==
  /\ processors[n] # p
  /\ processors' = [processors EXCEPT ![n] = p]
  /\ UNCHANGED <<now, queue, received_at, responses, metrics, pc, job, outcome, result>>

NewRequest(c) ==
  /\ pc[c] = "idle"
  /\ received_at' = [received_at EXCEPT ![c] = now]
  /\ Goto(c, "length")
  /\ UNCHANGED <<now, processors, queue, responses, metrics, job, outcome, result>>

\* queue_command reads the length, and releases the lock before it pushes.
CheckLength(c) ==
  /\ pc[c] = "length"
  /\ IF Cardinality(queue) >= MaxQueue
     THEN Return(c, "full", c)
     ELSE Goto(c, "validate") /\ UNCHANGED result
  /\ UNCHANGED <<now, processors, queue, received_at, responses, metrics, job, outcome>>

\* The processor's validate and validate_command_args may each refuse.
Validate(c) ==
  /\ pc[c] = "validate"
  /\ \/ Return(c, "rejected", c)
     \/ /\ find_processor(c) # {}
        /\ Goto(c, "push") /\ UNCHANGED result
  /\ UNCHANGED <<now, processors, queue, received_at, responses, metrics, job, outcome>>

Push(c) ==
  /\ pc[c] = "push"
  /\ queue' = queue \cup {c}
  /\ Goto(c, "pop")
  /\ UNCHANGED <<now, processors, received_at, responses, metrics, job, outcome, result>>

\* process_next pops a command, and drops it if it has waited too long.
Pop(c) ==
  /\ pc[c] = "pop"
  /\ IF queue = {}
     THEN Return(c, "empty", c) /\ UNCHANGED <<queue, job>>
     ELSE \E r \in First :
            /\ queue' = queue \ {r}
            /\ job' = [job EXCEPT ![c] = r]
            /\ IF is_timed_out(r)
               THEN Return(c, "timeout", r)
               ELSE Goto(c, "find") /\ UNCHANGED result
  /\ UNCHANGED <<now, processors, received_at, responses, metrics, outcome>>

\* The processors map may have changed since the command was validated.
FindProcessor(c) ==
  /\ pc[c] = "find"
  /\ IF find_processor(job[c]) = {}
     THEN Goto(c, "metrics") /\ outcome' = [outcome EXCEPT ![c] = "error"]
     ELSE Goto(c, "run") /\ UNCHANGED outcome
  /\ UNCHANGED <<now, processors, queue, received_at, responses, metrics, job, result>>

RunProcessor(c) ==
  /\ pc[c] = "run"
  /\ \E o \in {"ok", "error"} : outcome' = [outcome EXCEPT ![c] = o]
  /\ Goto(c, "metrics")
  /\ UNCHANGED <<now, processors, queue, received_at, responses, metrics, job, result>>

update_metrics(c) ==
  /\ pc[c] = "metrics"
  /\ metrics' = [metrics EXCEPT !.total = @ + 1,
       !.successful = IF outcome[c] = "ok" THEN @ + 1 ELSE @,
       !.failed = IF outcome[c] = "error" THEN @ + 1 ELSE @]
  /\ IF outcome[c] = "ok"
     THEN Goto(c, "store") /\ UNCHANGED result
     ELSE Return(c, "error", job[c])
  /\ UNCHANGED <<now, processors, queue, received_at, responses, job, outcome>>

\* route compares correlation ids; the other callers return what they popped.
Store(c) ==
  /\ pc[c] = "store"
  /\ responses' = [r \in DOMAIN responses \cup {job[c]} |->
                     IF r = job[c] THEN now ELSE responses[r]]
  /\ IF c \in Routers /\ job[c] # c
     THEN Goto(c, "get") /\ UNCHANGED result
     ELSE Return(c, "ok", job[c])
  /\ UNCHANGED <<now, processors, queue, received_at, metrics, job, outcome>>

get_response(c) ==
  /\ pc[c] = "get"
  /\ Return(c, IF c \in DOMAIN responses /\ fresh(responses[c])
               THEN "ok" ELSE "not_found", c)
  /\ UNCHANGED <<now, processors, queue, received_at, responses, metrics, job, outcome>>

cleanup_expired ==
  /\ \E r \in DOMAIN responses : ~fresh(responses[r])
  /\ responses' = Restrict(responses, {r \in DOMAIN responses : fresh(responses[r])})
  /\ UNCHANGED <<now, processors, queue, received_at, metrics, pc, job, outcome, result>>

Tick ==
  /\ now < MaxTime
  /\ now' = now + 1
  /\ UNCHANGED <<processors, queue, received_at, responses, metrics, pc, job,
                 outcome, result>>

CallStep(c) ==
  \/ CheckLength(c) \/ Validate(c) \/ Push(c) \/ Pop(c) \/ FindProcessor(c)
  \/ RunProcessor(c) \/ update_metrics(c) \/ Store(c) \/ get_response(c)

Next ==
  \/ \E c \in Callers : NewRequest(c) \/ CallStep(c)
  \/ \E n \in Names, p \in Processors : register_processor(n, p)
  \/ cleanup_expired
  \/ Tick

Spec == Init /\ [][Next]_vars

\* A task that is called runs: the tokio runtime polls it, the locks are fair,
\* and a processor returns.
FairSpec == Spec /\ \A c \in Callers : WF_vars(CallStep(c))

-----------------------------------------------------------------------------
TypeOK ==
  /\ now \in 0..MaxTime
  /\ processors \in [Names -> Processors \cup {None}]
  /\ queue \subseteq Callers
  /\ received_at \in [Callers -> 0..MaxTime]
  /\ DOMAIN responses \subseteq Callers /\ Range(responses) \subseteq 0..MaxTime
  /\ metrics \in [total : Nat, successful : Nat, failed : Nat]
  /\ pc \in [Callers -> Points]
  /\ job \in [Callers -> Callers \cup {None}]
  /\ outcome \in [Callers -> {"none", "ok", "error"}]
  /\ result \in [Callers -> [kind : Kinds, of : Callers \cup {None}]]

\* A command in the queue always has a task on its way to pop one, and a task on
\* its way to pop always finds one: no command is left behind, and the answers
\* for an empty queue ("No commands to process" of route, the "queued" status of
\* handle_debug_command) are never given, although tasks process each other's
\* commands and commands time out.
QueueServed == Cardinality(queue) = Cardinality({c \in Callers : pc[c] = "pop"})

\* A command is in one place: in the queue or with the one task that popped it.
\* No command is processed twice.
OnePlace ==
  \A c, d \in Callers :
    job[c] # None => job[c] \notin queue /\ (job[d] = job[c] => c = d)

\* The metrics account for every command popped: each is still running, was
\* counted once as successful or failed, or was dropped because it timed out.
MetricsExact ==
  LET Popped(kinds) == {c \in Callers : job[c] # None /\ result[c].kind \in kinds}
      Uncounted == {c \in Callers : pc[c] \in {"find", "run", "metrics"}}
  IN /\ metrics.total = metrics.successful + metrics.failed
     /\ metrics.total = Cardinality({c \in Callers : job[c] # None})
                          - Cardinality(Uncounted \cup Popped({"timeout"}))
     /\ metrics.successful >= Cardinality(DOMAIN responses)

\* An answer that route returns as a success is the answer to its own command,
\* whichever command it processed.
RouteAnswersOwn ==
  \A c \in Routers : result[c].kind = "ok" => result[c].of = c

\* route reports "Response not found" only with an excuse: its own command is
\* still queued or with another task, it failed or timed out there, or it is so
\* old that its response may have expired.
NotFoundExcused ==
  [][\A c \in Routers :
       pc[c] = "get" /\ result'[c].kind = "not_found" =>
         \/ c \in queue
         \/ now - received_at[c] > Ttl
         \/ \E d \in Callers :
              job[d] = c /\ (pc[d] \in Running \/ result[d].kind \in {"error", "timeout"})]_vars

\* Every outcome can be accounted for: the metrics count each command that was
\* popped once, unless it still runs or timed out in the queue, and route finds
\* no response only for a reason.
OutcomesAccounted == []MetricsExact /\ NotFoundExcused

\* Every task's call returns, and with it (QueueServed) the queue drains: no
\* command is passed over for ever, and no command that timed out stays.
CallsEnd == \A c \in Callers : (pc[c] # "idle") ~> (pc[c] = "done")

\* What the comments at the two call sites say: the command just queued is
\* processed immediately and its result is returned.  A task may pop another
\* task's command and return that one's answer, or that one's error.
AnswersOwn ==
  \A c \in Callers :
    result[c].kind \in {"ok", "error", "timeout"} => result[c].of = c

-----------------------------------------------------------------------------
\* Values of the constants for a run.  One processor supports every command, and
\* the other ones those of one router; commands of the routers are more urgent.
SomeSupport ==
  LET p == CHOOSE p \in Processors : TRUE
      r == CHOOSE r \in Routers : TRUE
  IN {s \in Processors \X Callers : s[1] = p \/ s[2] = r}

SomePriority == [c \in Callers |-> IF c \in Routers THEN 5 ELSE 4]

-----------------------------------------------------------------------------
(* Proofs about DebugRouter for any number of tasks, any processors and any   *)
(* limits.                                                                    *)

Early == {"idle", "length", "validate", "push"}

(* A task that runs a command has one: without it TypeOK is not inductive,    *)
(* because Store would add None to the responses.                             *)
HasJob == \A c \in Callers : pc[c] \in Running => job[c] # None

(* Where a command can be, by the progress of its caller: the strengthening   *)
(* that makes OnePlace and QueueServed inductive.  A task that has not pushed *)
(* has its command nowhere; one that has not popped has no job.               *)
Placed ==
  \A c \in Callers :
    /\ pc[c] \in Early => c \notin queue /\ \A d \in Callers : job[d] # c
    /\ pc[c] \in Early \cup {"pop"} => job[c] = None

IInv == TypeOK /\ HasJob /\ Placed /\ OnePlace /\ QueueServed

(* What the two ways of going on do to the types.                             *)
LEMMA GotoType ==
  ASSUME TypeOK, NEW c \in Callers, NEW p \in Points, Goto(c, p)
  PROVE  pc' \in [Callers -> Points]
  BY DEF TypeOK, Goto

LEMMA ReturnType ==
  ASSUME TypeOK, NEW c \in Callers, NEW k \in Kinds, NEW r \in Callers, Return(c, k, r)
  PROVE  /\ pc' \in [Callers -> Points]
         /\ result' \in [Callers -> [kind : Kinds, of : Callers \cup {None}]]
  BY DEF TypeOK, Return, Goto, Points

(* Every step keeps the types.                                                *)
LEMMA TypeStep == ASSUME TypeOK, HasJob, [Next]_vars PROVE TypeOK'
<1> USE RouterAssumption DEF TypeOK, Points, Kinds, Goto, Return
<1>1. CASE UNCHANGED vars
  BY <1>1 DEF vars
<1>2. ASSUME NEW c \in Callers, NewRequest(c) PROVE TypeOK'
  BY <1>2 DEF NewRequest
<1>3. ASSUME NEW c \in Callers, CheckLength(c) PROVE TypeOK'
  <2>1. CASE Return(c, "full", c)
    BY <1>3, <2>1, ReturnType, "full" \in Kinds DEF CheckLength
  <2>2. CASE Goto(c, "validate") /\ UNCHANGED result
    BY <1>3, <2>2 DEF CheckLength
  <2> QED
    BY <1>3, <2>1, <2>2 DEF CheckLength
<1>4. ASSUME NEW c \in Callers, Validate(c) PROVE TypeOK'
  <2>1. CASE Return(c, "rejected", c)
    BY <1>4, <2>1 DEF Validate
  <2>2. CASE Goto(c, "push") /\ UNCHANGED result
    BY <1>4, <2>2 DEF Validate
  <2> QED
    BY <1>4, <2>1, <2>2 DEF Validate
<1>5. ASSUME NEW c \in Callers, Push(c) PROVE TypeOK'
  BY <1>5 DEF Push
<1>6. ASSUME NEW c \in Callers, Pop(c) PROVE TypeOK'
  <2>1. CASE queue = {}
    BY <1>6, <2>1, ReturnType, "empty" \in Kinds DEF Pop
  <2>2. ASSUME queue # {}, NEW r \in First,
               queue' = queue \ {r}, job' = [job EXCEPT ![c] = r],
               \/ Return(c, "timeout", r)
               \/ Goto(c, "find") /\ UNCHANGED result
        PROVE  TypeOK'
    <3>1. r \in Callers /\ UNCHANGED <<now, processors, received_at, responses, metrics, outcome>>
      BY <1>6, <2>2 DEF Pop, First
    <3>2. CASE Return(c, "timeout", r)
      BY <2>2, <3>1, <3>2
    <3>3. CASE Goto(c, "find") /\ UNCHANGED result
      BY <2>2, <3>1, <3>3
    <3> QED
      BY <2>2, <3>2, <3>3
  <2> QED
    BY <1>6, <2>1, <2>2 DEF Pop
<1>7. ASSUME NEW c \in Callers, FindProcessor(c) PROVE TypeOK'
  BY <1>7 DEF FindProcessor
<1>8. ASSUME NEW c \in Callers, RunProcessor(c) PROVE TypeOK'
  BY <1>8 DEF RunProcessor
<1>9. ASSUME NEW c \in Callers, update_metrics(c) PROVE TypeOK'
  <2> metrics' \in [total : Nat, successful : Nat, failed : Nat]
    <3> DEFINE t == metrics.total + 1
               s == IF outcome[c] = "ok" THEN metrics.successful + 1 ELSE metrics.successful
               f == IF outcome[c] = "error" THEN metrics.failed + 1 ELSE metrics.failed
    <3>1. metrics' = [metrics EXCEPT !.total = t, !.successful = s, !.failed = f]
      BY <1>9 DEF update_metrics
    <3>2. t \in Nat /\ s \in Nat /\ f \in Nat
      OBVIOUS
    <3> HIDE DEF t, s, f
    <3> QED
      BY <3>1, <3>2
  <2>1. CASE outcome[c] = "ok"
    BY <1>9, <2>1 DEF update_metrics
  <2>2. CASE outcome[c] # "ok" /\ job[c] \in Callers
    BY <1>9, <2>2 DEF update_metrics
  <2>3. CASE outcome[c] # "ok" /\ job[c] = None
    BY <1>9, <2>3 DEF update_metrics
  <2> QED
    BY <2>1, <2>2, <2>3
<1>10. ASSUME NEW c \in Callers, Store(c) PROVE TypeOK'
  <2> job[c] \in Callers
    BY <1>10 DEF Store, HasJob, Running
  <2>1. DOMAIN responses' \subseteq Callers /\ Range(responses') \subseteq 0..MaxTime
    <3>1. responses' = [r \in DOMAIN responses \cup {job[c]} |->
                          IF r = job[c] THEN now ELSE responses[r]]
      BY <1>10 DEF Store
    <3>2. DOMAIN responses' = DOMAIN responses \cup {job[c]}
      BY <3>1
    <3>3. \A r \in DOMAIN responses' : responses'[r] \in 0..MaxTime
      BY <3>1, <3>2 DEF Range
    <3> QED
      BY <3>2, <3>3 DEF Range
  <2>2. CASE c \in Routers /\ job[c] # c
    <3>1. pc' \in [Callers -> Points]
      BY <1>10, <2>2, GotoType, "get" \in Points DEF Store
    <3> QED
      BY <1>10, <2>1, <2>2, <3>1 DEF Store
  <2>3. CASE ~(c \in Routers /\ job[c] # c)
    <3>1. /\ pc' \in [Callers -> Points]
          /\ result' \in [Callers -> [kind : Kinds, of : Callers \cup {None}]]
      BY <1>10, <2>3, ReturnType, "ok" \in Kinds DEF Store
    <3> QED
      BY <1>10, <2>1, <3>1 DEF Store
  <2> QED
    BY <2>2, <2>3
<1>11. ASSUME NEW c \in Callers, get_response(c) PROVE TypeOK'
  BY <1>11 DEF get_response
<1>12. ASSUME NEW n \in Names, NEW p \in Processors, register_processor(n, p)
       PROVE TypeOK'
  BY <1>12 DEF register_processor
<1>13. CASE cleanup_expired
  BY <1>13 DEF cleanup_expired, Restrict, Range
<1>14. CASE Tick
  BY <1>14 DEF Tick
<1> QED
  BY <1>1, <1>2, <1>3, <1>4, <1>5, <1>6, <1>7, <1>8, <1>9, <1>10, <1>11,
     <1>12, <1>13, <1>14 DEF Next, CallStep

LEMMA HasJobStep == ASSUME TypeOK, HasJob, [Next]_vars PROVE HasJob'
<1> USE RouterAssumption DEF TypeOK, HasJob, Running, Goto, Return
<1>1. CASE UNCHANGED vars
  BY <1>1 DEF vars
<1>2. ASSUME NEW c \in Callers, NewRequest(c) \/ CheckLength(c) \/ Validate(c) \/ Push(c)
      PROVE  HasJob'
  BY <1>2 DEF NewRequest, CheckLength, Validate, Push
<1>3. ASSUME NEW c \in Callers, Pop(c) PROVE HasJob'
  BY <1>3 DEF Pop, First
<1>4. ASSUME NEW c \in Callers, FindProcessor(c) \/ RunProcessor(c) PROVE HasJob'
  BY <1>4 DEF FindProcessor, RunProcessor
<1>5. ASSUME NEW c \in Callers, update_metrics(c) \/ Store(c) \/ get_response(c)
      PROVE  HasJob'
  BY <1>5 DEF update_metrics, Store, get_response
<1>6. ASSUME NEW n \in Names, NEW p \in Processors, register_processor(n, p)
      PROVE  HasJob'
  BY <1>6 DEF register_processor
<1>7. CASE cleanup_expired \/ Tick
  BY <1>7 DEF cleanup_expired, Tick
<1> QED
  BY <1>1, <1>2, <1>3, <1>4, <1>5, <1>6, <1>7 DEF Next, CallStep

(* Type correctness of the router's state, whatever the tasks do.             *)
THEOREM TypeCorrect == Spec => []TypeOK
<1>1. Init => TypeOK /\ HasJob
  BY RouterAssumption DEF Init, TypeOK, HasJob, Running, Points, Kinds, Range
<1>2. TypeOK /\ HasJob /\ [Next]_vars => (TypeOK /\ HasJob)'
  BY TypeStep, HasJobStep
<1> QED
  BY <1>1, <1>2, PTL DEF Spec

-----------------------------------------------------------------------------
LEMMA InitInv == ASSUME Init PROVE IInv
<1> USE RouterAssumption DEF Init
<1>1. TypeOK
  BY DEF TypeOK, Points, Kinds, Range
<1>2. HasJob /\ Placed /\ OnePlace
  BY DEF HasJob, Running, Placed, Early, OnePlace
<1>3. {c \in Callers : pc[c] = "pop"} = {}
  OBVIOUS
<1>4. QueueServed
  BY <1>3 DEF QueueServed
<1> QED
  BY <1>1, <1>2, <1>4 DEF IInv

(* A command moves only forward: to the queue by its own task, and from there *)
(* to the one task that pops it.                                              *)
LEMMA PlaceStep == ASSUME IInv, [Next]_vars PROVE Placed' /\ OnePlace'
<1> USE RouterAssumption DEF IInv, TypeOK, Placed, OnePlace, Early, Goto, Return
<1>1. CASE UNCHANGED vars
  BY <1>1 DEF vars
<1>2. ASSUME NEW c \in Callers, NewRequest(c) \/ CheckLength(c) \/ Validate(c)
      PROVE  Placed' /\ OnePlace'
  BY <1>2 DEF NewRequest, CheckLength, Validate
<1>3. ASSUME NEW c \in Callers, Push(c) PROVE Placed' /\ OnePlace'
  BY <1>3 DEF Push
<1>4. ASSUME NEW c \in Callers, Pop(c) PROVE Placed' /\ OnePlace'
  <2>1. CASE queue = {}
    BY <1>4, <2>1 DEF Pop
  <2>2. CASE queue # {}
    <3>1. PICK r \in First : /\ queue' = queue \ {r}
                             /\ job' = [job EXCEPT ![c] = r]
      BY <1>4, <2>2 DEF Pop
    <3>2. r \in queue /\ r \in Callers
      BY <3>1 DEF First
    <3>3. pc[c] = "pop" /\ job[c] = None /\ \A d \in Callers : job[d] # r
      BY <1>4, <3>2 DEF Pop
    <3>4. \A d \in Callers : pc'[d] = IF d = c THEN pc'[c] ELSE pc[d]
      BY <1>4 DEF Pop
    <3>5. pc'[c] \in {"done", "find"}
      BY <1>4, <2>2 DEF Pop
    <3>6. OnePlace'
      BY <3>1, <3>2, <3>3
    <3>7. Placed'
      BY <3>1, <3>2, <3>3, <3>4, <3>5
    <3> QED
      BY <3>6, <3>7
  <2> QED
    BY <2>1, <2>2
<1>5. ASSUME NEW c \in Callers, FindProcessor(c) \/ RunProcessor(c)
      PROVE  Placed' /\ OnePlace'
  BY <1>5 DEF FindProcessor, RunProcessor
<1>6. ASSUME NEW c \in Callers, update_metrics(c) \/ Store(c) \/ get_response(c)
      PROVE  Placed' /\ OnePlace'
  BY <1>6 DEF update_metrics, Store, get_response
<1>7. ASSUME NEW n \in Names, NEW p \in Processors, register_processor(n, p)
      PROVE  Placed' /\ OnePlace'
  BY <1>7 DEF register_processor
<1>8. CASE cleanup_expired \/ Tick
  BY <1>8 DEF cleanup_expired, Tick
<1> QED
  BY <1>1, <1>2, <1>3, <1>4, <1>5, <1>6, <1>7, <1>8 DEF Next, CallStep

(* Push adds one command and one waiting task, Pop takes one of each, and no  *)
(* other step changes either set.                                             *)
LEMMA ServedStep == ASSUME IInv, [Next]_vars PROVE QueueServed'
<1> DEFINE W == {c \in Callers : pc[c] = "pop"}
<1>0. IsFiniteSet(queue) /\ IsFiniteSet(W) /\ Cardinality(queue) = Cardinality(W)
  <2>1. queue \in SUBSET Callers /\ W \in SUBSET Callers /\ IsFiniteSet(Callers)
    BY RouterAssumption DEF IInv, TypeOK
  <2> QED
    BY <2>1, FS_Subset DEF IInv, QueueServed
<1>a. ASSUME queue' = queue, W' = W PROVE QueueServed'
  BY <1>0, <1>a DEF QueueServed
<1> USE DEF IInv, TypeOK
<1>1. CASE UNCHANGED vars
  BY <1>1, <1>a DEF vars
<1>2. ASSUME NEW c \in Callers, NewRequest(c) \/ CheckLength(c) \/ Validate(c)
      PROVE  QueueServed'
  BY <1>2, <1>a DEF NewRequest, CheckLength, Validate, Goto, Return
<1>3. ASSUME NEW c \in Callers, Push(c) PROVE QueueServed'
  <2>1. queue' = queue \cup {c} /\ W' = W \cup {c}
    BY <1>3 DEF Push, Goto
  <2>2. c \notin queue /\ c \notin W
    BY <1>3 DEF Push, Placed, Early
  <2> HIDE DEF W
  <2>3. /\ Cardinality(queue \cup {c}) = Cardinality(queue) + 1
        /\ Cardinality(W \cup {c}) = Cardinality(W) + 1
    BY <1>0, <2>2, FS_AddElement
  <2>4. Cardinality(queue') = Cardinality(W')
    BY <1>0, <2>1, <2>3
  <2> QED
    BY <2>4 DEF QueueServed, W
<1>4. ASSUME NEW c \in Callers, Pop(c) PROVE QueueServed'
  <2>1. c \in W
    BY <1>4 DEF Pop
  <2>2. queue # {}
    BY <1>0, <2>1, FS_EmptySet
  <2>3. PICK r \in First : queue' = queue \ {r}
    BY <1>4, <2>2 DEF Pop
  <2>4. r \in queue
    BY <2>3 DEF First
  <2>5. W' = W \ {c}
    BY <1>4, <2>2 DEF Pop, Goto, Return
  <2> HIDE DEF W
  <2>6. /\ Cardinality(queue \ {r}) = Cardinality(queue) - 1
        /\ Cardinality(W \ {c}) = Cardinality(W) - 1
    BY <1>0, <2>1, <2>4, FS_RemoveElement
  <2>7. Cardinality(queue') = Cardinality(W')
    BY <1>0, <2>3, <2>5, <2>6
  <2> QED
    BY <2>7 DEF QueueServed, W
<1>5. ASSUME NEW c \in Callers, FindProcessor(c) \/ RunProcessor(c) PROVE QueueServed'
  BY <1>5, <1>a DEF FindProcessor, RunProcessor, Goto
<1>6. ASSUME NEW c \in Callers, update_metrics(c) \/ Store(c) \/ get_response(c)
      PROVE  QueueServed'
  BY <1>6, <1>a DEF update_metrics, Store, get_response, Goto, Return
<1>7. ASSUME NEW n \in Names, NEW p \in Processors, register_processor(n, p)
      PROVE  QueueServed'
  BY <1>7, <1>a DEF register_processor
<1>8. CASE cleanup_expired \/ Tick
  BY <1>8, <1>a DEF cleanup_expired, Tick
<1> QED
  BY <1>1, <1>2, <1>3, <1>4, <1>5, <1>6, <1>7, <1>8 DEF Next, CallStep

LEMMA Invariant == Spec => []IInv
<1>1. IInv /\ [Next]_vars => IInv'
  BY TypeStep, HasJobStep, PlaceStep, ServedStep DEF IInv
<1> QED
  BY InitInv, <1>1, PTL DEF Spec

(* Every command in the queue has a task on its way to pop one, and every     *)
(* such task finds one: with any number of tasks, process_next never returns  *)
(* None to a task that queued a command, and no command is left behind.       *)
THEOREM QueueIsServed == Spec => []QueueServed
  BY Invariant, PTL DEF IInv

(* A command is in the queue or with one task, never both and never twice.    *)
THEOREM CommandInOnePlace == Spec => []OnePlace
  BY Invariant, PTL DEF IInv

(* route's success is the answer to the caller's own command, whatever the    *)
(* task popped.                                                               *)
THEOREM RouteAnswersItsOwn == Spec => []RouteAnswersOwn
<1>1. Init => RouteAnswersOwn
  BY RouterAssumption DEF Init, RouteAnswersOwn
<1>2. TypeOK /\ RouteAnswersOwn /\ [Next]_vars => RouteAnswersOwn'
  <2> SUFFICES ASSUME TypeOK, RouteAnswersOwn, [Next]_vars PROVE RouteAnswersOwn'
    OBVIOUS
  <2> USE RouterAssumption DEF TypeOK, RouteAnswersOwn, Goto, Return
  <2>1. ASSUME result' = result PROVE RouteAnswersOwn'
    BY <2>1
  <2>2. ASSUME NEW c \in Callers, CheckLength(c) \/ Validate(c) PROVE RouteAnswersOwn'
    BY <2>2 DEF CheckLength, Validate
  <2>3. ASSUME NEW c \in Callers, Pop(c) \/ update_metrics(c) PROVE RouteAnswersOwn'
    BY <2>3 DEF Pop, update_metrics
  <2>4. ASSUME NEW c \in Callers, Store(c) PROVE RouteAnswersOwn'
    BY <2>4 DEF Store
  <2>5. ASSUME NEW c \in Callers, get_response(c) PROVE RouteAnswersOwn'
    BY <2>5 DEF get_response
  <2> QED
    BY <2>1, <2>2, <2>3, <2>4, <2>5 DEF Next, CallStep, vars, NewRequest, Push,
       FindProcessor, RunProcessor, register_processor, cleanup_expired, Tick
<1> QED
  BY <1>1, <1>2, TypeCorrect, PTL DEF Spec
-----------------------------------------------------------------------------
(* The tasks whose command was counted in the metrics, those it was a success *)
(* of, and those that have stored its response.                               *)
Counted ==
  {c \in Callers : job[c] # None /\ pc[c] \notin {"find", "run", "metrics"}
                     /\ result[c].kind # "timeout"}
Succeeded == {c \in Counted : outcome[c] = "ok"}
Stored == {c \in Succeeded : pc[c] # "store"}

(* The strengthening that makes MetricsExact inductive: each counter is the   *)
(* number of those tasks, and a task that has not returned has no result.     *)
Progress ==
  \A c \in Callers :
    /\ pc[c] # "done" => result[c].kind = "none"
    /\ pc[c] = "metrics" => outcome[c] \in {"ok", "error"}
    /\ pc[c] = "store" => outcome[c] = "ok"

Accounted ==
  /\ metrics.total = Cardinality(Counted)
  /\ metrics.successful = Cardinality(Succeeded)
  /\ metrics.total = metrics.successful + metrics.failed
  /\ Cardinality(DOMAIN responses) <= Cardinality(Stored)

(* A response is stored after its command was made, and stays till it has     *)
(* expired.                                                                   *)
Answered(c) ==
  \/ c \in DOMAIN responses /\ received_at[c] <= responses[c]
  \/ now - received_at[c] > Ttl

(* Where a command is that was queued, and what is kept of it afterwards.     *)
Whereabouts ==
  /\ \A c \in Callers : received_at[c] <= now
  /\ \A c \in Callers : pc[c] \notin Early \cup {"done"} =>
       c \in queue \/ \E d \in Callers : job[d] = c
  /\ \A d \in Callers :
       job[d] # None /\ pc[d] \notin Running /\ result[d].kind \notin {"error", "timeout"} =>
         Answered(job[d])
AInv == Progress /\ Accounted /\ Whereabouts
LEMMA ProgressStep == ASSUME TypeOK, Progress, [Next]_vars PROVE Progress'
<1> USE DEF TypeOK, Progress, Goto, Return
<1>1. CASE UNCHANGED vars
  BY <1>1 DEF vars
<1>2. ASSUME NEW c \in Callers, NewRequest(c) \/ CheckLength(c) \/ Validate(c) \/ Push(c)
      PROVE  Progress'
  BY <1>2 DEF NewRequest, CheckLength, Validate, Push
<1>3. ASSUME NEW c \in Callers, Pop(c) PROVE Progress'
  BY <1>3 DEF Pop
<1>4. ASSUME NEW c \in Callers, FindProcessor(c) \/ RunProcessor(c) PROVE Progress'
  BY <1>4 DEF FindProcessor, RunProcessor
<1>5. ASSUME NEW c \in Callers, update_metrics(c) PROVE Progress'
  BY <1>5 DEF update_metrics
<1>6. ASSUME NEW c \in Callers, Store(c) \/ get_response(c) PROVE Progress'
  BY <1>6 DEF Store, get_response
<1>7. ASSUME NEW n \in Names, NEW p \in Processors, register_processor(n, p)
      PROVE  Progress'
  BY <1>7 DEF register_processor
<1>8. CASE cleanup_expired \/ Tick
  BY <1>8 DEF cleanup_expired, Tick
<1> QED
  BY <1>1, <1>2, <1>3, <1>4, <1>5, <1>6, <1>7, <1>8 DEF Next, CallStep

LEMMA CountsFinite ==
  /\ IsFiniteSet(Counted) /\ IsFiniteSet(Succeeded) /\ IsFiniteSet(Stored)
  /\ Cardinality(Counted) \in Nat /\ Cardinality(Succeeded) \in Nat
  /\ Cardinality(Stored) \in Nat /\ Cardinality(Stored) <= Cardinality(Succeeded)
  /\ Counted \subseteq Callers /\ Succeeded \subseteq Callers
<1>1. Counted \subseteq Callers /\ Succeeded \subseteq Callers /\ Stored \subseteq Succeeded
  BY DEF Counted, Succeeded, Stored
<1>2. IsFiniteSet(Counted) /\ IsFiniteSet(Succeeded)
  BY <1>1, RouterAssumption, FS_Subset
<1> QED
  BY <1>1, <1>2, FS_Subset, FS_CardinalityType

(* update_metrics counts its command once, Store is the only step that stores *)
(* a response, and no other step changes what has been counted.               *)
LEMMA AccountedStep ==
  ASSUME TypeOK, HasJob, Placed, Progress, Accounted, [Next]_vars PROVE Accounted'
<1>0. /\ pc \in [Callers -> Points] /\ job \in [Callers -> Callers \cup {None}]
      /\ outcome \in [Callers -> {"none", "ok", "error"}]
      /\ result \in [Callers -> [kind : Kinds, of : Callers \cup {None}]]
      /\ metrics \in [total : Nat, successful : Nat, failed : Nat]
      /\ DOMAIN responses \subseteq Callers /\ IsFiniteSet(DOMAIN responses)
  BY RouterAssumption, FS_Subset DEF TypeOK
<1>1. ASSUME Counted' = Counted, Succeeded' = Succeeded, Stored' = Stored, metrics' = metrics,
             DOMAIN responses' \subseteq DOMAIN responses
      PROVE  Accounted'
  <2>1. /\ Cardinality(DOMAIN responses') <= Cardinality(DOMAIN responses)
        /\ Cardinality(DOMAIN responses') \in Nat /\ Cardinality(DOMAIN responses) \in Nat
    BY <1>0, <1>1, FS_Subset, FS_CardinalityType
  <2>2. Cardinality(DOMAIN responses') <= Cardinality(Stored)
    BY <2>1, CountsFinite DEF Accounted
  <2> QED
    BY <1>1, <2>2 DEF Accounted
<1>2. CASE UNCHANGED vars
  BY <1>1, <1>2 DEF vars, Counted, Succeeded, Stored
<1>3. ASSUME NEW c \in Callers, NewRequest(c) \/ Push(c) PROVE Accounted'
  BY <1>0, <1>1, <1>3 DEF NewRequest, Push, Goto, Placed, Early, Counted, Succeeded, Stored
<1>4. ASSUME NEW c \in Callers, CheckLength(c) \/ Validate(c) PROVE Accounted'
  <2>1. job[c] = None
    BY <1>4 DEF CheckLength, Validate, Placed, Early
  <2> QED
    BY <1>0, <1>1, <1>4, <2>1 DEF CheckLength, Validate, Goto, Return, Counted, Succeeded, Stored
<1>5. ASSUME NEW c \in Callers, Pop(c) PROVE Accounted'
  <2>1. job[c] = None
    BY <1>5 DEF Pop, Placed, Early
  <2>2. CASE queue = {}
    BY <1>0, <1>1, <1>5, <2>1, <2>2 DEF Pop, Goto, Return, Counted, Succeeded, Stored
  <2>3. CASE queue # {}
    <3>1. \/ pc' = [pc EXCEPT ![c] = "find"] /\ result' = result
          \/ /\ pc' = [pc EXCEPT ![c] = "done"]
             /\ \E r : result' = [result EXCEPT ![c] = [kind |-> "timeout", of |-> r]]
      BY <1>5, <2>3 DEF Pop, Goto, Return
    <3>2. \E r : job' = [job EXCEPT ![c] = r]
      BY <1>5, <2>3 DEF Pop
    <3>3. UNCHANGED <<metrics, responses, outcome>>
      BY <1>5 DEF Pop
    <3>4. c \notin Counted /\ c \notin Counted'
      BY <1>0, <2>1, <3>1 DEF Counted
    <3>5. \A d \in Callers \ {c} : job'[d] = job[d] /\ pc'[d] = pc[d] /\ result'[d] = result[d]
      BY <1>0, <3>1, <3>2
    <3>6. Counted' = Counted
      BY <3>4, <3>5 DEF Counted
    <3>7. Succeeded' = Succeeded /\ Stored' = Stored
      BY <3>3, <3>4, <3>5, <3>6, CountsFinite DEF Succeeded, Stored
    <3> QED
      BY <1>1, <3>3, <3>6, <3>7
  <2> QED
    BY <2>2, <2>3
<1>6. ASSUME NEW c \in Callers, FindProcessor(c) \/ RunProcessor(c) PROVE Accounted'
  <2>1. pc[c] \in {"find", "run"} /\ pc'[c] \in {"run", "metrics"}
    BY <1>0, <1>6 DEF FindProcessor, RunProcessor, Goto
  <2>2. \A d \in Callers \ {c} : pc'[d] = pc[d] /\ outcome'[d] = outcome[d]
    BY <1>0, <1>6 DEF FindProcessor, RunProcessor, Goto
  <2>3. UNCHANGED <<job, result, metrics, responses>>
    BY <1>6 DEF FindProcessor, RunProcessor
  <2>4. Counted' = Counted /\ c \notin Counted
    BY <2>1, <2>2, <2>3 DEF Counted
  <2>5. Succeeded' = Succeeded /\ Stored' = Stored
    BY <2>2, <2>4 DEF Succeeded, Stored, Counted
  <2> QED
    BY <1>1, <2>3, <2>4, <2>5
<1>7. ASSUME NEW c \in Callers, update_metrics(c) PROVE Accounted'
  <2>1. /\ pc[c] = "metrics" /\ outcome[c] \in {"ok", "error"} /\ job[c] # None
        /\ result[c].kind = "none" /\ outcome' = outcome /\ job' = job /\ responses' = responses
    BY <1>7 DEF update_metrics, Progress, HasJob, Running
  <2>2. \A d \in Callers \ {c} : pc'[d] = pc[d] /\ result'[d] = result[d]
    BY <1>0, <1>7 DEF update_metrics, Goto, Return
  <2>3. /\ pc'[c] = (IF outcome[c] = "ok" THEN "store" ELSE "done")
        /\ result'[c].kind = (IF outcome[c] = "ok" THEN "none" ELSE "error")
    BY <1>0, <1>7, <2>1 DEF update_metrics, Goto, Return
  <2>4. Counted' = Counted \cup {c} /\ c \notin Counted
    BY <2>1, <2>2, <2>3 DEF Counted
  <2>5. /\ Succeeded' = (IF outcome[c] = "ok" THEN Succeeded \cup {c} ELSE Succeeded)
        /\ c \notin Succeeded
    BY <2>1, <2>4 DEF Succeeded
  <2>6. Stored' = Stored
    BY <2>1, <2>2, <2>3, <2>5, CountsFinite DEF Stored
  <2>7. metrics'.total = metrics.total + 1
    BY <1>0, <1>7, Zenon DEF update_metrics
  <2>8. metrics'.successful = IF outcome[c] = "ok" THEN metrics.successful + 1 ELSE metrics.successful
    BY <1>0, <1>7, Zenon DEF update_metrics
  <2>9. metrics'.failed = IF outcome[c] = "error" THEN metrics.failed + 1 ELSE metrics.failed
    BY <1>0, <1>7, Zenon DEF update_metrics
  <2>10. /\ Cardinality(Counted') = Cardinality(Counted) + 1
         /\ Cardinality(Succeeded \cup {c}) = Cardinality(Succeeded) + 1
    BY <2>4, <2>5, CountsFinite, FS_AddElement
  <2>11. metrics'.total = Cardinality(Counted') /\ metrics'.successful = Cardinality(Succeeded')
    BY <2>5, <2>7, <2>8, <2>10 DEF Accounted
  <2>12. metrics'.total = metrics'.successful + metrics'.failed
    <3>1. metrics.total \in Nat /\ metrics.successful \in Nat /\ metrics.failed \in Nat
      BY <1>0
    <3> QED
      BY <2>1, <2>7, <2>8, <2>9, <3>1 DEF Accounted
  <2> QED
    BY <2>1, <2>6, <2>11, <2>12 DEF Accounted
<1>8. ASSUME NEW c \in Callers, Store(c) PROVE Accounted'
  <2>1. /\ pc[c] = "store" /\ outcome[c] = "ok" /\ job[c] # None /\ result[c].kind = "none"
        /\ UNCHANGED <<outcome, job, metrics>>
    BY <1>8 DEF Store, Progress, HasJob, Running
  <2>2. \A d \in Callers \ {c} : pc'[d] = pc[d] /\ result'[d] = result[d]
    BY <1>0, <1>8 DEF Store, Goto, Return
  <2>3. pc'[c] \in {"get", "done"} /\ result'[c].kind \in {"none", "ok"}
    BY <1>0, <1>8, <2>1 DEF Store, Goto, Return
  <2>4. Counted' = Counted /\ c \in Counted
    BY <2>1, <2>2, <2>3 DEF Counted
  <2>5. Succeeded' = Succeeded /\ c \in Succeeded
    BY <2>1, <2>4 DEF Succeeded
  <2>6. Stored' = Stored \cup {c} /\ c \notin Stored
    BY <2>1, <2>2, <2>3, <2>5, CountsFinite DEF Stored
  <2>7. Cardinality(Stored') = Cardinality(Stored) + 1
    BY <2>6, CountsFinite, FS_AddElement
  <2>8. DOMAIN responses' = DOMAIN responses \cup {job[c]}
    BY <1>8 DEF Store
  <2>9. Cardinality(DOMAIN responses') <= Cardinality(DOMAIN responses) + 1
        /\ Cardinality(DOMAIN responses) \in Nat /\ Cardinality(DOMAIN responses') \in Nat
    <3>1. CASE job[c] \in DOMAIN responses
      <4>1. DOMAIN responses' = DOMAIN responses
        BY <2>8, <3>1
      <4> QED
        BY <1>0, <4>1, FS_CardinalityType
    <3>2. CASE job[c] \notin DOMAIN responses
      <4>1. Cardinality(DOMAIN responses') = Cardinality(DOMAIN responses) + 1
        BY <1>0, <2>8, <3>2, FS_AddElement
      <4>2. Cardinality(DOMAIN responses) \in Nat
        BY <1>0, FS_CardinalityType
      <4> QED
        BY <4>1, <4>2
    <3> QED
      BY <3>1, <3>2
  <2>10. Cardinality(DOMAIN responses') <= Cardinality(Stored')
    BY <2>7, <2>9, CountsFinite DEF Accounted
  <2> QED
    BY <2>1, <2>4, <2>5, <2>10 DEF Accounted
<1>9. ASSUME NEW c \in Callers, get_response(c) PROVE Accounted'
  <2>1. /\ pc[c] = "get" /\ result[c].kind = "none"
        /\ UNCHANGED <<outcome, job, metrics, responses>>
    BY <1>9 DEF get_response, Progress
  <2>2. \A d \in Callers \ {c} : pc'[d] = pc[d] /\ result'[d] = result[d]
    BY <1>0, <1>9 DEF get_response, Goto, Return
  <2>3. pc'[c] = "done" /\ result'[c].kind \in {"ok", "not_found"}
    BY <1>0, <1>9 DEF get_response, Goto, Return
  <2>4. Counted' = Counted
    BY <2>1, <2>2, <2>3 DEF Counted
  <2>5. Succeeded' = Succeeded
    BY <2>1, <2>4 DEF Succeeded
  <2>6. Stored' = Stored
    BY <2>1, <2>2, <2>3, <2>5, CountsFinite DEF Stored
  <2> QED
    BY <1>1, <2>1, <2>4, <2>5, <2>6
<1>10. ASSUME UNCHANGED <<pc, job, outcome, result, metrics>>,
              DOMAIN responses' \subseteq DOMAIN responses
       PROVE  Accounted'
  BY <1>1, <1>10 DEF Counted, Succeeded, Stored
<1>11. ASSUME NEW n \in Names, NEW p \in Processors, register_processor(n, p)
       PROVE  Accounted'
  BY <1>10, <1>11 DEF register_processor
<1>12. CASE cleanup_expired
  BY <1>10, <1>12 DEF cleanup_expired, Restrict
<1>13. CASE Tick
  BY <1>10, <1>13 DEF Tick
<1> QED
  BY <1>2, <1>3, <1>4, <1>5, <1>6, <1>7, <1>8, <1>9, <1>11, <1>12, <1>13 DEF Next, CallStep
(* A command leaves the queue only with the task that pops it, and that task  *)
(* returns without a stored response only with an error or a timeout.         *)
LEMMA WhereaboutsStep ==
  ASSUME TypeOK, HasJob, Placed, OnePlace, Progress, Whereabouts, [Next]_vars
  PROVE  Whereabouts'
<1>0. /\ pc \in [Callers -> Points] /\ job \in [Callers -> Callers \cup {None}]
      /\ result \in [Callers -> [kind : Kinds, of : Callers \cup {None}]]
      /\ received_at \in [Callers -> 0..MaxTime] /\ now \in 0..MaxTime /\ MaxTime \in Nat
      /\ Ttl \in Nat /\ queue \subseteq Callers /\ None \notin Callers
      /\ \A r \in DOMAIN responses : responses[r] \in 0..MaxTime
  BY RouterAssumption DEF TypeOK, Range
<1>1. CASE UNCHANGED vars
  BY <1>1 DEF vars, Whereabouts, Answered
<1>2. ASSUME NEW c \in Callers, NewRequest(c) PROVE Whereabouts'
  <2>1. \A d \in Callers : job[d] # c /\ (d # c => received_at'[d] = received_at[d])
    BY <1>0, <1>2 DEF NewRequest, Placed, Early
  <2>2. received_at'[c] = now /\ pc'[c] = "length" /\ job[c] = None
    BY <1>0, <1>2 DEF NewRequest, Goto, Placed, Early
  <2>3. UNCHANGED <<now, queue, responses, job, result>>
    BY <1>2 DEF NewRequest
  <2>4. \A d \in Callers \ {c} : pc'[d] = pc[d]
    BY <1>0, <1>2 DEF NewRequest, Goto
  <2>5. \A d \in Callers : received_at'[d] <= now'
    BY <1>0, <2>1, <2>2, <2>3 DEF Whereabouts
  <2>6. \A d \in Callers : pc'[d] \notin Early \cup {"done"} =>
          d \in queue' \/ \E e \in Callers : job'[e] = d
    BY <2>2, <2>3, <2>4 DEF Whereabouts, Early
  <2>7. ASSUME NEW d \in Callers, job'[d] # None, pc'[d] \notin Running,
               result'[d].kind \notin {"error", "timeout"}
        PROVE  Answered(job[d])'
    <3>1. d # c /\ job[d] \in Callers \ {c} /\ Answered(job[d])
      BY <1>0, <2>1, <2>2, <2>3, <2>4, <2>7 DEF Whereabouts
    <3> QED
      BY <2>1, <2>3, <3>1 DEF Answered
  <2> QED
    BY <2>5, <2>6, <2>7 DEF Whereabouts
<1> DEFINE Left(d) == pc[d] \notin Running /\ result[d].kind \notin {"error", "timeout"}
<1>3. ASSUME UNCHANGED <<now, received_at, responses>>,
             \A d \in Callers : pc'[d] \notin Early \cup {"done"} =>
               d \in queue' \/ \E e \in Callers : job'[e] = d,
             \A d \in Callers : job'[d] # None /\ Left(d)' => job'[d] = job[d] /\ Left(d)
      PROVE  Whereabouts'
  <2>1. ASSUME NEW d \in Callers, job'[d] # None, Left(d)' PROVE Answered(job[d])'
    <3>1. job'[d] = job[d] /\ Answered(job[d])
      BY <1>3, <2>1 DEF Whereabouts
    <3> QED
      BY <1>3, <3>1 DEF Answered
  <2> QED
    BY <1>3, <2>1 DEF Whereabouts
<1>4. ASSUME UNCHANGED <<now, received_at, responses, job>>, NEW c \in Callers,
             \A d \in Callers \ {c} : pc'[d] = pc[d] /\ result'[d] = result[d],
             queue' = queue, pc'[c] \in Early \cup {"done"} \/ pc[c] \notin Early \cup {"done"},
             job[c] # None /\ Left(c)' => Left(c)
      PROVE  Whereabouts'
  <2>1. \A d \in Callers : pc'[d] \notin Early \cup {"done"} => pc[d] \notin Early \cup {"done"}
    BY <1>4
  <2> QED
    BY <1>3, <1>4, <2>1 DEF Whereabouts
<1>5. ASSUME NEW c \in Callers, CheckLength(c) \/ Validate(c) PROVE Whereabouts'
  <2>1. job[c] = None /\ pc'[c] \in {"done", "validate", "push"}
    BY <1>0, <1>5 DEF CheckLength, Validate, Placed, Early, Goto, Return
  <2>2. \A d \in Callers \ {c} : pc'[d] = pc[d] /\ result'[d] = result[d]
    BY <1>0, <1>5 DEF CheckLength, Validate, Goto, Return
  <2>3. UNCHANGED <<now, received_at, responses, job, queue>>
    BY <1>5 DEF CheckLength, Validate
  <2> QED
    BY <1>4, <2>1, <2>2, <2>3 DEF Early
<1>6. ASSUME NEW c \in Callers, Push(c) PROVE Whereabouts'
  <2>1. job[c] = None /\ queue' = queue \cup {c}
    BY <1>6 DEF Push, Placed, Early
  <2>2. \A d \in Callers \ {c} : pc'[d] = pc[d]
    BY <1>0, <1>6 DEF Push, Goto
  <2>3. UNCHANGED <<now, received_at, responses, job, result>>
    BY <1>6 DEF Push
  <2>4. \A d \in Callers : pc'[d] \notin Early \cup {"done"} =>
          d \in queue' \/ \E e \in Callers : job'[e] = d
    BY <2>1, <2>2, <2>3 DEF Whereabouts
  <2> QED
    BY <1>3, <2>1, <2>2, <2>3, <2>4
<1>7. ASSUME NEW c \in Callers, Pop(c) PROVE Whereabouts'
  <2>1. job[c] = None /\ pc[c] = "pop" /\ UNCHANGED <<now, received_at, responses>>
    BY <1>7 DEF Pop, Placed, Early
  <2>2. CASE queue = {}
    <3>1. /\ pc'[c] = "done" /\ UNCHANGED <<job, queue>>
          /\ \A d \in Callers \ {c} : pc'[d] = pc[d] /\ result'[d] = result[d]
      BY <1>0, <1>7, <2>2 DEF Pop, Goto, Return
    <3> QED
      BY <1>4, <2>1, <3>1
  <2>3. CASE queue # {}
    <3>1. PICK r \in First :
            /\ queue' = queue \ {r} /\ job' = [job EXCEPT ![c] = r]
            /\ Return(c, "timeout", r) \/ (Goto(c, "find") /\ UNCHANGED result)
      BY <1>7, <2>3 DEF Pop
    <3>2. r \in Callers
      BY <1>0, <3>1 DEF First
    <3>3. /\ \/ pc'[c] = "done" /\ result'[c].kind = "timeout"
             \/ pc'[c] = "find"
          /\ \A d \in Callers \ {c} : pc'[d] = pc[d] /\ result'[d] = result[d]
      BY <1>0, <3>1 DEF Goto, Return
    <3>4. job'[c] = r /\ \A e \in Callers \ {c} : job'[e] = job[e]
      BY <1>0, <3>1
    <3>5. ASSUME NEW d \in Callers, pc'[d] \notin Early \cup {"done"}
          PROVE  d \in queue' \/ \E e \in Callers : job'[e] = d
      <4>1. pc[d] \notin Early \cup {"done"}
        BY <2>1, <3>3, <3>5 DEF Early
      <4>2. d \in queue \/ \E e \in Callers \ {c} : job[e] = d
        BY <1>0, <2>1, <4>1 DEF Whereabouts
      <4> QED
        BY <3>1, <3>4, <4>2
    <3>6. \A d \in Callers : job'[d] # None /\ Left(d)' => job'[d] = job[d] /\ Left(d)
      BY <3>3, <3>4 DEF Running
    <3> QED
      BY <1>3, <2>1, <3>5, <3>6
  <2> QED
    BY <2>2, <2>3
<1>8. ASSUME NEW c \in Callers, FindProcessor(c) \/ RunProcessor(c) \/ update_metrics(c)
      PROVE  Whereabouts'
  <2>1. /\ pc[c] \in Running /\ UNCHANGED <<now, received_at, responses, job, queue>>
        /\ \A d \in Callers \ {c} : pc'[d] = pc[d] /\ result'[d] = result[d]
        /\ pc'[c] \in Running \/ result'[c].kind = "error"
    BY <1>0, <1>8 DEF FindProcessor, RunProcessor, update_metrics, Goto, Return, Running
  <2> QED
    BY <1>4, <2>1 DEF Running, Early
<1>9. ASSUME NEW c \in Callers, get_response(c) PROVE Whereabouts'
  <2>1. /\ pc[c] = "get" /\ result[c].kind = "none"
        /\ UNCHANGED <<now, received_at, responses, job, queue>>
        /\ \A d \in Callers \ {c} : pc'[d] = pc[d] /\ result'[d] = result[d]
    BY <1>0, <1>9 DEF get_response, Goto, Return, Progress
  <2> QED
    BY <1>4, <2>1 DEF Running, Early
<1>10. ASSUME NEW c \in Callers, Store(c) PROVE Whereabouts'
  <2>1. /\ pc[c] = "store" /\ UNCHANGED <<now, received_at, job, queue>>
        /\ \A d \in Callers \ {c} : pc'[d] = pc[d] /\ result'[d] = result[d]
    BY <1>0, <1>10 DEF Store, Goto, Return
  <2>2. \A d \in Callers : pc'[d] \notin Early \cup {"done"} =>
          d \in queue' \/ \E e \in Callers : job'[e] = d
    BY <2>1 DEF Whereabouts, Early
  <2>3. /\ DOMAIN responses' = DOMAIN responses \cup {job[c]} /\ responses'[job[c]] = now
        /\ \A r \in DOMAIN responses \ {job[c]} : responses'[r] = responses[r]
    BY <1>10 DEF Store
  <2>4. ASSUME NEW d \in Callers, job'[d] # None, Left(d)' PROVE Answered(job[d])'
    <3>1. job'[d] = job[d] /\ job[d] \in Callers /\ received_at'[job[d]] <= now
      BY <1>0, <2>1, <2>4 DEF Whereabouts
    <3>2. CASE job[d] = job[c]
      BY <2>3, <3>1, <3>2 DEF Answered
    <3>3. CASE job[d] # job[c]
      <4>1. Answered(job[d])
        BY <2>1, <2>4, <3>3 DEF Whereabouts
      <4> QED
        BY <2>1, <2>3, <3>1, <3>3, <4>1 DEF Answered
    <3> QED
      BY <3>2, <3>3
  <2> QED
    BY <2>1, <2>2, <2>4 DEF Whereabouts
<1>11. ASSUME NEW n \in Names, NEW p \in Processors, register_processor(n, p)
       PROVE  Whereabouts'
  BY <1>11 DEF register_processor, Whereabouts, Answered
<1>12. CASE cleanup_expired \/ Tick
  <2>1. UNCHANGED <<received_at, queue, pc, job, result>> /\ now' \in Nat /\ now <= now'
    BY <1>0, <1>12 DEF cleanup_expired, Tick
  <2>2. ASSUME NEW r \in Callers, Answered(r)
        PROVE  \/ r \in DOMAIN responses' /\ received_at'[r] <= responses'[r]
               \/ now' - received_at'[r] > Ttl
    <3>1. received_at[r] \in Nat /\ now \in Nat /\ (r \in DOMAIN responses => responses[r] \in Nat)
      BY <1>0
    <3>2. CASE Tick
      BY <1>0, <2>1, <2>2, <3>1, <3>2 DEF Tick, Answered
    <3>3. CASE cleanup_expired
      <4>1. now' = now /\ responses' = [s \in {s \in DOMAIN responses : fresh(responses[s])} |-> responses[s]]
        BY <3>3 DEF cleanup_expired, Restrict
      <4>2. CASE r \in DOMAIN responses /\ fresh(responses[r])
        BY <1>0, <2>1, <2>2, <3>1, <4>1, <4>2 DEF Answered
      <4>3. CASE ~(r \in DOMAIN responses /\ fresh(responses[r]))
        BY <1>0, <2>1, <2>2, <3>1, <4>1, <4>3 DEF Answered, fresh
      <4> QED
        BY <4>2, <4>3
    <3> QED
      BY <1>12, <3>2, <3>3
  <2>3. \A d \in Callers : received_at'[d] <= now'
    BY <1>0, <2>1 DEF Whereabouts
  <2>4. ASSUME NEW d \in Callers, job'[d] # None, Left(d)' PROVE Answered(job[d])'
    <3>1. job'[d] = job[d] /\ job[d] \in Callers /\ Answered(job[d])
      BY <1>0, <2>1, <2>4 DEF Whereabouts
    <3> QED
      BY <2>2, <3>1 DEF Answered
  <2> QED
    BY <2>1, <2>3, <2>4 DEF Whereabouts
<1> QED
  BY <1>1, <1>2, <1>5, <1>6, <1>7, <1>8, <1>9, <1>10, <1>11, <1>12 DEF Next, CallStep

LEMMA InitAInv == ASSUME Init PROVE AInv
<1>1. Progress /\ Whereabouts
  BY RouterAssumption DEF Init, Progress, Whereabouts, Early
<1>2. Counted = {} /\ Succeeded = {} /\ Stored = {} /\ DOMAIN responses = {}
  BY DEF Init, Counted, Succeeded, Stored
<1>3. Accounted
  BY <1>2, FS_EmptySet DEF Init, Accounted
<1> QED
  BY <1>1, <1>3 DEF AInv

LEMMA AInvariant == Spec => [](IInv /\ AInv)
<1>1. IInv /\ AInv /\ [Next]_vars => (IInv /\ AInv)'
  BY TypeStep, HasJobStep, PlaceStep, ServedStep, ProgressStep, AccountedStep, WhereaboutsStep
     DEF IInv, AInv
<1> QED
  BY InitInv, InitAInv, <1>1, PTL DEF Spec

(* The counters and the popped commands: those that run or timed out are the  *)
(* popped ones that are not counted.                                          *)
LEMMA CountersExact == ASSUME IInv, AInv PROVE MetricsExact
<1> DEFINE Held == {c \in Callers : job[c] # None}
           Gone == {c \in Callers : pc[c] \in {"find", "run", "metrics"}}
                     \cup {c \in Callers : job[c] # None /\ result[c].kind \in {"timeout"}}
<1>1. Gone \subseteq Held /\ Counted = Held \ Gone /\ Held \subseteq Callers
  BY DEF Counted, IInv, HasJob, Running
<1>2. IsFiniteSet(Held)
  BY <1>1, RouterAssumption, FS_Subset
<1> HIDE DEF Held, Gone
<1>3. IsFiniteSet(Gone) /\ Cardinality(Gone) \in Nat /\ Cardinality(Held) \in Nat
  BY <1>1, <1>2, FS_Subset, FS_CardinalityType
<1>4. Cardinality(Counted) = Cardinality(Held) - Cardinality(Gone)
  <2>1. Held \cap Gone = Gone
    BY <1>1
  <2> QED
    BY <1>1, <1>2, <2>1, FS_Difference
<1>5. Cardinality(DOMAIN responses) \in Nat
  BY RouterAssumption, FS_Subset, FS_CardinalityType DEF IInv, TypeOK
<1>6. metrics.successful >= Cardinality(DOMAIN responses)
  BY <1>5, CountsFinite DEF AInv, Accounted
<1> QED
  BY <1>4, <1>6 DEF MetricsExact, AInv, Accounted, Held, Gone

(* route finds no response only of a command that waits, runs, failed, timed  *)
(* out or is older than response_ttl.                                         *)
LEMMA NotFoundStep ==
  ASSUME IInv, AInv, [Next]_vars, NEW c \in Routers, pc[c] = "get",
         result'[c].kind = "not_found"
  PROVE  \/ c \in queue
         \/ now - received_at[c] > Ttl
         \/ \E d \in Callers :
              job[d] = c /\ (pc[d] \in Running \/ result[d].kind \in {"error", "timeout"})
<1> USE RouterAssumption
<1>0. c \in Callers /\ result[c].kind = "none"
  BY DEF AInv, Progress
<1>1. get_response(c)
  <2>1. \A d \in Callers \ {c} : CallStep(d) => result'[c] = result[c]
    BY <1>0 DEF CallStep, CheckLength, Validate, Push, Pop, FindProcessor, RunProcessor,
       update_metrics, Store, get_response, Return, IInv, TypeOK
  <2>2. CallStep(c) => get_response(c)
    BY DEF CallStep, CheckLength, Validate, Push, Pop, FindProcessor, RunProcessor,
       update_metrics, Store
  <2> QED
    BY <1>0, <2>1, <2>2 DEF Next, NewRequest, register_processor, cleanup_expired, Tick, vars
<1>2. c \notin DOMAIN responses \/ ~fresh(responses[c])
  BY <1>0, <1>1 DEF get_response, Return, IInv, TypeOK
<1>3. c \in queue \/ \E d \in Callers : job[d] = c
  BY <1>0 DEF AInv, Whereabouts, Early
<1>4. ASSUME NEW d \in Callers, job[d] = c, pc[d] \notin Running,
             result[d].kind \notin {"error", "timeout"}
      PROVE  now - received_at[c] > Ttl
  <2>1. Answered(c)
    BY <1>0, <1>4 DEF AInv, Whereabouts
  <2>2. now \in Nat /\ received_at[c] \in Nat /\ (c \in DOMAIN responses => responses[c] \in Nat)
    BY <1>0 DEF IInv, TypeOK, Range
  <2> QED
    BY <1>2, <2>1, <2>2 DEF Answered, fresh
<1> QED
  BY <1>3, <1>4

(* Every outcome is accounted for, with any number of tasks and processors:   *)
(* the metrics count each popped command once, unless it runs or timed out,   *)
(* and route finds no response only for a reason.                             *)
THEOREM OutcomesAreAccounted == Spec => OutcomesAccounted
<1>1. IInv /\ AInv => MetricsExact
  BY CountersExact
<1>2. IInv /\ AInv /\ [Next]_vars =>
        [\A c \in Routers :
           pc[c] = "get" /\ result'[c].kind = "not_found" =>
             \/ c \in queue
             \/ now - received_at[c] > Ttl
             \/ \E d \in Callers :
                  job[d] = c /\ (pc[d] \in Running \/ result[d].kind \in {"error", "timeout"})]_vars
  BY NotFoundStep
<1> QED
  BY <1>1, <1>2, AInvariant, PTL DEF Spec, OutcomesAccounted, NotFoundExcused
=============================================================================
