-------------------------- MODULE ResourceManager --------------------------
(* The ResourceManager of resource_manager.rs as BrpClient::send_request uses *)
(* it: a rate requests, a circuit breaker of its own, a semaphore and a        *)
(* sampler in front of every request, and the breaker told of its result.     *)
(*                                                                            *)
(* The breaker is two relaxed atomics and a time behind a lock, so a method   *)
(* of it is a sequence of accesses, which tasks interleave.  The permit is    *)
(* acquired in the block that ends before the request is sent, so it bounds   *)
(* nothing but the block.  The object pools have no user besides the metrics. *)
EXTENDS Naturals, Sequences, FiniteSets

CONSTANTS
  Tasks,       \* tasks that send requests
  Monitor,     \* the monitoring task
  Threshold,   \* circuit_breaker_threshold
  MaxRequests, \* max_brp_requests_per_second
  MaxOps,      \* max_concurrent_operations
  Window,      \* window_size, in units of the clock
  Levels       \* the steps the sampling rate has between min_rate and max_rate

ResourceAssumption ==
  /\ IsFiniteSet(Tasks) /\ Monitor \notin Tasks
  /\ {Threshold, MaxRequests, MaxOps, Window, Levels} \subseteq Nat \ {0}

VARIABLES
  isOpen,       \* is_open
  failed,       \* failure_count, counted up to the threshold
  lastFailed,   \* last_failure_time: none, recent, or older than the timeout
  at,           \* where a task is in send_request or update_metrics
  todo,         \* the accesses of the breaker's method it still has to do
  requests,     \* the ages of the requests the rate limiter has kept, up to the window
  permitsHeld,  \* tasks with a permit
  rate          \* sample_rate, as a level

rmvars == <<isOpen, failed, lastFailed, at, todo, requests, permitsHeld, rate>>

Actors == Tasks \cup {Monitor}

Init ==
  /\ isOpen = FALSE /\ failed = 0 /\ lastFailed = "none"
  /\ at = [t \in Actors |-> "idle"] /\ todo = [t \in Actors |-> << >>]
  /\ requests = << >> /\ permitsHeld = {} /\ rate = Levels

breaker == <<isOpen, failed, lastFailed>>
Goto(t, p) == at' = [at EXCEPT ![t] = p]

(* allow_request: what is outside the window is forgotten, the request is     *)
(* kept if there is room.                                                     *)
allow_request(t) ==
  /\ at[t] = "idle"
  /\ LET kept == SelectSeq(requests, LAMBDA age : age < Window) IN
       IF Len(kept) < MaxRequests
         THEN requests' = Append(kept, 0) /\ Goto(t, "look")
         ELSE requests' = kept /\ UNCHANGED at
  /\ UNCHANGED <<breaker, todo, permitsHeld, rate>>

(* is_open: the flag, then the time; a breaker whose timeout has passed is    *)
(* reset by whoever looks.                                                    *)
Closed(t) == IF t = Monitor THEN "idle" ELSE "permit"

LoadOpen(t) ==
  /\ at[t] = "look"
  /\ Goto(t, IF isOpen THEN "opened" ELSE Closed(t))
  /\ UNCHANGED <<breaker, todo, requests, permitsHeld, rate>>

resetAccesses == <<"count", "close", "forget">>

(* Mutant: a refused request is recorded as a failure.                        *)
LoadTimeRefusalFails(t) ==
  /\ at[t] = "opened"
  /\ IF lastFailed = "elapsed"
       THEN Goto(t, "resetting") /\ todo' = [todo EXCEPT ![t] = resetAccesses]
       ELSE Goto(t, "recording") /\ todo' = [todo EXCEPT ![t] = <<"open", "time">>]
  /\ UNCHANGED <<breaker, requests, permitsHeld, rate>>

LoadTime(t) ==
  /\ at[t] = "opened"
  /\ IF lastFailed = "elapsed"
       THEN Goto(t, "resetting") /\ todo' = [todo EXCEPT ![t] = resetAccesses]
       ELSE Goto(t, "idle") /\ UNCHANGED todo
  /\ UNCHANGED <<breaker, requests, permitsHeld, rate>>

(* One access of record_success, record_failure or reset.                     *)
Access(t) ==
  /\ todo[t] # << >>
  /\ LET a == Head(todo[t]) IN
       /\ isOpen' = CASE a = "open" -> TRUE [] a = "close" -> FALSE [] OTHER -> isOpen
       /\ failed' = IF a = "count" THEN 0 ELSE failed
       /\ lastFailed' = CASE a = "time" -> "recent" [] a = "forget" -> "none" [] OTHER -> lastFailed
  /\ todo' = [todo EXCEPT ![t] = Tail(@)]
  /\ IF Len(todo[t]) > 1 THEN UNCHANGED at
     ELSE Goto(t, IF at[t] = "resetting" THEN Closed(t) ELSE "idle")
  /\ UNCHANGED <<requests, permitsHeld, rate>>

(* acquire_operation_permit after is_open; should_sample refuses at random,   *)
(* and the permit is gone either way.                                         *)
Permit(t) ==
  /\ at[t] = "permit" /\ Cardinality(permitsHeld) < MaxOps
  /\ permitsHeld' = permitsHeld \cup {t}
  /\ Goto(t, "sample")
  /\ UNCHANGED <<breaker, todo, requests, rate>>

Sample(t) ==
  /\ at[t] = "sample"
  /\ \/ Goto(t, "sent")
     \/ Goto(t, "idle")
  /\ permitsHeld' = permitsHeld \ {t}
  /\ UNCHANGED <<breaker, todo, requests, rate>>

record_success(t) ==
  /\ at[t] = "sent"
  /\ todo' = [todo EXCEPT ![t] = <<"count", "close">>]
  /\ Goto(t, "recording")
  /\ UNCHANGED <<breaker, requests, permitsHeld, rate>>

(* record_failure: the count is raised; at the threshold the flag is stored,  *)
(* and then the time.                                                         *)
record_failure(t) ==
  /\ at[t] = "sent"
  /\ failed' = IF failed < Threshold THEN failed + 1 ELSE failed
  /\ IF failed' = Threshold
       THEN Goto(t, "recording") /\ todo' = [todo EXCEPT ![t] = <<"open", "time">>]
       ELSE Goto(t, "idle") /\ UNCHANGED todo
  /\ UNCHANGED <<isOpen, lastFailed, requests, permitsHeld, rate>>

TimeoutPasses ==
  /\ lastFailed = "recent" /\ lastFailed' = "elapsed"
  /\ UNCHANGED <<isOpen, failed, at, todo, requests, permitsHeld, rate>>

Tick ==
  /\ requests' = [i \in DOMAIN requests |-> IF requests[i] < Window THEN requests[i] + 1 ELSE Window]
  /\ UNCHANGED <<breaker, at, todo, permitsHeld, rate>>

(* The rate follows the average of the last ten samples, whatever they are, a *)
(* factor up or down within its bounds.                                       *)
adjust_sampling_rate == {rate - 1, rate, rate + 1} \cap (1..Levels)

(* update_metrics adds a sample, and asks is_open for the metrics.            *)
update_metrics ==
  /\ at[Monitor] = "idle" /\ Goto(Monitor, "look")
  /\ rate' \in adjust_sampling_rate
  /\ UNCHANGED <<breaker, todo, requests, permitsHeld>>

IsOpen(t) == LoadOpen(t) \/ LoadTime(t) \/ Access(t)
Request(t) == allow_request(t) \/ IsOpen(t) \/ Permit(t) \/ Sample(t)
Answer(t) == record_success(t) \/ record_failure(t)

Next ==
  \/ \E t \in Tasks : Request(t) \/ Answer(t)
  \/ IsOpen(Monitor)
  \/ TimeoutPasses \/ Tick \/ update_metrics

(* A task that is asking goes on asking, and a request gets an answer.        *)
Fairness ==
  /\ \A t \in Tasks : WF_rmvars(Request(t)) /\ WF_rmvars(Answer(t))
  /\ WF_rmvars(IsOpen(Monitor))
  /\ WF_rmvars(TimeoutPasses) /\ WF_rmvars(Tick)

Spec == Init /\ [][Next]_rmvars /\ Fairness

-----------------------------------------------------------------------------
TypeOK ==
  /\ isOpen \in BOOLEAN /\ failed \in 0..Threshold
  /\ lastFailed \in {"none", "recent", "elapsed"}
  /\ at \in [Actors -> {"idle", "look", "opened", "resetting", "permit", "sample", "sent", "recording"}]
  /\ \A t \in Actors : todo[t] # << >> <=> at[t] \in {"resetting", "recording"}
  /\ Len(requests) <= MaxRequests /\ \A i \in DOMAIN requests : requests[i] \in 0..Window
  /\ permitsHeld = {t \in Tasks : at[t] = "sample"} /\ rate \in 1..Levels

OpenAndDated == isOpen /\ lastFailed # "none"

(* The breaker does not get stuck: whenever it is open and knows when it      *)
(* failed, and requests go on being made, it closes again, unless it forgets  *)
(* the time: reset stores its None last, and may store it over the time of a  *)
(* failure that opened the breaker meanwhile (resource_manager.rs, is_open).  *)
OpenCloses == OpenAndDated ~> ~OpenAndDated
=============================================================================
