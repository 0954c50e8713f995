--------------------------- MODULE MemoryProfiler ---------------------------
(* The memory profiler (memory_profiler.rs): allocations by id and memory by   *)
(* system in two concurrent maps, snapshots and trends; and the processor of   *)
(* its commands (memory_profiler_processor.rs) with the profiling sessions and *)
(* the task that takes a snapshot every half minute.  The instrumentation      *)
(* frees what it allocated once.  A map's shard is taken to hold one key.      *)
EXTENDS Naturals, Integers, Sequences, FiniteSets, SequencesExt, FiniteSetsExt

CONSTANTS
  Systems, Sizes,
  Threads,      \* instrumented threads
  Callers,      \* tasks that handle profiling commands
  Sessions,     \* session ids
  Targets,      \* target_systems of a session
  Durations,    \* durations of a session; 0 for none
  MaxAllocations, \* MAX_ALLOCATION_BACKTRACES
  MaxSnapshots, \* MAX_MEMORY_SNAPSHOTS
  Kept,         \* ticks a freed record is kept for: an hour
  MaxIds, MaxStarts, MaxTime, MaxTaken, \* bounds on the records, starts, clock, snapshots
  None

MemoryAssumption == MaxSnapshots > 0 /\ Sizes \subseteq Nat /\ Durations \subseteq Nat

AllocationRecord == [system : Systems, size : Sizes, active : BOOLEAN, at : Nat]
MemorySnapshot == [at : Nat, memory : [Systems -> Int]]
MemoryProfilingSession == [id : Sessions, targets : Targets, expires : Nat]

VARIABLES
  now,
  allocations,   \* [id -> [system, size, active, at]]
  system_memory, \* [system -> bytes]
  next_id,
  thread,        \* [thread -> [at, id]]
  sessions,      \* sequence of [id, targets, expires], expires = 0 for never
  handle,        \* snapshot_task_handle: whether it holds a task
  task,          \* the running task: [at, expired], at = "off" when there is none
  caller,        \* [caller -> [at, session]]
  starts,        \* how many starts there were
  snapshots,     \* [at, memory], the oldest first
  taken          \* how many snapshots were taken

recordVars == <<allocations, system_memory, next_id, thread>>
sessionVars == <<sessions, handle, task, caller, starts>>
memoryVars == <<now, recordVars, sessionVars, snapshots, taken>>

Idle == [at |-> "idle", id |-> 0]
NoTask == [at |-> "off", expired |-> {}]
NoCall == [at |-> "idle", session |-> None]

Init ==
  /\ now = 0 /\ allocations = << >> /\ system_memory = [s \in Systems |-> 0] /\ next_id = 1
  /\ thread = [t \in Threads |-> Idle] /\ sessions = << >> /\ handle = FALSE /\ task = NoTask
  /\ caller = [c \in Callers |-> NoCall] /\ starts = 0 /\ snapshots = << >> /\ taken = 0

-----------------------------------------------------------------------------
(* The records, and the two maps' locks: a recorder keeps its system's entry   *)
(* until it returns, and one that frees keeps its record's.                    *)
HeldSystems == {allocations[thread[t].id].system : t \in {u \in Threads : thread[u].at = "adds"}}
HeldRecords == {thread[t].id : t \in {u \in Threads : thread[u].at = "frees"}}

should_record(s) == \E i \in DOMAIN sessions : s \in sessions[i].targets

record_allocation(t, s, size) ==
  /\ thread[t].at = "idle" /\ should_record(s) /\ next_id <= MaxIds
  /\ allocations' = [i \in DOMAIN allocations \cup {next_id} |->
       IF i \in DOMAIN allocations THEN allocations[i]
       ELSE [system |-> s, size |-> size, active |-> TRUE, at |-> now]]
  /\ next_id' = next_id + 1 /\ thread' = [thread EXCEPT ![t] = [at |-> "enters", id |-> next_id]]
  /\ UNCHANGED <<now, system_memory, sessionVars, snapshots, taken>>

(* The thread that adds waits for the entry of the system.                     *)
AddToSystem(t) ==
  LET r == allocations[thread[t].id]
  IN  /\ thread[t].at = "enters" /\ r.system \notin HeldSystems
      /\ system_memory' = [system_memory EXCEPT ![r.system] = @ + r.size]
      /\ thread' = [thread EXCEPT ![t].at = "adds"]
      /\ UNCHANGED <<now, allocations, next_id, sessionVars, snapshots, taken>>

(* Mutant: the records of live memory are thrown away too.                     *)
Cleaned_live == {i \in DOMAIN allocations : allocations[i].at + Kept < now}
Cleaned == {i \in DOMAIN allocations : ~allocations[i].active /\ allocations[i].at + Kept < now}

(* The count of the records reads every shard of the other map.                *)
EnforceLimit(t) ==
  /\ thread[t].at = "adds" /\ HeldRecords = {} /\ thread' = [thread EXCEPT ![t] = Idle]
  /\ allocations' = IF Cardinality(DOMAIN allocations) > MaxAllocations
                    THEN [i \in DOMAIN allocations \ Cleaned |-> allocations[i]] ELSE allocations
  /\ UNCHANGED <<now, system_memory, next_id, sessionVars, snapshots, taken>>

Recording(i) == \E t \in Threads : thread[t].at # "idle" /\ thread[t].id = i

record_deallocation(t, i) ==
  /\ thread[t].at = "idle" /\ i \in DOMAIN allocations /\ allocations[i].active /\ ~Recording(i)
  /\ allocations' = [allocations EXCEPT ![i].active = FALSE]
  /\ thread' = [thread EXCEPT ![t] = [at |-> "frees", id |-> i]]
  /\ UNCHANGED <<now, system_memory, next_id, sessionVars, snapshots, taken>>

SubtractFromSystem(t) ==
  LET r == allocations[thread[t].id]
  IN  /\ thread[t].at = "frees" /\ r.system \notin HeldSystems
      /\ system_memory' = [system_memory EXCEPT ![r.system] = @ - r.size]
      /\ thread' = [thread EXCEPT ![t] = Idle]
      /\ UNCHANGED <<now, allocations, next_id, sessionVars, snapshots, taken>>

-----------------------------------------------------------------------------
(* The snapshots; what they hold of the two maps is taken as read at once.     *)
take_snapshot ==
  LET all == Append(snapshots, [at |-> now, memory |-> system_memory])
  IN  /\ HeldSystems = {} /\ HeldRecords = {} /\ taken < MaxTaken /\ taken' = taken + 1
      /\ snapshots' = IF Len(all) > MaxSnapshots THEN Tail(all) ELSE all

TakeMemorySnapshot == take_snapshot /\ UNCHANGED <<now, recordVars, sessionVars>>

SumOver(F(_), n) == FoldSet(LAMBDA i, acc : acc + F(i), 0, 1..n)

(* Mutant: the snapshots are read with the newest first.                       *)
calculate_memory_trend_reversed(h) ==
  LET n == Len(h)
      slope == n * SumOver(LAMBDA i : i * h[n + 1 - i], n)
               - SumOver(LAMBDA i : i, n) * SumOver(LAMBDA i : h[i], n)
  IN  IF slope > 0 THEN "Growing" ELSE IF slope < 0 THEN "Declining" ELSE "Stable"
(* The sign of the slope of the regression; the rate is the slope over minutes *)
(* (over 0 for less than one), and a system grows or declines from 1000 bytes  *)
(* a minute on, for which every size here is large enough.                     *)
calculate_memory_trend(h) ==
  LET n == Len(h)
      slope == n * SumOver(LAMBDA i : i * h[i], n)
               - SumOver(LAMBDA i : i, n) * SumOver(LAMBDA i : h[i], n)
  IN  IF slope > 0 THEN "Growing" ELSE IF slope < 0 THEN "Declining" ELSE "Stable"

(* The trend of every system there are three snapshots of.                     *)
analyze_trends ==
  [s \in {x \in Systems : Len(snapshots) >= 3} |->
     calculate_memory_trend([i \in DOMAIN snapshots |-> snapshots[i].memory[s]])]

-----------------------------------------------------------------------------
(* The commands.  A start checks the id under a lock it drops.                 *)
ProfileMemory(c, id) ==
  /\ caller[c].at = "idle" /\ starts < MaxStarts /\ starts' = starts + 1
  /\ caller' = IF \E i \in DOMAIN sessions : sessions[i].id = id THEN caller
               ELSE [caller EXCEPT ![c] = [at |-> "push", session |-> id]]
  /\ UNCHANGED <<now, recordVars, sessions, handle, task, snapshots, taken>>

PushSession(c, targets, d) ==
  /\ caller[c].at = "push" /\ caller' = [caller EXCEPT ![c].at = "task"]
  /\ sessions' = Append(sessions, [id |-> caller[c].session, targets |-> targets,
                                   expires |-> IF d = 0 THEN 0 ELSE now + d])
  /\ UNCHANGED <<now, recordVars, handle, task, starts, snapshots, taken>>

(* The handle stays after the task has ended by itself.                        *)
start_automatic_snapshots(c) ==
  /\ caller[c].at = "task" /\ caller' = [caller EXCEPT ![c] = NoCall]
  /\ handle' = TRUE /\ task' = IF handle THEN task ELSE [at |-> "wakes", expired |-> {}]
  /\ UNCHANGED <<now, recordVars, sessions, starts, snapshots, taken>>

StopMemoryProfiling(id) ==
  LET left == SelectSeq(sessions, LAMBDA s : s.id # id)
  IN  /\ left # sessions /\ sessions' = left
      /\ IF left = << >> THEN handle' = FALSE /\ task' = NoTask ELSE UNCHANGED <<handle, task>>
      /\ UNCHANGED <<now, recordVars, caller, starts, snapshots, taken>>

(* The task collects the places of the sessions that are over, and removes     *)
(* these places under another lock.                                            *)
TaskWakes ==
  LET over == {i \in DOMAIN sessions : sessions[i].expires # 0 /\ sessions[i].expires <= now}
  IN  /\ task.at = "wakes"
      /\ task' = IF sessions = << >> THEN NoTask ELSE [at |-> "cleans", expired |-> over]
      /\ UNCHANGED <<now, recordVars, sessions, handle, caller, starts, snapshots, taken>>

TaskCleans ==
  /\ task.at = "cleans" /\ task' = [at |-> "takes", expired |-> {}]
  /\ sessions' = LET left == SetToSortSeq(DOMAIN sessions \ task.expired, <)
                 IN  [i \in DOMAIN left |-> sessions[left[i]]]
  /\ UNCHANGED <<now, recordVars, handle, caller, starts, snapshots, taken>>

TaskTakes ==
  /\ task.at = "takes" /\ take_snapshot /\ task' = [task EXCEPT !.at = "sleeps"]
  /\ UNCHANGED <<now, recordVars, sessions, handle, caller, starts>>

(* The clock's tick is the interval of the task.                               *)
Tick ==
  /\ now < MaxTime /\ now' = now + 1
  /\ task' = IF task.at = "sleeps" THEN [task EXCEPT !.at = "wakes"] ELSE task
  /\ UNCHANGED <<recordVars, sessions, handle, caller, starts, snapshots, taken>>

process ==
  \/ TakeMemorySnapshot
  \/ \E id \in Sessions : StopMemoryProfiling(id)
  \/ \E c \in Callers :
       \/ start_automatic_snapshots(c) \/ \E id \in Sessions : ProfileMemory(c, id)
       \/ \E targets \in Targets, d \in Durations : PushSession(c, targets, d)

Next ==
  \/ Tick \/ process \/ TaskWakes \/ TaskCleans \/ TaskTakes
  \/ \E t \in Threads :
       \/ AddToSystem(t) \/ EnforceLimit(t) \/ SubtractFromSystem(t)
       \/ \E s \in Systems, size \in Sizes : record_allocation(t, s, size)
       \/ \E i \in 1..MaxIds : record_deallocation(t, i)

Spec == Init /\ [][Next]_memoryVars

-----------------------------------------------------------------------------
TypeOK ==
  /\ \A i \in DOMAIN allocations : i \in 1..MaxIds /\ allocations[i] \in AllocationRecord
  /\ \A i \in DOMAIN sessions : sessions[i] \in MemoryProfilingSession
  /\ Len(snapshots) <= MaxSnapshots
  /\ \A i \in DOMAIN snapshots : snapshots[i] \in MemorySnapshot
  /\ \A t \in Threads : thread[t].at \in {"idle", "enters", "adds", "frees"}
  /\ task.at \in {"off", "wakes", "cleans", "takes", "sleeps"}

(* What is counted for a system is the live memory that is recorded of it, but *)
(* for what the threads in between have still to add and to subtract.          *)
MemoryIsOfLive ==
  LET SizeOf(I) == FoldSet(LAMBDA i, acc : acc + allocations[i].size, 0, I)
      Of(s) == {i \in DOMAIN allocations : allocations[i].system = s}
      Ids(at) == {thread[t].id : t \in {u \in Threads : thread[u].at = at}}
  IN  \A s \in Systems :
        system_memory[s] = SizeOf({i \in Of(s) : allocations[i].active} \ Ids("enters"))
                           + SizeOf(Of(s) \cap Ids("frees"))

(* Memory is reported as Declining only when some snapshot shows less than the *)
(* one before it, and as Growing only when one shows more.                     *)
TrendIsOfAChange ==
  \A s \in DOMAIN analyze_trends :
    LET m(i) == snapshots[i].memory[s]
    IN  /\ analyze_trends[s] = "Declining" => \E i \in 2..Len(snapshots) : m(i) < m(i - 1)
        /\ analyze_trends[s] = "Growing" => \E i \in 2..Len(snapshots) : m(i) > m(i - 1)

(* memory_profiler_processor.rs:120: a start begins the "automatic snapshot    *)
(* collection if not already running".                                         *)
CollectionRuns ==
  (sessions # << >> /\ \A c \in Callers : caller[c].at # "task") => task.at # "off"
=============================================================================
