---------------------------- MODULE QueryExecutor ----------------------------
(***************************************************************************)
(* The optimized observe tool (tools/observe_optimized.rs) with the query   *)
(* optimizer (query_optimization.rs) that classifies a request and keeps    *)
(* the classification in an LRU cache, and the executor that runs it        *)
(* (parallel_query_executor.rs): sequentially, or by listing all matching   *)
(* entities and filtering them again in batches.  One read-write lock       *)
(* guards the tool's state; permits bound the executions; the game is       *)
(* reached through the client's write lock.                                 *)
(***************************************************************************)
EXTENDS Naturals, Sequences, FiniteSets, Functions

CONSTANTS
    Callers,     \* the tasks that observe
    Entities,    \* the entities the game may have
    Components,  \* component types
    Requests,    \* the requests: [with, without, where, limit]
    MaxStates,   \* max_cache_size of the optimizer
    EnoughFor,   \* parallel_threshold of the executor
    BatchSize,   \* entities of a batch
    Permits,     \* max_concurrent_queries
    MaxHistory,  \* max_history_size
    MaxAsked,    \* bound: requests
    MaxChanges,  \* bound: changes of the game
    None         \* no limit, no snapshot

ExecutorAssumption ==
    /\ EnoughFor \in Nat /\ BatchSize \in Nat \ {0} /\ Permits \in Nat \ {0}
    /\ MaxHistory \in Nat \ {0} /\ MaxStates \in Nat /\ IsFiniteSet(Entities)
    /\ \A q \in Requests :
          /\ q.with \subseteq Components /\ q.without \subseteq Components
          /\ q.where \subseteq Entities /\ q.limit \in Nat \cup {None}

VARIABLES
    world,    \* the game: live entity -> its components
    states,   \* the hashes of the optimizer's cache, least recent first
    results,  \* the result cache: request -> entities
    last,     \* last_snapshot
    history,  \* snapshots_history
    readers,  \* the callers that hold the state's read lock
    writer,   \* the caller that holds its write lock
    client,   \* the caller that holds the client's write lock
    permits,  \* free permits of the semaphore
    job,      \* caller -> its request
    asked,    \* requests so far
    changes   \* changes of the game so far

vars == <<world, states, results, last, history, readers, writer, client,
          permits, job, asked, changes>>

Worlds == UNION {[S -> SUBSET Components] : S \in SUBSET Entities}

NoJob == [at |-> "none"]

Steps == {"none", "lookup", "optimize", "execute", "permit", "client", "send",
          "filter", "leave", "record", "diff", "cache", "done"}

TypeOK ==
    /\ world \in Worlds
    /\ Len(states) <= MaxStates + 1 /\ IsInjective(states)
    /\ DOMAIN results \subseteq Requests
    /\ last \in Worlds \cup {None}
    /\ Len(history) <= MaxHistory
    /\ readers \subseteq Callers /\ writer \in Callers \cup {None}
    /\ client \in Callers \cup {None}
    /\ permits \in 0..Permits
    /\ \A c \in Callers : job[c].at \in Steps
    /\ asked \in 0..MaxAsked /\ changes \in 0..MaxChanges

Init ==
    /\ world = [e \in Entities |-> Components]
    /\ states = <<>> /\ results = <<>> /\ last = None /\ history = <<>>
    /\ readers = {} /\ writer = None /\ client = None /\ permits = Permits
    /\ job = [c \in Callers |-> NoJob]
    /\ asked = 0 /\ changes = 0

store == <<states, results, last, history>>
locks == <<readers, writer, client, permits>>
bounds == <<asked, changes>>

(* The game: an entity loses a component or dies. *)
WorldChanges ==
    /\ changes < MaxChanges /\ changes' = changes + 1
    /\ \E e \in DOMAIN world :
          \/ \E k \in world[e] : world' = [world EXCEPT ![e] = @ \ {k}]
          \/ world' = [x \in DOMAIN world \ {e} |-> world[x]]
    /\ UNCHANGED <<store, locks, job, asked>>

(* The game answers with the entities that match all of a filter. *)
Matches(q, e, components) ==
    q.with \subseteq components /\ q.without \cap components = {}

Answer(q) == {e \in DOMAIN world : Matches(q, e, world[e]) /\ e \in q.where}

(***************************************************************************)
(* analyze_query_pattern and analyze_performance_characteristics: an        *)
(* estimate by the number of components, and a threshold for it.            *)
(***************************************************************************)
EntityEstimate(q) ==
    LET n == Cardinality(q.with)
        base == IF n = 0 THEN 10000 ELSE IF n = 1 THEN 5000
                ELSE IF n = 2 THEN 2000 ELSE IF n = 3 THEN 800 ELSE 200
        excluded == Cardinality(q.without)
    IN (base * (10 - (IF excluded > 4 THEN 8 ELSE 2 * excluded))) \div 10

parallel_friendly(q) ==
    LET n == Cardinality(q.with)
        direct == n <= 3 /\ q.without = {}
        enough == IF ~direct THEN 500 ELSE IF n = 0 THEN 100
                  ELSE IF n <= 2 THEN 500 ELSE 1000
    IN EntityEstimate(q) >= enough

should_use_parallel(q) == parallel_friendly(q) /\ EntityEstimate(q) >= 1000

(* A request of low impact is not worth caching. *)
cacheable(q) ==
    (q.with = {} /\ q.without = {})
        \/ (Cardinality(q.with) <= 2 /\ Cardinality(q.without) <= 1)

(* hash_request leaves the where clause out. *)
hash_request(q) == <<q.with, q.without, q.limit>>

(* Mutant: the entry that was inserted counts as there already. *)
Evicted_late(s) == IF Len(s) <= MaxStates + 1 THEN s ELSE Tail(s)

(* evict_if_necessary: the least recently used one goes. *)
Evicted(s) == IF Len(s) <= MaxStates THEN s ELSE Tail(s)

(* The hashes but h, which is among them once or not at all. *)
Others(s, h) ==
    IF \A i \in DOMAIN s : s[i] # h THEN s
    ELSE LET i == CHOOSE i \in DOMAIN s : s[i] = h
         IN SubSeq(s, 1, i - 1) \o SubSeq(s, i + 1, Len(s))

get_or_build_query_state(q) ==
    LET h == hash_request(q)
    IN states' = Evicted(Append(Others(states, h), h))

(***************************************************************************)
(* handle_optimized, up to the request: clear under the write lock; the     *)
(* result cache under the read lock, which a diff skips.                    *)
(***************************************************************************)
CanRead == writer = None
CanWrite == writer = None /\ readers = {}

Asks(c, q, diff) ==
    /\ job[c].at \in {"none", "done"} /\ asked < MaxAsked
    /\ asked' = asked + 1
    /\ job' = [job EXCEPT ![c] =
          [at |-> "lookup", query |-> q, diff |-> diff]]
    /\ UNCHANGED <<world, store, locks, changes>>

Looks(c) ==
    /\ job[c].at = "lookup" /\ CanRead
    /\ job' = [job EXCEPT ![c] =
          IF ~job[c].diff /\ job[c].query \in DOMAIN results
          THEN [at |-> "done", cached |-> TRUE] ELSE [@ EXCEPT !.at = "optimize"]]
    /\ UNCHANGED <<world, store, locks, bounds>>

Clear(c) ==
    /\ job[c].at \in {"none", "done"} /\ asked < MaxAsked /\ CanWrite
    /\ asked' = asked + 1
    /\ last' = None /\ history' = <<>>
    /\ job' = [job EXCEPT ![c] = [at |-> "done", cleared |-> TRUE]]
    /\ UNCHANGED <<world, states, results, locks, changes>>

Disconnected(c) ==
    /\ job[c].at = "optimize"
    /\ job' = [job EXCEPT ![c] = [at |-> "done", error |-> "not connected"]]
    /\ UNCHANGED <<world, store, locks, bounds>>

Optimizes(c) ==
    /\ job[c].at = "optimize" /\ CanRead
    /\ get_or_build_query_state(job[c].query)
    /\ job' = [job EXCEPT ![c].at = "execute"]
    /\ UNCHANGED <<world, results, last, history, locks, bounds>>

(***************************************************************************)
(* execute_query, under the read lock of the state from here until the      *)
(* execution ended: a permit, then the client for one request.              *)
(***************************************************************************)
ReadsState(c) ==
    /\ job[c].at = "execute" /\ CanRead
    /\ readers' = readers \cup {c}
    /\ job' = [job EXCEPT ![c].at = "permit"]
    /\ UNCHANGED <<world, store, writer, client, permits, bounds>>

TakesPermit(c) ==
    /\ job[c].at = "permit" /\ permits > 0
    /\ permits' = permits - 1
    /\ job' = [job EXCEPT ![c].at = "client"]
    /\ UNCHANGED <<world, store, readers, writer, client, bounds>>

LocksClient(c) ==
    /\ job[c].at = "client" /\ client = None
    /\ client' = c
    /\ job' = [job EXCEPT ![c].at = "send"]
    /\ UNCHANGED <<world, store, readers, writer, permits, bounds>>

Limited(S, limit) ==
    IF limit = None \/ Cardinality(S) <= limit THEN {S}
    ELSE {T \in SUBSET S : Cardinality(T) = limit}

Ended(j, S, data, parallel) ==
    [at |-> "leave", query |-> j.query, diff |-> j.diff,
     entities |-> [e \in S |-> data[e]], parallel |-> parallel, error |-> FALSE]

(* The sequential request, answered by the game within its limit. *)
SendsSequential(c) ==
    /\ job[c].at = "send" /\ ~should_use_parallel(job[c].query)
    /\ client' = None
    /\ \E S \in Limited(Answer(job[c].query), job[c].query.limit) :
          job' = [job EXCEPT ![c] = Ended(@, S, world, FALSE)]
    /\ UNCHANGED <<world, store, readers, writer, permits, bounds>>

(***************************************************************************)
(* The parallel one lists every match; too few of them are the result as    *)
(* they are, more are filtered in batches.                                  *)
(***************************************************************************)
SendsList(c) ==
    /\ job[c].at = "send" /\ should_use_parallel(job[c].query)
    /\ client' = None
    /\ LET listed == Answer(job[c].query)
       IN job' = [job EXCEPT ![c] =
             IF Cardinality(listed) < EnoughFor
             THEN Ended(@, listed, world, FALSE)
             ELSE [at |-> "filter", query |-> @.query, diff |-> @.diff,
                   listed |-> [e \in listed |-> world[e]]]]
    /\ UNCHANGED <<world, store, readers, writer, permits, bounds>>

SendFails(c) ==
    /\ job[c].at = "send"
    /\ client' = None
    /\ job' = [job EXCEPT ![c] =
          [Ended(@, {}, world, FALSE) EXCEPT !.error = TRUE]]
    /\ UNCHANGED <<world, store, readers, writer, permits, bounds>>

(* Mutant: only whole chunks. *)
Batches_whole(s) ==
    {SubSeq(s, i * BatchSize + 1, (i + 1) * BatchSize) :
        i \in 0..((Len(s) \div BatchSize) - 1)}

(* create_entity_batches: chunks, the last one with what is left. *)
Batches(s) ==
    {SubSeq(s, i * BatchSize + 1,
            IF (i + 1) * BatchSize < Len(s) THEN (i + 1) * BatchSize
            ELSE Len(s)) :
        i \in 0..(((Len(s) + BatchSize - 1) \div BatchSize) - 1)}

(***************************************************************************)
(* The listed entities, in the order the game gave them, are filtered by    *)
(* batches and by the components alone; the batches come back in any order, *)
(* and the limit cuts off whatever came last.                               *)
(***************************************************************************)
Filters(c) ==
    /\ job[c].at = "filter"
    /\ LET q == job[c].query
           listed == job[c].listed
           Orders == Bijection(1..Cardinality(DOMAIN listed), DOMAIN listed)
           Kept(s) == {e \in UNION {Range(b) : b \in Batches(s)} :
                          Matches(q, e, listed[e])}
       IN \E s \in Orders : \E S \in Limited(Kept(s), q.limit) :
             job' = [job EXCEPT ![c] = Ended(@, S, listed, TRUE)]
    /\ UNCHANGED <<world, store, locks, bounds>>

(* Mutant: the read guard lives on to the metrics. *)
Released_later(c) == permits' = permits + 1 /\ UNCHANGED readers

(* Permit and read guard are dropped. *)
Released(c) == permits' = permits + 1 /\ readers' = readers \ {c}

(* A failed execution falls back to one plain request, here its error. *)
Leaves(c) ==
    /\ job[c].at = "leave"
    /\ Released(c)
    /\ job' = [job EXCEPT ![c] =
          IF @.error THEN [at |-> "done", error |-> "fallback"]
          ELSE [@ EXCEPT !.at = "record"]]
    /\ UNCHANGED <<world, store, writer, client, bounds>>

(* The metrics, under the write lock for the length of one step. *)
Records(c) ==
    /\ job[c].at = "record" /\ CanWrite
    /\ job' = [job EXCEPT ![c].at = IF job[c].diff THEN "diff" ELSE "cache"]
    /\ UNCHANGED <<world, store, locks, bounds>>

(***************************************************************************)
(* add_snapshot makes the new snapshot the last one; diff_against_last then *)
(* compares with the last one.  Without a diff, the result may be cached.   *)
(***************************************************************************)
add_snapshot(snap) ==
    /\ history' = IF Len(history) = MaxHistory
                  THEN Append(Tail(history), snap) ELSE Append(history, snap)
    /\ last' = snap

Diffs(c) ==
    /\ job[c].at = "diff" /\ CanWrite
    /\ LET snap == job[c].entities
       IN /\ add_snapshot(snap)
          /\ job' = [job EXCEPT ![c] =
                [at |-> "done", before |-> last, after |-> snap,
                 differs |-> snap # last']]
    /\ UNCHANGED <<world, states, results, locks, bounds>>

Caches(c) ==
    /\ job[c].at = "cache" /\ CanRead
    /\ results' = IF cacheable(job[c].query)
                  THEN [q \in DOMAIN results \cup {job[c].query} |->
                           IF q = job[c].query THEN job[c].entities
                           ELSE results[q]]
                  ELSE results
    /\ job' = [job EXCEPT ![c] =
          [at |-> "done", query |-> @.query, entities |-> @.entities]]
    /\ UNCHANGED <<world, states, last, history, locks, bounds>>

Proceeds(c) ==
    \/ Looks(c) \/ Optimizes(c) \/ ReadsState(c) \/ TakesPermit(c)
    \/ LocksClient(c) \/ SendsSequential(c) \/ SendsList(c) \/ SendFails(c)
    \/ Filters(c) \/ Leaves(c) \/ Records(c) \/ Diffs(c) \/ Caches(c)

Next ==
    \/ WorldChanges
    \/ \E c \in Callers :
          \/ \E q \in Requests, d \in BOOLEAN : Asks(c, q, d)
          \/ Clear(c) \/ Disconnected(c) \/ Proceeds(c)

Spec == Init /\ [][Next]_vars

(***************************************************************************)
(* tokio runs every task that can go on, its locks and its semaphore serve  *)
(* waiters in order, and the game answers a request or the client fails.    *)
(***************************************************************************)
FairSpec == Spec /\ \A c \in Callers : SF_vars(Proceeds(c))

(* The classifications kept do not outgrow the cache, whoever asks. *)
StatesWithinLimit == Len(states) <= MaxStates

(* A parallel answer without a limit has every entity that was listed. *)
LosesNothing ==
    \A c \in Callers : Filters(c) /\ job[c].query.limit = None =>
        job'[c].entities = job[c].listed
BatchesLoseNothing == [][LosesNothing]_vars

Looking(c) == job[c].at = "lookup"
Answered(c) == job[c].at \in {"done", "none"}

(***************************************************************************)
(* Every query ends: permits and locks held while waiting for one another   *)
(* never make a circle.                                                     *)
(***************************************************************************)
QueriesEnd == \A c \in Callers : Looking(c) ~> Answered(c)

(* What the limit of a query promises: the maximum number of results. *)
LimitKept ==
    \A c \in Callers : job[c].at = "record" /\ job[c].query.limit # None =>
        Cardinality(DOMAIN job[c].entities) <= job[c].query.limit

(***************************************************************************)
(* What the comment over diff_against_last says: the diff is against the    *)
(* snapshot before, so it tells when the two differ.                        *)
(***************************************************************************)
DiffSeesChanges ==
    \A c \in Callers : job[c].at = "done" /\ "before" \in DOMAIN job[c] =>
        (job[c].before \notin {None, job[c].after} => job[c].differs)
=============================================================================
