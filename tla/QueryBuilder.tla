---------------------------- MODULE QueryBuilder ----------------------------
(***************************************************************************)
(* The query builder (query_builder.rs) and its command processor           *)
(* (query_builder_processor.rs).  A builder is a draft that memoises its    *)
(* cost and its cache key until the next change.  The processor keeps, per  *)
(* key, the validated query, the hints and statistics: a validation looks   *)
(* under the cache lock, validates without it, and stores under it again.   *)
(***************************************************************************)
EXTENDS Naturals, Sequences, FiniteSets, SequencesExt

CONSTANTS
    Callers,       \* the tasks of the processor
    Names,         \* component names a caller may send
    Known,         \* known_components
    Selective,     \* the selective components of the ordering hint
    Broad,         \* Transform, GlobalTransform
    PerMille(_),   \* the selectivity of a required component, in 1/1000
    Limits,        \* limits a caller may send
    Offsets,       \* offsets a caller may send
    MaxListed,     \* bound: names in each list of a query
    MaxComponents, \* MAX_COMPONENTS_PER_QUERY
    Budget,        \* QUERY_PERFORMANCE_BUDGET_US
    Ttl,           \* ttl of a validated query
    MaxTime,       \* bound: clock
    MaxRequests,   \* bound: requests
    MaxSteps,      \* bound: changes of the draft
    None           \* not given, not computed

QueryBuilderAssumption ==
    /\ Known \subseteq Names /\ Selective \subseteq Known
    /\ Broad \subseteq Known /\ Limits \subseteq Nat /\ Offsets \subseteq Nat
    /\ None \notin Nat /\ \A n \in Names : PerMille(n) \in 1..1000

Lists == UNION {[1..n -> Names] : n \in 0..MaxListed}

Queries ==
    [with : Lists, without : Lists, filters : {0},
     limit : Limits \cup {None}, offset : Offsets \cup {None}]

(***************************************************************************)
(* estimate_entity_count: ten thousand entities, thinned by each required   *)
(* component and slightly by each excluded one, never under a thousandth,   *)
(* and not over the limit.  Time is ten microseconds per entity and check,  *)
(* times two and a half with filters.                                       *)
(***************************************************************************)
Thinned(n, list, share(_)) ==
    FoldLeft(LAMBDA acc, c : (acc * share(c)) \div 1000, n, list)

MatchEstimate(q) ==
    LET with == Thinned(10000, q.with, PerMille)
        both == Thinned(with, q.without, LAMBDA c : 950)
    IN IF both < 10 THEN 10 ELSE both

estimate(q) ==
    LET match == MatchEstimate(q)
        entities == IF q.limit # None /\ q.limit < match THEN q.limit
                    ELSE match
        base == entities * (Len(q.with) + Len(q.without)) * 10
    IN [entities |-> entities,
        time |-> base + IF q.filters > 0 THEN (base * 3) \div 2 ELSE 0]

Holds(list, S) == ToSet(list) \cap S # {}

(* QueryOptimizer::analyze. *)
analyze(q) ==
    {h \in {"broad", "exclusions only", "large", "over budget",
            "broad components", "many filters", "many components"} :
        CASE h = "broad" -> MatchEstimate(q) > 5000
          [] h = "exclusions only" -> q.with = <<>> /\ q.filters = 0
          [] h = "large" -> estimate(q).entities > 1000 /\ q.limit = None
          [] h = "over budget" -> estimate(q).time > Budget
          [] h = "broad components" ->
                 Holds(q.with, Broad) /\ ~Holds(q.with, Selective)
                     /\ Len(q.with) = 1
          [] h = "many filters" -> q.filters > 5
          [] OTHER -> Len(q.with) > 10}

(* QueryValidator::validate. *)
valid(q) ==
    /\ Len(q.with) + Len(q.without) <= MaxComponents
    /\ ToSet(q.with) \cup ToSet(q.without) \subseteq Known
    /\ ~Holds(q.with, ToSet(q.without))
    /\ q.with # <<>> \/ q.without # <<>> \/ q.filters > 0

(* How often each name occurs in a list. *)
BagOf(list) ==
    [n \in ToSet(list) |-> Cardinality({i \in DOMAIN list : list[i] = n})]

(* Mutant: the limit is left out of the key. *)
cache_key_no_limit(q) ==
    <<BagOf(q.with), BagOf(q.without), q.filters, q.offset>>

(***************************************************************************)
(* The key: the sorted names of both lists (so their bags), the number of   *)
(* the filters, the limit and the offset.                                   *)
(***************************************************************************)
cache_key(q) ==
    <<BagOf(q.with), BagOf(q.without), q.filters, q.limit, q.offset>>

complexity(q) ==
    LET c == 2 * Len(q.with) + Len(q.without) + 3 * q.filters
    IN IF q.limit = None THEN c ELSE IF c > 5 THEN c - 5 ELSE 0

VARIABLES
    draft,     \* a builder under construction
    costCache, \* its cost_cache
    keyCache,  \* its cache_key field
    steps,     \* changes of the draft so far
    validated, \* validated_queries: key -> query, hints, time
    stats,     \* performance_stats: key -> executions, successes
    now,       \* the clock
    client,    \* the caller that holds the client's write lock
    job,       \* caller -> its request
    requests   \* requests so far

vars == <<draft, costCache, keyCache, steps, validated, stats, now, client,
          job, requests>>

drafting == <<draft, costCache, keyCache, steps>>
processing == <<validated, stats, now, client, job, requests>>

EmptyQuery ==
    [with |-> <<>>, without |-> <<>>, filters |-> 0, limit |-> None,
     offset |-> None]

TypeOK ==
    /\ steps \in 0..MaxSteps
    /\ costCache \in [entities : Nat, time : Nat] \cup {None}
    /\ \A k \in DOMAIN validated :
          /\ validated[k].at \in 0..MaxTime
          /\ valid(validated[k].query)
    /\ \A k \in DOMAIN stats : stats[k].good <= stats[k].runs
    /\ now \in 0..MaxTime /\ client \in Callers \cup {None}
    /\ \A c \in Callers :
          job[c].at \in {"none", "validate", "store", "lock", "send", "count",
                         "done"}
    /\ requests \in 0..MaxRequests

Init ==
    /\ draft = EmptyQuery /\ costCache = None /\ keyCache = None /\ steps = 0
    /\ validated = <<>> /\ stats = <<>> /\ now = 0 /\ client = None
    /\ job = [c \in Callers |-> [at |-> "none"]]
    /\ requests = 0

(* A step of the builder forgets what was memoised. *)
invalidate_cache == costCache' = None /\ keyCache' = None

(* Mutant: only the key is forgotten. *)
Paged_keeps_cost(f, v) ==
    draft' = [draft EXCEPT ![f] = v] /\ keyCache' = None /\ UNCHANGED costCache

(* limit and offset. *)
Paged(f, v) == draft' = [draft EXCEPT ![f] = v] /\ invalidate_cache

BuilderStep ==
    /\ steps < MaxSteps /\ steps' = steps + 1
    /\ \/ \E n \in Names, f \in {"with", "without"} :
             /\ Len(draft[f]) < MaxListed
             /\ draft' = [draft EXCEPT ![f] = Append(@, n)]
             /\ invalidate_cache
       \/ draft' = [draft EXCEPT !.filters = @ + 1] /\ invalidate_cache
       \/ \E n \in Limits : Paged("limit", n)
       \/ \E n \in Offsets : Paged("offset", n)
    /\ UNCHANGED processing

estimate_cost ==
    /\ costCache = None
    /\ costCache' = estimate(draft)
    /\ UNCHANGED <<draft, keyCache, steps, processing>>

memoise_key ==
    /\ keyCache = None
    /\ keyCache' = cache_key(draft)
    /\ UNCHANGED <<draft, costCache, steps, processing>>

Tick ==
    /\ now < MaxTime /\ now' = now + 1
    /\ UNCHANGED <<drafting, validated, stats, client, job, requests>>

Starts(c) ==
    /\ job[c].at \in {"none", "done"} /\ requests < MaxRequests
    /\ requests' = requests + 1

(***************************************************************************)
(* handle_validate_query: under the cache lock, an entry that has not       *)
(* expired is the answer and an expired one is removed.                     *)
(***************************************************************************)
Live(k) == k \in DOMAIN validated /\ now - validated[k].at < Ttl

handle_validate_query(c, q) ==
    /\ Starts(c)
    /\ LET k == cache_key(q)
       IN /\ job' = [job EXCEPT ![c] =
                IF Live(k)
                THEN [at |-> "done", query |-> q, valid |-> TRUE,
                      cost |-> estimate(validated[k].query),
                      hints |-> validated[k].hints]
                ELSE [at |-> "validate", query |-> q]]
          /\ validated' = IF Live(k) THEN validated
                ELSE [x \in DOMAIN validated \ {k} |-> validated[x]]
    /\ UNCHANGED <<drafting, stats, now, client>>

Validates(c) ==
    /\ job[c].at = "validate"
    /\ job' = [job EXCEPT ![c].at = "store"]
    /\ UNCHANGED <<drafting, validated, stats, now, client, requests>>

update_performance_stats(k, success) ==
    LET old == IF k \in DOMAIN stats THEN stats[k] ELSE [runs |-> 0, good |-> 0]
    IN stats' = [x \in DOMAIN stats \cup {k} |->
          IF x = k THEN [runs |-> old.runs + 1,
                         good |-> old.good + IF success THEN 1 ELSE 0]
          ELSE stats[x]]

(* A valid query is stored with its hints, an invalid one only counted. *)
Stores(c) ==
    /\ job[c].at = "store"
    /\ LET q == job[c].query
           k == cache_key(q)
       IN /\ validated' = IF valid(q)
                THEN [x \in DOMAIN validated \cup {k} |-> IF x = k
                        THEN [query |-> q, hints |-> analyze(q), at |-> now]
                        ELSE validated[x]]
                ELSE validated
          /\ update_performance_stats(k, valid(q))
          /\ job' = [job EXCEPT ![c] =
                [at |-> "done", query |-> q, valid |-> valid(q),
                 cost |-> estimate(q), hints |-> analyze(q)]]
    /\ UNCHANGED <<drafting, now, client, requests>>

(***************************************************************************)
(* handle_build_and_execute: the query is built, sent with its limit and    *)
(* without its offset under the client's write lock, and counted under the  *)
(* cache lock while the client is still held.                               *)
(***************************************************************************)
handle_build_and_execute(c, q) ==
    /\ Starts(c)
    /\ job' = [job EXCEPT ![c] =
          IF valid(q) THEN [at |-> "lock", query |-> q]
          ELSE [at |-> "done", error |-> "invalid"]]
    /\ UNCHANGED <<drafting, validated, stats, now, client>>

LocksClient(c) ==
    /\ job[c].at = "lock" /\ client = None
    /\ \/ /\ client' = c
          /\ job' = [job EXCEPT ![c].at = "send"]
       \/ /\ job' = [job EXCEPT ![c] =
                [at |-> "done", error |-> "not connected"]]
          /\ UNCHANGED client
    /\ UNCHANGED <<drafting, validated, stats, now, requests>>

Sends(c) ==
    /\ job[c].at = "send"
    /\ \E success \in BOOLEAN :
          job' = [job EXCEPT ![c] =
                [at |-> "count", query |-> @.query, success |-> success,
                 sent |-> [@.query EXCEPT !.offset = None]]]
    /\ UNCHANGED <<drafting, validated, stats, now, client, requests>>

Counts(c) ==
    /\ job[c].at = "count"
    /\ update_performance_stats(cache_key(job[c].query), job[c].success)
    /\ client' = None
    /\ job' = [job EXCEPT ![c] =
          [at |-> "done", sent |-> @.sent, asked |-> @.query,
           success |-> @.success]]
    /\ UNCHANGED <<drafting, validated, now, requests>>

(* handle_estimate_cost and handle_get_suggestions only compute. *)
handle_estimate_cost(c, q) ==
    /\ Starts(c)
    /\ job' = [job EXCEPT ![c] =
          [at |-> "done", over |-> estimate(q).time > Budget,
           complexity |-> complexity(q)]]
    /\ UNCHANGED <<drafting, validated, stats, now, client>>

cleanup_cache ==
    /\ \E k \in DOMAIN validated : ~Live(k)
    /\ validated' = [k \in {x \in DOMAIN validated : Live(x)} |-> validated[k]]
    /\ UNCHANGED <<drafting, stats, now, client, job, requests>>

Next ==
    \/ BuilderStep \/ estimate_cost \/ memoise_key \/ Tick \/ cleanup_cache
    \/ \E c \in Callers :
          \/ \E q \in Queries : handle_validate_query(c, q)
                \/ handle_build_and_execute(c, q) \/ handle_estimate_cost(c, q)
          \/ Validates(c) \/ Stores(c) \/ LocksClient(c) \/ Sends(c)
          \/ Counts(c)

Spec == Init /\ [][Next]_vars

(* Whatever is added to a builder, what it memoised is of its query. *)
MemoIsOfDraft ==
    /\ costCache # None => costCache = estimate(draft)
    /\ keyCache # None => keyCache = cache_key(draft)

(***************************************************************************)
(* A validation answered from the cache, by whichever caller and order of   *)
(* names it was stored, is the one a fresh validation would give.           *)
(***************************************************************************)
CacheAnswersAsFresh ==
    \A c \in Callers :
        job[c].at = "done" /\ "hints" \in DOMAIN job[c] =>
            /\ job[c].valid = valid(job[c].query)
            /\ job[c].cost = estimate(job[c].query)
            /\ job[c].hints = analyze(job[c].query)

(***************************************************************************)
(* What the comment over offset says: it pages through the results, so the  *)
(* request that is sent carries it.                                         *)
(***************************************************************************)
OffsetIsSent ==
    \A c \in Callers : job[c].at = "done" /\ "sent" \in DOMAIN job[c] =>
        job[c].sent.offset = job[c].asked.offset
=============================================================================
