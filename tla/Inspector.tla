------------------------------ MODULE Inspector ------------------------------
(***************************************************************************)
(* The entity inspector (entity_inspector.rs): entities of the running game *)
(* are fetched one request at a time under the client's write lock, and     *)
(* kept for five seconds together with the metadata and relationships that  *)
(* the request which fetched them asked for.  A batch fetches every entity  *)
(* anew and neither reads nor fills the cache.                              *)
(***************************************************************************)
EXTENDS Naturals, Sequences, FiniteSets

CONSTANTS
    Callers,     \* the tasks that inspect
    Entities,    \* entity ids
    Components,  \* plain component types
    Parent,      \* the relationship component: its value is an entity
    Values,      \* the values of plain components
    Recent,      \* frames within which a component counts as modified
    Ttl,         \* ttl of a cache entry
    MaxCached,   \* entries beyond which old ones are cleaned up
    KeptFor,     \* age of the entries such a clean-up keeps
    MaxBatch,    \* MAX_BATCH_SIZE
    MaxTime,     \* bound: clock
    MaxChanges,  \* bound: changes of the game
    MaxRequests, \* bound: requests of the callers
    None         \* no value

InspectorAssumption ==
    /\ Parent \notin Components /\ None \notin Entities \cup Values \cup Callers
    /\ MaxBatch \in Nat /\ Recent \in Nat
    /\ Ttl \in Nat /\ KeptFor \in Nat /\ MaxCached \in Nat

Types == Components \cup {Parent}

VARIABLES
    world,     \* the game: live entity -> its components and their values
    cache,     \* entity -> what was fetched, with_metadata, related, time
    modified,  \* entity -> component -> the frame of its last inspection
    frame,     \* current_frame: the inspections tracked
    now,       \* the clock
    client,    \* the caller that holds the client's write lock
    job,       \* caller -> the request it works on
    requests,  \* requests so far
    changes,   \* changes of the game so far
    touched    \* history: entity -> components changed since it was tracked

vars == <<world, cache, modified, frame, now, client, job, requests, changes,
          touched>>

Valuation == UNION {[S -> Values \cup Entities] : S \in SUBSET Types}

NoJob == [at |-> "none"]

TypeOK ==
    /\ DOMAIN world \subseteq Entities
    /\ \A e \in DOMAIN world : world[e] \in Valuation
    /\ DOMAIN cache \subseteq Entities
    /\ \A e \in DOMAIN cache :
          /\ cache[e].data \in Valuation /\ cache[e].at \in 0..MaxTime
          /\ cache[e].metadata \in BOOLEAN /\ cache[e].related \in BOOLEAN
    /\ DOMAIN modified \subseteq Entities
    /\ frame \in Nat /\ now \in 0..MaxTime
    /\ client \in Callers \cup {None}
    /\ \A c \in Callers :
          job[c].at \in {"none", "fetch", "build", "cache", "track", "done"}
    /\ requests \in 0..MaxRequests /\ changes \in 0..MaxChanges
    /\ touched \in [Entities -> SUBSET Types]

Init ==
    /\ world \in UNION {[S -> [Components -> Values]] : S \in {Entities}}
    /\ cache = <<>> /\ modified = <<>> /\ frame = 0 /\ now = 0
    /\ client = None
    /\ job = [c \in Callers |-> NoJob]
    /\ requests = 0 /\ changes = 0
    /\ touched = [e \in Entities |-> {}]

(* The game goes on: a component changes, a parent is set, an entity dies. *)
WorldChanges ==
    /\ changes < MaxChanges /\ changes' = changes + 1
    /\ \E e \in DOMAIN world :
          \/ \E k \in Components, v \in Values :
                /\ world' = [world EXCEPT ![e] = [@ EXCEPT ![k] = v]]
                /\ touched' = [touched EXCEPT ![e] = @ \cup {k}]
          \/ \E p \in Entities \ {e} :
                /\ world' = [world EXCEPT ![e] = [k \in DOMAIN @ \cup {Parent}
                       |-> IF k = Parent THEN p ELSE @[k]]]
                /\ touched' = [touched EXCEPT ![e] = @ \cup {Parent}]
          \/ /\ world' = [x \in DOMAIN world \ {e} |-> world[x]]
             /\ touched' = [touched EXCEPT ![e] = Types]
    /\ UNCHANGED <<cache, modified, frame, now, client, job, requests>>

Tick ==
    /\ now < MaxTime /\ now' = now + 1
    /\ UNCHANGED <<world, cache, modified, frame, client, job, requests,
                   changes, touched>>

ttl_expired(entry) == now - entry.at > Ttl

(* The cache entry a request is answered from. *)
get_cached_entity(e) ==
    IF e \in DOMAIN cache THEN {en \in {cache[e]} : ~ttl_expired(en)} ELSE {}

(***************************************************************************)
(* What the answer shows: the data; of the metadata whether it was built    *)
(* and which components it calls modified; of the relationships the parent. *)
(***************************************************************************)
ParentOf(data) == IF Parent \in DOMAIN data THEN data[Parent] ELSE None

is_component_modified(e, k) ==
    /\ e \in DOMAIN modified /\ k \in DOMAIN modified[e]
    /\ frame - modified[e][k] <= Recent

Answer(e, data, metadata, related) ==
    [at |-> "done", entity |-> e, data |-> data, metadata |-> metadata,
     related |-> related]

(***************************************************************************)
(* inspect_entity: an answer from the cache, with whatever metadata and     *)
(* relationships the entry has; else the entity is fetched.                 *)
(***************************************************************************)
inspect_entity(c, e, meta, rel) ==
    /\ job[c].at \in {"none", "done"} /\ requests < MaxRequests
    /\ requests' = requests + 1
    /\ LET wanted == [at |-> "fetch", kind |-> "one", left |-> <<e>>,
                      meta |-> meta, rel |-> rel, results |-> <<>>]
       IN job' = [job EXCEPT ![c] =
             IF get_cached_entity(e) = {} THEN wanted
             ELSE LET en == cache[e]
                  IN Answer(e, en.data,
                       IF meta THEN (IF en.metadata THEN "built"
                                     ELSE "placeholder") ELSE "no",
                       IF rel THEN (IF en.related THEN ParentOf(en.data)
                                    ELSE "unknown") ELSE "no")]
    /\ UNCHANGED <<world, cache, modified, frame, now, client, changes, touched>>

(* inspect_batch: as many of the entities as the limit allows, in order. *)
Taken(s, limit) ==
    LET n == IF limit < MaxBatch THEN limit ELSE MaxBatch
    IN IF Len(s) < n THEN s ELSE SubSeq(s, 1, n)

inspect_batch(c, s, meta, rel, limit) ==
    /\ job[c].at \in {"none", "done"} /\ requests < MaxRequests
    /\ requests' = requests + 1
    /\ job' = [job EXCEPT ![c] =
          [at |-> "fetch", kind |-> "batch", left |-> Taken(s, limit),
           asked |-> Taken(s, limit), meta |-> meta, rel |-> rel,
           results |-> <<>>, found |-> 0, missing |-> <<>>]]
    /\ UNCHANGED <<world, cache, modified, frame, now, client, changes, touched>>

(* fetch_entity_from_brp: the client's write lock over the whole request. *)
Locks(c) ==
    /\ job[c].at = "fetch" /\ job[c].left # <<>> /\ client = None
    /\ client' = c
    /\ UNCHANGED <<world, cache, modified, frame, now, job, requests, changes,
                   touched>>

(* Mutant: an entity that is not found leaves no result. *)
Noted_if_found(batch, e, found) ==
    IF found
    THEN [batch EXCEPT !.results = Append(@, [entity |-> e, found |-> found]),
             !.found = @ + 1]
    ELSE [batch EXCEPT !.missing = Append(@, e)]

(* A result for the entity, and it is counted as found or kept as missing. *)
Noted(batch, e, found) ==
    [batch EXCEPT !.results = Append(@, [entity |-> e, found |-> found]),
        !.found = IF found THEN @ + 1 ELSE @,
        !.missing = IF found THEN @ ELSE Append(@, e)]

(* An inspection without its entity ends; a batch notes it and goes on. *)
Answered(j, e, found) ==
    IF j.kind = "batch" THEN Noted([j EXCEPT !.left = Tail(@)], e, found)
    ELSE IF found
    THEN [at |-> "build", kind |-> "one", entity |-> e, data |-> world[e],
          meta |-> j.meta, rel |-> j.rel]
    ELSE [at |-> "done", entity |-> e, error |-> "not found"]

(* The request fails, or tells whether the entity is there. *)
Fetched(c) ==
    /\ client = c
    /\ client' = None
    /\ LET e == Head(job[c].left)
       IN \E found \in {FALSE, (e \in DOMAIN world)} :
             job' = [job EXCEPT ![c] = Answered(@, e, found)]
    /\ UNCHANGED <<world, cache, modified, frame, now, requests, changes,
                   touched>>

(* The results of a batch, with the number found and the entities missing. *)
BatchEnds(c) ==
    /\ job[c].at = "fetch" /\ job[c].kind = "batch" /\ job[c].left = <<>>
    /\ job' = [job EXCEPT ![c] =
          [at |-> "done", results |-> @.results, asked |-> @.asked,
           found |-> @.found, missing |-> @.missing]]
    /\ UNCHANGED <<world, cache, modified, frame, now, client, requests,
                   changes, touched>>

(***************************************************************************)
(* build_entity_metadata: each component is called modified by the frames   *)
(* of earlier inspections; the relationships come from the fetched data.    *)
(***************************************************************************)
Builds(c) ==
    /\ job[c].at = "build"
    /\ job' = [job EXCEPT ![c] =
          [at |-> "cache", entity |-> @.entity, data |-> @.data,
           meta |-> @.meta, rel |-> @.rel,
           changed |-> {k \in DOMAIN @.data :
                           @.meta /\ is_component_modified(@.entity, k)}]]
    /\ UNCHANGED <<world, cache, modified, frame, now, client, requests,
                   changes, touched>>

(***************************************************************************)
(* cache_entity replaces the entry of the entity; above the limit, entries  *)
(* that are not young any more go.                                          *)
(***************************************************************************)
Entry(j) ==
    [data |-> j.data, metadata |-> j.meta, related |-> j.rel, at |-> now]

cache_entity(c) ==
    /\ job[c].at = "cache"
    /\ LET e == job[c].entity
           grown == [x \in DOMAIN cache \cup {e} |->
                        IF x = e THEN Entry(job[c]) ELSE cache[x]]
       IN cache' = IF Cardinality(DOMAIN grown) > MaxCached
                   THEN [x \in {y \in DOMAIN grown :
                               now - grown[y].at < KeptFor} |-> grown[x]]
                   ELSE grown
    /\ job' = [job EXCEPT ![c].at = "track"]
    /\ UNCHANGED <<world, modified, frame, now, client, requests, changes,
                   touched>>

(* update_change_tracking, and the answer. *)
update_change_tracking(c) ==
    /\ job[c].at = "track"
    /\ LET e == job[c].entity
           seen == DOMAIN job[c].data
           old == IF e \in DOMAIN modified THEN modified[e] ELSE <<>>
       IN /\ frame' = frame + 1
          /\ modified' = [x \in DOMAIN modified \cup {e} |-> IF x = e
                THEN [k \in DOMAIN old \cup seen |->
                         IF k \in seen THEN frame + 1 ELSE old[k]]
                ELSE modified[x]]
          /\ touched' = [touched EXCEPT ![e] = {}]
    /\ job' = [job EXCEPT ![c] =
          Answer(job[c].entity, @.data, IF @.meta THEN "built" ELSE "no",
                 IF @.rel THEN ParentOf(@.data) ELSE "no")]
    /\ UNCHANGED <<world, cache, now, client, requests, changes>>

invalidate_cache(e) ==
    /\ e \in DOMAIN cache
    /\ cache' = [x \in DOMAIN cache \ {e} |-> cache[x]]
    /\ UNCHANGED <<world, modified, frame, now, client, job, requests, changes,
                   touched>>

Asked == {<<e>> : e \in Entities} \cup {<<e, f>> : e, f \in Entities}

Next ==
    \/ WorldChanges \/ Tick
    \/ \E c \in Callers :
          \/ \E e \in Entities, m, r \in BOOLEAN : inspect_entity(c, e, m, r)
          \/ \E s \in Asked, m, r \in BOOLEAN, n \in {1, MaxBatch} :
                inspect_batch(c, s, m, r, n)
          \/ Locks(c) \/ Fetched(c) \/ BatchEnds(c) \/ Builds(c)
          \/ cache_entity(c) \/ update_change_tracking(c)
    \/ \E e \in Entities : invalidate_cache(e)

Spec == Init /\ [][Next]_vars

(***************************************************************************)
(* What the cache is for: a request that asks for the relationships of an   *)
(* entity gets them, whoever inspected the entity before.                   *)
(***************************************************************************)
CacheAnswersWhatWasAsked ==
    \A c \in Callers : job[c].at = "done" /\ "related" \in DOMAIN job[c] =>
        job[c].related # "unknown" /\ job[c].metadata # "placeholder"

(***************************************************************************)
(* What the comment over is_component_modified says: a component that is    *)
(* called modified did change since the entity was inspected last.          *)
(***************************************************************************)
ModifiedMeansChanged ==
    \A c \in Callers : job[c].at = "cache" =>
        job[c].changed \subseteq touched[job[c].entity]

(***************************************************************************)
(* Whatever dies or fails while a batch runs, its answer has one result for *)
(* each entity taken, in the order asked, found or missing.                 *)
(***************************************************************************)
BatchIsComplete ==
    \A c \in Callers : job[c].at = "done" /\ "results" \in DOMAIN job[c] =>
        /\ [i \in DOMAIN job[c].results |-> job[c].results[i].entity]
              = job[c].asked
        /\ job[c].found + Len(job[c].missing) = Len(job[c].asked)
=============================================================================
