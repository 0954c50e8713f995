-------------------------------- MODULE JsonRpc --------------------------------
(***************************************************************************)
(* The HTTP half of brp_client.rs: a request is translated to JSON-RPC,     *)
(* which may first need the game's component types to make full type names *)
(* of short ones; the result is translated back, and the parts of a query   *)
(* the game does not know (where, limit) are applied to it.  The caller     *)
(* holds the client's write lock, so requests follow one another; the game  *)
(* goes on between two HTTP calls of a request.                             *)
(***************************************************************************)
EXTENDS Naturals, Sequences, FiniteSets, Functions

CONSTANTS
    Entities,     \* entity ids, whatever format the game gives them in
    Types,        \* full type names of components
    Names,        \* names a caller may give, full or short
    EndsIn(_, _), \* EndsIn(type, name): the type's name ends with that name
    Lists,        \* orders in which a game may list its types
    Values,       \* component values
    Limits,       \* limits of a query
    MaxChanges,   \* bound: changes of the game
    MaxRequests,  \* bound: requests
    None

JsonRpcAssumption ==
    /\ Types \subseteq Names /\ None \notin Names
    /\ \A l \in Lists : IsInjective(l) /\ Range(l) \subseteq Types
    /\ Limits \subseteq Nat

VARIABLES
    world,      \* the game's entities: id -> component -> value
    listed,     \* the types of the game, in the order it lists them
    cache,      \* component_type_cache
    connected,  \* connected
    job,        \* the request, its stage and the data that goes with it
    answer,     \* what the last request returned
    changes, requests

vars == <<world, listed, cache, connected, job, answer, changes, requests>>

Idle == [at |-> "idle"]
Contents == UNION {[S -> Values] : S \in SUBSET Types}
Clause == [name : Names, value : Values]

(* A query, with at most one type in each part of its filter. *)
Filters == [with : Names \cup {None}, where : Clause \cup {None}]
Asks ==
    [kind : {"query"}, filter : Filters, limit : Limits \cup {None}]
    \cup [kind : {"entities"}, filter : Filters]
    \cup [kind : {"get", "insert"}, entity : Entities, name : Names]
    \cup [kind : {"get_all", "destroy"}, entity : Entities]
    \cup [kind : {"components", "screenshot"}]

(* The stages follow send_request_http. *)
TypeOK ==
    /\ DOMAIN world \subseteq Entities
    /\ \A e \in DOMAIN world : world[e] \in Contents
    /\ listed \in Lists /\ cache \in Lists \cup {<<>>}
    /\ connected \in BOOLEAN
    /\ job.at \in {"idle", "build", "post", "convert"}
    /\ changes \in 0..MaxChanges /\ requests \in 0..MaxRequests

Init ==
    /\ world \in [Entities -> {[t \in S |-> v] : S \in SUBSET Types,
                                                 v \in Values}]
    /\ listed \in Lists /\ cache = <<>> /\ connected = TRUE
    /\ job = Idle /\ answer = [kind |-> "none"] /\ changes = 0 /\ requests = 0

(* The game goes on; a game that was restarted with other plugins lists    *)
(* other types, and the client keeps the list it has.                      *)
GameGoesOn ==
    /\ changes < MaxChanges /\ changes' = changes + 1
    /\ \/ /\ \E e \in DOMAIN world :
                world' = [x \in DOMAIN world \ {e} |-> world[x]]
          /\ UNCHANGED listed
       \/ listed' \in Lists \ {listed} /\ UNCHANGED world
    /\ UNCHANGED <<cache, connected, job, answer, requests>>

Begin(r) ==
    /\ job = Idle /\ requests < MaxRequests /\ requests' = requests + 1
    /\ job' = [at |-> "build", ask |-> r]
    /\ UNCHANGED <<world, listed, cache, connected, answer, changes>>

Return(a) == job' = Idle /\ answer' = a

Failed == [kind |-> "error"]

(* The names of a request that have to be resolved. *)
Named(r) ==
    IF r.kind \in {"query", "entities"}
    THEN ({r.filter.with} \cup
          IF r.filter.where = None THEN {} ELSE {r.filter.where.name}) \ {None}
    ELSE IF r.kind \in {"get", "insert"} THEN {r.name} ELSE {}

NeedsTypes(r) == cache = <<>> /\ (Named(r) # {} \/ r.kind = "get_all")

(* A name that is listed stands for itself; another for the first listed  *)
(* type that ends with it; one nothing ends with is passed on as it is.   *)
(* With no list every name is passed on.                                  *)
Resolved(name, known) ==
    LET fit == SelectSeq(known, LAMBDA t : EndsIn(t, name))
    IN IF name \in Range(known) \/ fit = <<>> THEN name ELSE Head(fit)

(* get_component_types while a request is built or converted: the list is *)
(* fetched and kept; when that fails names stay as they are, and a get of *)
(* all components fails.                                                  *)
TypesFetched(stage) ==
    /\ job.at = stage /\ NeedsTypes(job.ask)
    /\ cache' = listed
    /\ UNCHANGED <<world, listed, connected, job, answer, changes, requests>>

Execute(r, known) ==
    LET with == IF r.filter.with = None THEN None
                ELSE Resolved(r.filter.with, known)
    IN {e \in DOMAIN world : with # None => with \in DOMAIN world[e]}

(* world.query: a query asks for all components, a list for none. *)
Rows(r, known) ==
    [e \in Execute(r, known) |->
        IF r.kind = "query" THEN world[e] ELSE <<>>]

(* The request is on its way with the names as they are known now. *)
Built ==
    /\ job.at = "build" /\ job.ask.kind # "screenshot"
    /\ \/ ~NeedsTypes(job.ask) /\ UNCHANGED connected
       \/ NeedsTypes(job.ask) /\ job.ask.kind # "get_all"
          /\ connected' \in {connected, FALSE}
    /\ job' = [at |-> "post", ask |-> job.ask, known |-> cache]
    /\ UNCHANGED <<world, listed, cache, answer, changes, requests>>

NotBuilt ==
    /\ job.at = "build"
    /\ \/ job.ask.kind = "screenshot" /\ UNCHANGED connected
       \/ NeedsTypes(job.ask) /\ job.ask.kind = "get_all"
          /\ connected' \in {connected, FALSE}
    /\ Return(Failed)
    /\ UNCHANGED <<world, listed, cache, changes, requests>>

(* The game executes the request; its result is on its way back.          *)
Changed(r, known) ==
    LET n == IF r.kind = "insert" THEN Resolved(r.name, known) ELSE None
    IN IF r.kind = "insert" /\ r.entity \in DOMAIN world /\ n \in Types
       THEN {[world EXCEPT ![r.entity] =
                [t \in DOMAIN @ \cup {n} |-> IF t = n THEN v ELSE @[t]]] :
               v \in Values}
       ELSE IF r.kind = "destroy"
       THEN {[x \in DOMAIN world \ {r.entity} |-> world[x]]}
       ELSE {world}

Result(r, known) ==
    IF r.kind \in {"query", "entities"} THEN Rows(r, known)
    ELSE IF r.kind = "components" THEN listed
    ELSE IF r.kind = "get" /\ r.entity \in DOMAIN world
    THEN {t \in DOMAIN world[r.entity] : t = Resolved(r.name, known)}
    ELSE IF r.kind = "get_all" /\ r.entity \in DOMAIN world
    THEN DOMAIN world[r.entity] \cap Range(known)
    ELSE None

Executed ==
    /\ job.at = "post"
    /\ world' \in Changed(job.ask, job.known)
    /\ job' = [at |-> "convert", ask |-> job.ask, known |-> job.known,
               result |-> Result(job.ask, job.known)]
    /\ UNCHANGED <<listed, cache, connected, answer, changes, requests>>

(* A timeout leaves connected alone, other transport errors clear it; the *)
(* game may have executed the request.                                    *)
PostFails ==
    /\ job.at = "post"
    /\ world' \in Changed(job.ask, job.known) \cup {world}
    /\ connected' \in {connected, FALSE} /\ Return(Failed)
    /\ UNCHANGED <<listed, cache, changes, requests>>

(* A JSON-RPC error is an answer and does not touch connected. *)
GameRefuses ==
    /\ job.at = "post" /\ Return([kind |-> "refused"])
    /\ UNCHANGED <<world, listed, cache, connected, changes, requests>>

Passes(row, where, known) ==
    LET n == Resolved(where.name, known)
    IN n \in DOMAIN row /\ row[n] = where.value

Where(rows, r, known) ==
    IF r.filter.where = None THEN DOMAIN rows
    ELSE {e \in DOMAIN rows : Passes(rows[e], r.filter.where, known)}

(* The first so many entities, in the order the game gave them. *)
Truncated(S, r) ==
    IF r.kind = "query" /\ r.limit # None /\ Cardinality(S) > r.limit
    THEN {T \in SUBSET S : Cardinality(T) = r.limit} ELSE {S}

(* Mutant: the rows are truncated before the where clause is applied. *)
Found_truncated_first(rows, r, known) ==
    {Where(rows, r, known) \cap T : T \in Truncated(DOMAIN rows, r)}

(* The entities a query answers with. *)
Found(rows, r, known) == Truncated(Where(rows, r, known), r)

(* The names are resolved again to convert the result. *)
Converted ==
    LET r == job.ask
    IN /\ job.at = "convert"
       /\ connected' = TRUE
       /\ cache' = IF r.kind = "components" THEN job.result ELSE cache
       /\ IF r.kind \in {"query", "entities"}
          THEN \E S \in Found(job.result, r, cache) :
                 Return([kind |-> "entities", ask |-> r, found |-> S,
                         rows |-> job.result, known |-> cache])
          ELSE IF r.kind \in {"get", "get_all"} /\ job.result = None
          THEN Return(Failed)
          ELSE Return([kind |-> "done"])
       /\ UNCHANGED <<world, listed, changes, requests>>

Next ==
    \/ GameGoesOn
    \/ \E r \in Asks : Begin(r)
    \/ \E stage \in {"build", "convert"} : TypesFetched(stage)
    \/ Built \/ NotBuilt \/ Executed \/ PostFails \/ GameRefuses \/ Converted

Spec == Init /\ [][Next]_vars

(***************************************************************************)
(* Properties                                                              *)
(***************************************************************************)

(* An answer of a query is short only when there is no more to find: it    *)
(* holds entities that satisfy the whole filter, as many as the limit      *)
(* allows, and all of them when it is below the limit.                     *)
AnswersAreWhole ==
    answer.kind = "entities" =>
        LET fit == Where(answer.rows, answer.ask, answer.known)
        IN /\ answer.found \subseteq fit
           /\ answer.found # fit =>
                answer.ask.kind = "query" /\ answer.ask.limit # None
                /\ Cardinality(answer.found) = answer.ask.limit

(* brp_messages.rs: "List all entities (optionally filtered)".  While the  *)
(* game does not change, every entity that satisfies the where clause, by  *)
(* the type its name stands for, is listed.                                *)
ListsMatching ==
    (answer.kind = "entities" /\ answer.ask.kind = "entities"
     /\ changes = 0 /\ answer.ask.filter.where # None
     /\ answer.ask.filter.with = None /\ answer.known # <<>>)
        => \A e \in DOMAIN world :
              Passes(world[e], answer.ask.filter.where, answer.known)
                 => e \in answer.found

=============================================================================
