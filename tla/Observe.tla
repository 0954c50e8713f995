------------------------------ MODULE Observe -------------------------------
(* The observe tool (tools/observe.rs) with its state differ (state_diff.rs)   *)
(* and its cache of answers (query_parser.rs).  The game's world says for each *)
(* entity that is there the values of the components it has; a number stands   *)
(* for every component value, and the query asks for all the entities.         *)
EXTENDS Integers, Sequences, FiniteSets

CONSTANTS
  Callers,      \* tasks that call the tool
  Entities, Components,
  Values,       \* the values of a component
  Epsilon,      \* fuzzy_config: values that close are equal
  Immutable,    \* game_rules.immutable_components
  MaxRate,      \* game_rules: the largest change in a tick
  MinValue, MaxValue, \* game_rules.expected_value_ranges
  Ttl,          \* ticks that a cached answer is good for
  MaxHistory,   \* max_history_size
  MaxTime, MaxSnapshots, \* bounds on the clock and on generation_counter
  None

(* A function on some of the keys.                                             *)
Partial(keys, range) == UNION {[k -> range] : k \in SUBSET keys}
Worlds == Partial(Entities, Partial(Components, Values))
Snapshots == [generation : Nat, at : Nat, world : Worlds \cup {None}]

ObserveAssumption ==
  MaxHistory \in Nat \ {0} /\ Values \subseteq Int /\ Epsilon \in Nat /\ None \notin Snapshots

VARIABLES
  now, world, connected, \* the clock and the game
  cache,        \* the cached answer: [at, world], or None
  last_snapshot,
  history,      \* snapshots_history
  generation,   \* generation_counter
  call,         \* [caller -> [at, diff, target, world]]
  answer        \* the last diff: [before, after, changes, last, target]

gameVars == <<now, world, connected>>
diffVars == <<last_snapshot, history, generation>>
observeVars == <<gameVars, cache, diffVars, call, answer>>

Idle == [at |-> "idle", diff |-> FALSE, target |-> 0, world |-> None]

Init ==
  /\ now = 0 /\ world \in Worlds /\ connected = TRUE /\ cache = None
  /\ last_snapshot = None /\ history = << >> /\ generation = 0
  /\ call = [c \in Callers |-> Idle] /\ answer = None

-----------------------------------------------------------------------------
(* The differ: what changed from one snapshot to another.                      *)
Abs(n) == IF n < 0 THEN -n ELSE n
fuzzy_eq(a, b) == Abs(a - b) <= Epsilon

Change(type, e, c, old, new) ==
  [type |-> type, entity |-> e, component |-> c, old |-> old, new |-> new]

EntityChanges(before, after) ==
  {Change("EntityAdded", e, None, None, None) : e \in DOMAIN after \ DOMAIN before}
  \cup {Change("EntityRemoved", e, None, None, None) : e \in DOMAIN before \ DOMAIN after}

(* Mutant: a component that is gone is not reported.                           *)
diff_entity_added_only(e, b, a) ==
  {Change("ComponentAdded", e, c, None, a[c]) : c \in DOMAIN a \ DOMAIN b}
  \cup {Change("ComponentModified", e, c, b[c], a[c]) :
          c \in {c \in DOMAIN a \cap DOMAIN b : ~fuzzy_eq(b[c], a[c])}}
diff_entity(e, b, a) ==
  {Change("ComponentAdded", e, c, None, a[c]) : c \in DOMAIN a \ DOMAIN b}
  \cup {Change("ComponentRemoved", e, c, b[c], None) : c \in DOMAIN b \ DOMAIN a}
  \cup {Change("ComponentModified", e, c, b[c], a[c]) :
          c \in {c \in DOMAIN a \cap DOMAIN b : ~fuzzy_eq(b[c], a[c])}}

(* Only a modified component has a rate, and only when time has passed.        *)
is_change_unexpected(change, elapsed) ==
  \/ change.component \in Immutable
  \/ /\ change.type = "ComponentModified" /\ elapsed > 0
     /\ Abs(change.new - change.old) > MaxRate * elapsed
  \/ change.new # None /\ ~(change.new \in MinValue..MaxValue)

diff_snapshots(before, after) ==
  LET both == DOMAIN before.world \cap DOMAIN after.world
      changes == EntityChanges(before.world, after.world) \cup
                 UNION {diff_entity(e, before.world[e], after.world[e]) : e \in both}
  IN  {[change |-> c, unexpected |-> is_change_unexpected(c, after.at - before.at)] :
         c \in changes}

from_changes(changes) ==
  LET types == {"EntityAdded", "EntityRemoved", "ComponentAdded", "ComponentRemoved",
                "ComponentModified"}
  IN  [type \in types |-> Cardinality({c \in changes : c.change.type = type})]

-----------------------------------------------------------------------------
(* The game goes on; it may go away.                                           *)
GameMoves ==
  /\ now < MaxTime /\ now' = now + 1 /\ world' \in Worlds /\ connected' \in BOOLEAN
  /\ UNCHANGED <<cache, diffVars, call, answer>>

(* diff_target "clear" forgets the snapshots.                                  *)
clear_history(c) ==
  /\ call[c].at = "idle" /\ history' = << >> /\ last_snapshot' = None
  /\ UNCHANGED <<gameVars, cache, generation, call, answer>>

(* A call without diff is answered from the cache while the answer there is    *)
(* good, one that is too old is removed.  A query that does not parse and one  *)
(* without a connection end with an error.                                     *)
Fresh == cache # None /\ now - cache.at <= Ttl

Observes(c, diff, target) ==
  /\ call[c].at = "idle" /\ cache' = IF diff \/ Fresh THEN cache ELSE None
  /\ \/ ~diff /\ Fresh /\ UNCHANGED call
     \/ /\ diff \/ ~Fresh
        /\ call' = [call EXCEPT ![c] = [at |-> "send", diff |-> diff, target |-> target,
                                        world |-> None]]
  /\ UNCHANGED <<gameVars, diffVars, answer>>

Request(c) ==
  /\ call[c].at = "send"
  /\ \/ connected /\ call' = [call EXCEPT ![c].at = "got", ![c].world = world]
     \/ call' = [call EXCEPT ![c] = Idle]
  /\ UNCHANGED <<gameVars, cache, diffVars, answer>>

(* Mutant: the newest snapshot goes when there are too many.                   *)
Newest_first(h, s) == IF Len(h) + 1 > MaxHistory THEN h ELSE Append(h, s)
Newest(h, s) == IF Len(h) + 1 > MaxHistory THEN Append(Tail(h), s) ELSE Append(h, s)

(* The snapshot is added first and compared then: with the one that was asked  *)
(* for, counted from the oldest that is kept, or with the last.                *)
Diff(c) ==
  LET snapshot == [generation |-> generation + 1, at |-> now, world |-> call[c].world]
      kept == Newest(history, snapshot)
      before == IF call[c].target = 0 THEN last_snapshot'
                ELSE IF call[c].target <= Len(kept) THEN kept[call[c].target] ELSE None
  IN  /\ call[c].at = "got" /\ call[c].diff /\ generation < MaxSnapshots
      /\ generation' = generation + 1 /\ history' = kept /\ last_snapshot' = snapshot
      /\ call' = [call EXCEPT ![c] = Idle]
      /\ answer' =
           IF before = None THEN None
           ELSE [before |-> before, after |-> snapshot, last |-> last_snapshot,
                 target |-> call[c].target, changes |-> diff_snapshots(before, snapshot)]
      /\ UNCHANGED <<gameVars, cache>>

(* The entry is as old as the moment it is stored, not as its answer.          *)
Stores(c) ==
  /\ call[c].at = "got" /\ ~call[c].diff
  /\ cache' = [at |-> now, world |-> call[c].world] /\ call' = [call EXCEPT ![c] = Idle]
  /\ UNCHANGED <<gameVars, diffVars, answer>>

(* Clearing the cache replaces all of the state, the snapshots included.       *)
clear_cache ==
  /\ cache' = None /\ last_snapshot' = None /\ history' = << >> /\ generation' = 0
  /\ UNCHANGED <<gameVars, call, answer>>

Next ==
  \/ GameMoves \/ clear_cache
  \/ \E c \in Callers : \/ clear_history(c) \/ Request(c) \/ Diff(c) \/ Stores(c)
                        \/ \E diff \in BOOLEAN, t \in 0..MaxHistory : Observes(c, diff, t)

Spec == Init /\ [][Next]_observeVars

-----------------------------------------------------------------------------
TypeOK ==
  /\ world \in Worlds /\ Len(history) <= MaxHistory /\ generation \in 0..MaxSnapshots
  /\ \A c \in Callers : call[c].at \in {"idle", "send", "got"}

(* The snapshots that are kept are the latest in the order they were taken,    *)
(* and the last is one of them, whatever calls overlapped.                     *)
HistoryIsLatest ==
  /\ last_snapshot = None <=> history = << >>
  /\ history # << >> => history[Len(history)] = last_snapshot
  /\ \A i, j \in 1..Len(history) : i < j =>
       history[i].generation < history[j].generation /\ history[i].at <= history[j].at

(* A diff is empty exactly when the two snapshots have the same entities with  *)
(* the same components, and values that are equal up to the tolerance.         *)
SameUpToTolerance(v, w) ==
  /\ DOMAIN v = DOMAIN w
  /\ \A e \in DOMAIN v : /\ DOMAIN v[e] = DOMAIN w[e]
                         /\ \A k \in DOMAIN v[e] : fuzzy_eq(v[e][k], w[e][k])
DiffIsComplete ==
  answer # None =>
    (answer.changes = {} <=> SameUpToTolerance(answer.before.world, answer.after.world))

(* docs/tools/observe.md:203: "When `diff: true` is enabled, only changes      *)
(* since the last observation are shown": the diff is against the snapshot     *)
(* that was the last when the call came to compare.                            *)
ChangesSinceLast ==
  answer # None => (answer.target = 0 /\ answer.last # None => answer.before = answer.last)
=============================================================================
