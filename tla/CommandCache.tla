---------------------------- MODULE CommandCache ----------------------------
(***************************************************************************)
(* Tool calls and the cache of their results                               *)
(* (src/mcp_server.rs, handle_tool_call; src/command_cache.rs).            *)
(*                                                                         *)
(* A call looks its result up, runs the tool if there is none, and stores  *)
(* a result that succeeded.  Nothing is held while the tool runs, so other *)
(* calls, invalidations and the cleanup task come in between.  Every       *)
(* method of the cache has the write lock of the cache from its first      *)
(* access to its last and takes the locks of the statistics and of         *)
(* access_order in that order, so each is one step.                        *)
(*                                                                         *)
(* Results are abstracted to their sizes.  Entries may have TTLs of their  *)
(* own (put_with_ttl), so they expire in any order.                        *)
(***************************************************************************)
EXTENDS Integers, Sequences, FiniteSets, Functions

CONSTANTS
  Callers,     \* tasks that handle tool calls
  Tools,       \* names of tools
  Args,        \* arguments, up to their hash
  MaxEntries,  \* config.max_entries
  MaxSize,     \* config.max_response_size
  MaxRuns      \* runs of tools (bounds the run)

SizesAssumption == MaxEntries \in Nat \ {0} /\ MaxSize \in Nat \ {0}

VARIABLES
  cache,    \* the entries, by key
  order,    \* access_order
  entries,  \* stats.total_entries
  bytes,    \* stats.total_size_bytes
  left,     \* removals that left their key in access_order (history)
  call,     \* the call each task is in
  runs      \* runs of tools so far

store == <<cache, order, entries, bytes, left>>
vars == <<store, call, runs>>

Keys == [tool : Tools, arg : Args]

(* mcp_server.rs: the tools whose results are cached, and their tags.      *)
is_tool_cacheable(t) ==
  t \in {"observe", "health_check", "resource_metrics", "diagnostic_report", "anomaly", "debug"}

get_cache_tags_for_tool(t) ==
  CASE t = "observe"           -> {"entity_data", "game_state"}
    [] t = "resource_metrics"  -> {"performance_data"}
    [] t = "health_check"      -> {"system_health"}
    [] t = "diagnostic_report" -> {"diagnostics"}
    [] t = "anomaly"           -> {"anomaly_data", "performance_data"}
    [] t = "debug"             -> {"debug_data"}
    [] OTHER                   -> {}
TagNames == UNION {get_cache_tags_for_tool(t) : t \in Tools}

NoKey == [tool |-> "none", arg |-> "none"]
Idle == [at |-> "idle", key |-> NoKey, size |-> 0]

Init ==
  /\ cache = <<>>
  /\ order = <<>>
  /\ entries = 0 /\ bytes = 0 /\ left = 0
  /\ call = [c \in Callers |-> Idle]
  /\ runs = 0

Cached == DOMAIN cache
SatSub(a, b) == IF a < b THEN 0 ELSE a - b
SizeOf(f, ks) == SumFunctionOnSet([k \in DOMAIN f |-> f[k].size], ks)

(* The entries ks leave the cache and the statistics.                      *)
Drop(ks) ==
  /\ cache' = [k \in Cached \ ks |-> cache[k]]
  /\ entries' = SatSub(entries, Cardinality(ks))
  /\ bytes' = SatSub(bytes, SizeOf(cache, ks))

(* The sequence without the keys ks.                                       *)
Without(s, ks) ==
  LET kept[n \in 0..Len(s)] ==
        IF n = 0 THEN <<>>
        ELSE IF s[n] \in ks THEN kept[n - 1] ELSE Append(kept[n - 1], s[n])
  IN kept[Len(s)]

(* Mutant: the key is pushed to the front and its old position is kept.    *)
Touched_twice(s, k) == <<k>> \o s

(* update_access_order: the key moves to the front.                        *)
Touched(s, k) == <<k>> \o Without(s, {k})

-----------------------------------------------------------------------------
(* get: a hit moves the key to the front; an expired entry is removed and  *)
(* its key stays in access_order.                                          *)
get(k) ==
  \/ /\ k \in Cached /\ ~cache[k].expired
     /\ order' = Touched(order, k)
     /\ UNCHANGED <<cache, entries, bytes, left>>
  \/ /\ k \in Cached /\ cache[k].expired
     /\ Drop({k})
     /\ left' = left + 1
     /\ UNCHANGED order
  \/ k \notin Cached /\ UNCHANGED store

(* Mutant: the first keys of access_order are taken.                       *)
evicted_front ==
  LET excess == SatSub(Cardinality(Cached) + 1, MaxEntries) IN
  IF Cardinality(Cached) < MaxEntries
    THEN {}
    ELSE Cached \cap {order[i] : i \in {j \in DOMAIN order : j <= excess}}

(* Mutant: the cache counts as full one entry too late.                    *)
evicted_late ==
  LET excess == SatSub(Cardinality(Cached) + 1, MaxEntries) IN
  IF Cardinality(Cached) <= MaxEntries
    THEN {}
    ELSE Cached \cap {order[i] : i \in {j \in DOMAIN order : j > Len(order) - excess}}

(* evict_lru_entries: the entries among the last keys of access_order, as  *)
(* many keys as the cache has entries too many; the keys stay there.       *)
evicted ==
  LET excess == SatSub(Cardinality(Cached) + 1, MaxEntries) IN
  IF Cardinality(Cached) < MaxEntries
    THEN {}
    ELSE Cached \cap {order[i] : i \in {j \in DOMAIN order : j > Len(order) - excess}}

(* Mutant: a replaced entry's size is not taken off.                       *)
put_adds_size(k, size) ==
  IF size > MaxSize THEN UNCHANGED store ELSE
  LET out == evicted  kept == Cached \ out IN
  /\ cache' = [j \in kept \cup {k} |->
                 IF j = k THEN [size |-> size, expired |-> FALSE] ELSE cache[j]]
  /\ entries' = SatSub(entries, Cardinality(out)) + (IF k \in kept THEN 0 ELSE 1)
  /\ bytes' = SatSub(bytes, SizeOf(cache, out)) + size
  /\ left' = left + Cardinality(out)
  /\ order' = Touched(order, k)

(* put: evict if full, insert or replace, move the key to the front.  A    *)
(* response that is too large is not stored.                               *)
put(k, size) ==
  IF size > MaxSize THEN UNCHANGED store ELSE
  LET out == evicted  kept == Cached \ out IN
  /\ cache' = [j \in kept \cup {k} |->
                 IF j = k THEN [size |-> size, expired |-> FALSE] ELSE cache[j]]
  /\ entries' = SatSub(entries, Cardinality(out)) + (IF k \in kept THEN 0 ELSE 1)
  /\ bytes' = SatSub(bytes, SizeOf(cache, out \cup ({k} \cap kept))) + size
  /\ left' = left + Cardinality(out)
  /\ order' = Touched(order, k)

(* Entries leave together with their keys.                                 *)
Purge(ks) ==
  /\ Drop(ks)
  /\ order' = Without(order, ks)
  /\ UNCHANGED <<left, call, runs>>

cleanup == Purge({k \in Cached : cache[k].expired})
invalidate_by_tag(tag) == Purge({k \in Cached : tag \in get_cache_tags_for_tool(k.tool)})

clear ==
  /\ cache' = <<>> /\ order' = <<>>
  /\ entries' = 0 /\ bytes' = 0
  /\ UNCHANGED <<left, call, runs>>

Expire(k) ==
  /\ k \in Cached /\ ~cache[k].expired
  /\ cache' = [cache EXCEPT ![k].expired = TRUE]
  /\ UNCHANGED <<order, entries, bytes, left, call, runs>>

-----------------------------------------------------------------------------
(* handle_tool_call: look a cacheable call up; a hit is the answer.        *)
handle_tool_call(c, k) ==
  /\ call[c] = Idle
  /\ runs < MaxRuns
  /\ IF is_tool_cacheable(k.tool) THEN get(k) ELSE UNCHANGED store
  /\ IF is_tool_cacheable(k.tool) /\ k \in Cached /\ ~cache[k].expired
       THEN UNCHANGED <<call, runs>>
       ELSE /\ call' = [call EXCEPT ![c] = [at |-> "run", key |-> k, size |-> 0]]
            /\ runs' = runs + 1

(* The tool succeeds with a response of some size, or fails.               *)
Run(c, size) ==
  /\ call[c].at = "run"
  /\ call' = [call EXCEPT ![c] =
       IF is_tool_cacheable(@.key.tool)
         THEN [at |-> "store", key |-> @.key, size |-> size] ELSE Idle]
  /\ UNCHANGED <<store, runs>>

RunFails(c) ==
  /\ call[c].at = "run"
  /\ call' = [call EXCEPT ![c] = Idle]
  /\ UNCHANGED <<store, runs>>

StoreResult(c) ==
  /\ call[c].at = "store"
  /\ put(call[c].key, call[c].size)
  /\ call' = [call EXCEPT ![c] = Idle]
  /\ UNCHANGED runs

Next ==
  \/ \E c \in Callers :
       \/ \E k \in Keys : handle_tool_call(c, k)
       \/ \E size \in 1..MaxSize + 1 : Run(c, size)
       \/ RunFails(c)
       \/ StoreResult(c)
  \/ \E k \in Keys : Expire(k)
  \/ \E tag \in TagNames : invalidate_by_tag(tag)
  \/ cleanup
  \/ clear

Spec == Init /\ [][Next]_vars

-----------------------------------------------------------------------------
Entry == [size : 1..MaxSize, expired : BOOLEAN]
TypeOK ==
  /\ Cached \subseteq Keys
  /\ \A k \in Cached : cache[k] \in Entry
  /\ order \in Seq(Keys)
  /\ entries \in Nat /\ bytes \in Nat /\ left \in Nat
  /\ \A c \in Callers :
       /\ call[c].at \in {"idle", "run", "store"}
       /\ call[c].key \in Keys \cup {NoKey}
       /\ call[c].size \in 0..MaxSize + 1

(* Every entry can be evicted: its key is in access_order, once, whatever  *)
(* has been evicted, expired, invalidated or replaced meanwhile.           *)
OrderTracksCache ==
  /\ IsInjective(order)
  /\ \A k \in Cached : \E i \in DOMAIN order : order[i] = k

(* The statistics are those of the entries: two calls that store the same  *)
(* result, evictions of the key that is stored and expired entries all     *)
(* keep them exact.                                                        *)
StatsExact == entries = Cardinality(Cached) /\ bytes = SizeOf(cache, Cached)

(* The cache outgrows max_entries, because eviction counts keys that an    *)
(* earlier removal has left in access_order; but never by more than there  *)
(* have been such removals.                                                *)
GrowthBounded == Cardinality(Cached) <= MaxEntries + left

(* command_cache.rs:122, "with LRU eviction": what remains in the cache    *)
(* has been used more recently than what was evicted, and nothing is       *)
(* evicted from a cache that is not full.                                  *)
Before(s) == UNION {{<<s[i], s[j]>> : i \in 1..(j - 1)} : j \in DOMAIN s}
Newer == {p \in Before(order) : p[1] \in Cached /\ p[2] \in Cached}
Lru == INSTANCE LruCache WITH cached <- Cached, newer <- Newer
LruSteps == [Lru!Next]_<<Cached, Newer>>
EvictsLru == Lru!Spec
=============================================================================
