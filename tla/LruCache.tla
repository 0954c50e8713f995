------------------------------ MODULE LruCache ------------------------------
(***************************************************************************)
(* What the command cache (src/command_cache.rs, "Command result cache     *)
(* with LRU eviction and TTL support") promises: of the cached keys, only  *)
(* the least recently used are evicted, and only when the cache is full.   *)
(***************************************************************************)
EXTENDS Naturals, FiniteSets

CONSTANTS
  Keys,       \* cache keys
  MaxEntries  \* config.max_entries

VARIABLES
  cached,  \* the cached keys
  newer    \* the pairs of them of which the first was used after the second

Init == cached = {} /\ newer = {}

(* Of what is kept and k, k is the last one used.                          *)
Used(k, kept) ==
  /\ cached' = kept \cup {k}
  /\ newer' = {<<k, j>> : j \in kept \ {k}} \cup
                {p \in newer : {p[1], p[2]} \subseteq kept \ {k}}

Hit(k) == k \in cached /\ Used(k, cached)

(* Storing k evicts nothing that was used after something that stays.      *)
Store(k) ==
  \E kept \in SUBSET cached :
    /\ \A p \in newer : p[2] \in kept => p[1] \in kept
    /\ kept # cached => Cardinality(cached) >= MaxEntries
    /\ Used(k, kept)

(* Entries expire, are invalidated or cleared.                             *)
Remove(ks) ==
  /\ cached' = cached \ ks
  /\ newer' = {p \in newer : {p[1], p[2]} \cap ks = {}}

Next == (\E k \in Keys : Hit(k) \/ Store(k)) \/ (\E ks \in SUBSET Keys : Remove(ks))

Spec == Init /\ [][Next]_<<cached, newer>>
=============================================================================
