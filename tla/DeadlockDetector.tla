-------------------------- MODULE DeadlockDetector --------------------------
(***************************************************************************)
(* The deadlock detector of debug builds (deadlock_detector.rs): threads    *)
(* take tracked read-write locks, and the detector keeps, under a mutex of  *)
(* its own, which thread holds which lock and the graph of the locks that   *)
(* were held while another one was waited for.  A guard that is dropped     *)
(* tells the detector nothing: only the drop of the whole TrackedRwLock     *)
(* does, so a thread is believed to hold every lock it ever took.           *)
(***************************************************************************)
EXTENDS Naturals, Sequences, FiniteSets

CONSTANTS
    Threads,   \* the threads that take tracked locks
    Locks,     \* the tracked locks (one LockId each)
    Modes,     \* how they are taken: a subset of {"read", "write"}
    MaxOps,    \* bound: lock attempts of one behaviour
    None       \* no lock

DetectorAssumption ==
    Modes \subseteq {"read", "write"} /\ MaxOps \in Nat /\ None \notin Locks

VARIABLES
    held,        \* held_locks: the locks each thread acquired, as recorded
    graph,       \* dependency_graph: pairs <<held, waited for>>
    detections,  \* potential deadlocks reported
    wants,       \* the lock each thread waits for or has just got, and how
    guards,      \* the guards each thread really holds: <<lock, mode>>
    got,         \* whether a thread has the lock it wants, unregistered
    reported,    \* history: whether the thread's last attempt was reported
    dropped,     \* the TrackedRwLocks that are gone
    ops          \* lock attempts so far

vars == <<held, graph, detections, wants, guards, got, reported, dropped, ops>>

TypeOK ==
    /\ held \in [Threads -> Seq(Locks)]
    /\ graph \subseteq Locks \X Locks
    /\ detections \in 0..MaxOps
    /\ wants \in [Threads -> (Locks \X Modes) \cup {<<>>}]
    /\ guards \in [Threads -> SUBSET (Locks \X Modes)]
    /\ got \in [Threads -> BOOLEAN]
    /\ reported \in [Threads -> BOOLEAN]
    /\ dropped \subseteq Locks
    /\ ops \in 0..MaxOps

Init ==
    /\ held = [t \in Threads |-> <<>>]
    /\ graph = {}
    /\ detections = 0
    /\ wants = [t \in Threads |-> <<>>]
    /\ guards = [t \in Threads |-> {}]
    /\ got = [t \in Threads |-> FALSE]
    /\ reported = [t \in Threads |-> FALSE]
    /\ dropped = {}
    /\ ops = 0

(* The locks that edges lead to from a lock, with that lock: the least set  *)
(* that holds it and what an edge from the set leads to.                    *)
Reachable(g, start) ==
    LET Closed(R) == start \in R /\ \A e \in g : e[1] \in R => e[2] \in R
    IN {l \in Locks : \A R \in SUBSET Locks : Closed(R) => l \in R}

(***************************************************************************)
(* The depth-first walk from a lock with one set of visited locks: it       *)
(* answers true when it pops a lock it has seen, that is when two edges it  *)
(* follows lead to one lock, or one edge leads back to the first.           *)
(***************************************************************************)
has_cycle_from(g, start) ==
    LET R == Reachable(g, start)
        Into(l) == {e \in g : e[1] \in R /\ e[2] = l}
    IN Into(start) # {} \/ \E l \in R : Cardinality(Into(l)) > 1

(***************************************************************************)
(* One edge for each lock recorded as held, in order, up to the first one   *)
(* after which the walk from the wanted lock sees a lock twice.             *)
(***************************************************************************)
EdgesUpTo(t, l, n) == {<<held[t][i], l>> : i \in 1..n}

(* Mutant: the edges of the attempt are added after the check. *)
Reports_late(t, l, n) == has_cycle_from(graph \cup EdgesUpTo(t, l, n - 1), l)

Reports(t, l, n) == has_cycle_from(graph \cup EdgesUpTo(t, l, n), l)

(* read and write: register_lock_attempt, before the lock itself is taken. *)
register_lock_attempt(t, l, m) ==
    /\ ops < MaxOps /\ wants[t] = <<>> /\ l \notin dropped
    /\ ops' = ops + 1
    /\ wants' = [wants EXCEPT ![t] = <<l, m>>]
    /\ LET hits == {n \in DOMAIN held[t] : Reports(t, l, n)}
       IN IF hits = {}
          THEN /\ graph' = graph \cup EdgesUpTo(t, l, Len(held[t]))
               /\ reported' = [reported EXCEPT ![t] = FALSE]
               /\ UNCHANGED detections
          ELSE /\ graph' = graph \cup
                      EdgesUpTo(t, l, CHOOSE n \in hits : \A k \in hits : n <= k)
               /\ detections' = detections + 1
               /\ reported' = [reported EXCEPT ![t] = TRUE]
    /\ UNCHANGED <<held, guards, got, dropped>>

(* Whether the guards of u keep t from the lock it wants. *)
Blocks(u, t) ==
    /\ wants[t] # <<>> /\ ~got[t]
    /\ \E g \in guards[u] :
          g[1] = wants[t][1] /\ (g[2] = "write" \/ wants[t][2] = "write")

(* The inner std RwLock is granted. *)
Granted(t) ==
    /\ wants[t] # <<>> /\ ~got[t]
    /\ ~\E u \in Threads : Blocks(u, t)
    /\ got' = [got EXCEPT ![t] = TRUE]
    /\ guards' = [guards EXCEPT ![t] = @ \cup {wants[t]}]
    /\ UNCHANGED <<held, graph, detections, wants, reported, dropped, ops>>

register_lock_acquired(t) ==
    /\ got[t]
    /\ held' = [held EXCEPT ![t] = Append(@, wants[t][1])]
    /\ wants' = [wants EXCEPT ![t] = <<>>]
    /\ got' = [got EXCEPT ![t] = FALSE]
    /\ UNCHANGED <<graph, detections, guards, reported, dropped, ops>>

(* The caller's guard is dropped; nothing is registered. *)
GuardDropped(t) ==
    /\ wants[t] = <<>>
    /\ \E g \in guards[t] : guards' = [guards EXCEPT ![t] = @ \ {g}]
    /\ UNCHANGED <<held, graph, detections, wants, got, reported, dropped, ops>>

(* locks.retain: the sequence without a lock.                               *)
Without(s, l) ==
    LET kept[n \in 0..Len(s)] ==
          IF n = 0 THEN <<>>
          ELSE IF s[n] = l THEN kept[n - 1] ELSE Append(kept[n - 1], s[n])
    IN kept[Len(s)]

(***************************************************************************)
(* A thread drops the TrackedRwLock, which no guard may outlive: the lock   *)
(* leaves the record of that thread, and of no other one.                   *)
(***************************************************************************)
register_lock_released(t, l) ==
    /\ l \notin dropped /\ wants[t] = <<>>
    /\ \A u \in Threads : wants[u] # <<>> => wants[u][1] # l
    /\ \A u \in Threads : ~\E g \in guards[u] : g[1] = l
    /\ dropped' = dropped \cup {l}
    /\ held' = [held EXCEPT ![t] = Without(@, l)]
    /\ UNCHANGED <<graph, detections, wants, guards, got, reported, ops>>

Next ==
    \E t \in Threads :
        \/ \E l \in Locks, m \in Modes : register_lock_attempt(t, l, m)
        \/ Granted(t) \/ register_lock_acquired(t) \/ GuardDropped(t)
        \/ \E l \in Locks : register_lock_released(t, l)

Spec == Init /\ [][Next]_vars

(***************************************************************************)
(* Threads that wait for each other in a circle: whatever order the         *)
(* attempts came in, one of them was reported when it made its attempt.     *)
(***************************************************************************)
Deadlocked(S) == S # {} /\ \A t \in S : \E u \in S : Blocks(u, t)

DeadlocksReported ==
    \A S \in SUBSET Threads : Deadlocked(S) => \E t \in S : reported[t]

(***************************************************************************)
(* What the comment over has_cycle_from says: an attempt is reported only   *)
(* when the graph has a cycle.  Locks that every thread takes in one order  *)
(* refute it.                                                               *)
(***************************************************************************)
ReportsAreCycles ==
    (\E t \in Threads : reported[t]) =>
        \E e \in graph : e[1] \in Reachable(graph, e[2])
=============================================================================
