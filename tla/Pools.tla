-------------------------------- MODULE Pools --------------------------------
(***************************************************************************)
(* The object pools: ObjectPool (resource_manager.rs), the pools of         *)
(* debugging objects built from it (memory_pools.rs) and the response       *)
(* buffers in three sizes (response_pool.rs).  A task takes an object,      *)
(* fills it, and gives it back in two steps, a look at the size counter     *)
(* and a push under the lock.  A response buffer is given back by its Drop, *)
(* on a thread of its own that asks for the runtime of that new thread.     *)
(***************************************************************************)
EXTENDS Naturals, Sequences, FiniteSets

CONSTANTS
    Tasks,     \* the tasks that use the pools
    GamePools, \* pools of GameDebugPools whose get_ resets the object
    NullPools, \* its pools whose get_ drops the object and makes a new one
    Tiers,     \* the pools of response buffers
    Limit,     \* max_size of every pool
    Sizes,     \* estimated and real sizes of the responses
    TierOf(_), \* the tier for an estimated size
    MaxTakes,  \* bound: objects taken in one behaviour
    WarmUps,   \* bound: warm_up_pools
    WarmCount  \* objects taken and returned by one warm-up

PoolsAssumption ==
    /\ Limit \in Nat /\ MaxTakes \in Nat /\ WarmUps \in Nat /\ WarmCount \in Nat
    /\ Tiers \cap (GamePools \cup NullPools) = {}
    /\ Sizes \subseteq Nat /\ \A s \in Sizes : TierOf(s) \in Tiers

PoolIds == GamePools \cup NullPools \cup Tiers

VARIABLES
    objects,  \* pool -> the pooled objects, "clean" or "dirty", last on top
    current,  \* pool -> current_size, the counter beside the vector
    doing,    \* task -> what it is doing
    takes,    \* objects taken so far
    warmed,   \* warm-ups so far
    counts,   \* tier -> the allocations counted
    stats     \* the statistics: serializations, bytes, savings

vars == <<objects, current, doing, takes, warmed, counts, stats>>

Idle == [at |-> "idle"]

Doings ==
    {Idle}
    \cup [at : {"has", "returning", "pushing"}, pool : PoolIds,
          obj : {"clean", "dirty"}]
    \cup [at : {"writes"}, pool : Tiers, obj : {"clean", "dirty"},
          size : Sizes]

TypeOK ==
    /\ objects \in [PoolIds -> Seq({"clean", "dirty"})]
    /\ current \in [PoolIds -> Nat]
    /\ doing \in [Tasks -> Doings]
    /\ takes \in 0..MaxTakes /\ warmed \in 0..WarmUps
    /\ counts \in [Tiers -> Nat]
    /\ stats \in [runs : Nat, bytes : Nat, saved : Nat]

Init ==
    /\ objects = [p \in PoolIds |-> <<>>]
    /\ current = [p \in PoolIds |-> 0]
    /\ doing = [t \in Tasks |-> Idle]
    /\ takes = 0 /\ warmed = 0
    /\ counts = [p \in Tiers |-> 0]
    /\ stats = [runs |-> 0, bytes |-> 0, saved |-> 0]

(***************************************************************************)
(* ObjectPool::acquire: the last object pushed, or a new one; and           *)
(* ObjectPool::release: nothing when the counter says the pool is full,     *)
(* else a push under the lock if the vector has room by then.               *)
(***************************************************************************)
Top(p) == IF objects[p] = <<>> THEN "clean" ELSE objects[p][Len(objects[p])]

acquire(p) ==
    /\ objects' = [objects EXCEPT ![p] = IF @ = <<>> THEN @ ELSE SubSeq(@, 1, Len(@) - 1)]
    /\ current' = [current EXCEPT ![p] =
                      IF objects[p] = <<>> THEN @ ELSE @ - 1]

(* Mutant: the push trusts the counter that was read before the lock. *)
HasRoom_as_counted(p) == TRUE

HasRoom(p) == Len(objects[p]) < Limit

Pushed(p, obj) ==
    IF HasRoom(p)
    THEN /\ objects' = [objects EXCEPT ![p] = Append(@, obj)]
         /\ current' = [current EXCEPT ![p] = @ + 1]
    ELSE UNCHANGED <<objects, current>>

LooksAtSize(t) ==
    /\ doing[t].at = "returning"
    /\ doing' = [doing EXCEPT ![t] =
                    IF current[doing[t].pool] < Limit
                    THEN [@ EXCEPT !.at = "pushing"] ELSE Idle]
    /\ UNCHANGED <<objects, current, takes, warmed, counts, stats>>

Pushes(t) ==
    /\ doing[t].at = "pushing"
    /\ Pushed(doing[t].pool, doing[t].obj)
    /\ doing' = [doing EXCEPT ![t] = Idle]
    /\ UNCHANGED <<takes, warmed, counts, stats>>

(***************************************************************************)
(* GameDebugPools: the get_ of each pool takes an object and resets it, or  *)
(* drops it and hands out a new one; the return_ releases it as it is.      *)
(***************************************************************************)
(* Mutant: an object is handed out as it was returned. *)
Reset_forgotten(p, obj) == obj

Reset(p, obj) == "clean"

Get(t, p) ==
    /\ doing[t] = Idle /\ takes < MaxTakes
    /\ acquire(p)
    /\ takes' = takes + 1
    /\ doing' = [doing EXCEPT ![t] =
                    [at |-> "has", pool |-> p, obj |-> Reset(p, Top(p))]]
    /\ UNCHANGED <<warmed, counts, stats>>

(* The caller fills the object and returns it. *)
Return(t) ==
    /\ doing[t].at = "has"
    /\ doing' = [doing EXCEPT ![t].at = "returning", ![t].obj = "dirty"]
    /\ UNCHANGED <<objects, current, takes, warmed, counts, stats>>

(* with_pooled!, or PooledGuard::take: the object never comes back. *)
Keep(t) ==
    /\ doing[t].at = "has"
    /\ doing' = [doing EXCEPT ![t] = Idle]
    /\ UNCHANGED <<objects, current, takes, warmed, counts, stats>>

(***************************************************************************)
(* warm_up_pools takes a number of objects of each warmed pool and returns  *)
(* them, which fills an empty pool; one task, nobody else using the pool.   *)
(***************************************************************************)
WarmUp(p) ==
    /\ warmed < WarmUps /\ \A t \in Tasks : doing[t] = Idle
    /\ warmed' = warmed + 1
    /\ LET kept == IF Len(objects[p]) > WarmCount
                   THEN SubSeq(objects[p], 1, Len(objects[p]) - WarmCount)
                   ELSE <<>>
           n == IF Len(kept) + WarmCount > Limit
                THEN Limit - Len(kept) ELSE WarmCount
       IN /\ objects' = [objects EXCEPT ![p] =
                            kept \o [i \in 1..n |-> "clean"]]
          /\ current' = [current EXCEPT ![p] = Len(kept) + n]
    /\ UNCHANGED <<doing, takes, counts, stats>>

(***************************************************************************)
(* ResponsePool::serialize_json: a buffer of the tier for the estimated     *)
(* size, written in one step, the statistics updated under their lock while *)
(* the buffer is held, and the drop of the buffer at the end.               *)
(***************************************************************************)
acquire_buffer(t, est) ==
    /\ doing[t] = Idle /\ takes < MaxTakes
    /\ acquire(TierOf(est))
    /\ takes' = takes + 1
    /\ counts' = [counts EXCEPT ![TierOf(est)] = @ + 1]
    /\ doing' = [doing EXCEPT ![t] =
          [at |-> "writes", pool |-> TierOf(est), obj |-> Top(TierOf(est)),
           size |-> est]]
    /\ UNCHANGED <<warmed, stats>>

serialize_json(t, actual) ==
    /\ doing[t].at = "writes"
    /\ stats' = [runs |-> stats.runs + 1, bytes |-> stats.bytes + actual,
                 saved |-> stats.saved + IF actual < doing[t].size
                                         THEN doing[t].size - actual ELSE 0]
    /\ doing' = [doing EXCEPT ![t] =
          [at |-> "has", pool |-> doing[t].pool, obj |-> "dirty"]]
    /\ UNCHANGED <<objects, current, takes, warmed, counts>>

(***************************************************************************)
(* Drop of PooledResponseBuffer: the buffer is cleared and a new std thread *)
(* asks for the runtime of the current thread.  A new thread has none, so   *)
(* the branch that releases the buffer is never taken.                      *)
(***************************************************************************)
ThreadHasRuntime == FALSE

Dropped(t) ==
    /\ doing[t].at = "has" /\ doing[t].pool \in Tiers
    /\ doing' = [doing EXCEPT ![t] =
          IF ThreadHasRuntime
          THEN [at |-> "returning", pool |-> doing[t].pool, obj |-> "clean"]
          ELSE Idle]
    /\ UNCHANGED <<objects, current, takes, warmed, counts, stats>>

Next ==
    \/ \E t \in Tasks :
          \/ \E p \in GamePools \cup NullPools : Get(t, p)
          \/ (doing[t].at = "has" => doing[t].pool \notin Tiers) /\
             (Return(t) \/ Keep(t))
          \/ LooksAtSize(t) \/ Pushes(t)
          \/ \E est \in Sizes : acquire_buffer(t, est)
          \/ \E actual \in Sizes : serialize_json(t, actual)
          \/ Dropped(t)
    \/ \E p \in GamePools : WarmUp(p)

(* A task that holds an object does not stop with it: tokio runs it on. *)
FairSpec ==
    /\ Init /\ [][Next]_vars
    /\ \A t \in Tasks :
          /\ WF_vars(\E actual \in Sizes : serialize_json(t, actual))
          /\ WF_vars(Dropped(t) \/ LooksAtSize(t) \/ Pushes(t))

(* However many tasks return objects at once, a pool keeps to its limit. *)
PooledWithinLimit == \A p \in PoolIds : Len(objects[p]) <= Limit

(* Nobody is handed what another caller left in an object. *)
HandedOutClean ==
    \A t \in Tasks :
        doing[t].at \in {"has", "writes"} =>
            (doing[t].pool \in Tiers /\ doing[t].at = "has")
                \/ doing[t].obj = "clean"

(***************************************************************************)
(* What the Drop of a response buffer announces: it is cleared before it is *)
(* returned to its pool, so a buffer that was used is pooled later on.      *)
(***************************************************************************)
BuffersComeBack ==
    \A p \in Tiers : counts[p] > 0 ~> objects[p] # <<>>
=============================================================================
