--------------------------- MODULE ConnectionPool ---------------------------
(***************************************************************************)
(* The WebSocket connection pool of the BRP client                         *)
(* (src/connection_pool.rs).                                               *)
(*                                                                         *)
(* get_connection and return_connection take &self and run concurrently    *)
(* with each other and with the cleanup and health-check tasks; start and  *)
(* shutdown take &mut self, so no call is in progress when they run, but   *)
(* the tasks are, and connections may be out with their callers.           *)
(*                                                                         *)
(* A step is what happens between two awaits.  The two tokio mutexes are   *)
(* modelled: the one of available_connections, which is held across health *)
(* checks, and the one of the metrics, which get_connection's error paths  *)
(* try_lock().unwrap().  The metrics that are only ever incremented and    *)
(* read by nobody are left out.                                            *)
(***************************************************************************)
EXTENDS Integers, Sequences, FiniteSets, TLC, SequenceTheorems, FiniteSetTheorems,
        TLAPS

CONSTANTS
  Callers,   \* tasks that share the pool
  Conns,     \* connections that may be created (bounds the run)
  MaxConns,  \* pool_config.max_connections
  MinConns   \* pool_config.min_connections

Nothing == "none"

Tasks == {"cleanup", "health"}

PoolAssumption ==
  /\ IsFiniteSet(Callers) /\ IsFiniteSet(Conns)
  /\ Nothing \notin Callers \cup Conns /\ Callers \cap Tasks = {}
  /\ MaxConns \in Nat \ {0} /\ MinConns \in Nat /\ MinConns <= MaxConns   \* Config::validate

VARIABLES
  pool,       \* available_connections
  poolLock,   \* who holds its mutex
  metricsLock,\* who holds the mutex of the metrics
  permits,    \* free permits of connection_semaphore
  active,     \* metrics.active_connections
  available,  \* metrics.available_connections
  created,    \* metrics.total_connections_created
  closed,     \* metrics.total_connections_closed
  pc,         \* where each caller and each task is
  conn,       \* the connection each caller has, Nothing if it has none
  removed,    \* the connections each task has taken out and not yet counted
  phase,      \* "new", "running" from start to shutdown, then "stopped"
  unused,     \* connections not created yet
  dead,       \* connections whose peer is gone
  expired     \* connections older than max_connection_lifetime

metrics == <<active, available, created, closed>>
fate == <<dead, expired>>
vars == <<pool, poolLock, metricsLock, permits, metrics, pc, conn, removed, phase,
          unused, fate>>

\* Where a process waits for the metrics mutex to make its update.
Updating == {"reused", "discard", "created", "activated", "retire", "pushed", "count"}
Points == {"idle", "popping", "checking", "creating", "holding", "pushing", "sweeping",
           "panicked"} \cup Updating

Init ==
  /\ pool = <<>>
  /\ poolLock = Nothing /\ metricsLock = Nothing
  /\ permits = MaxConns
  /\ active = 0 /\ available = 0 /\ created = 0 /\ closed = 0
  /\ pc = [p \in Callers \cup Tasks |-> "idle"]
  /\ conn = [c \in Callers |-> Nothing]
  /\ removed = [t \in Tasks |-> {}]
  /\ phase = "new"
  /\ unused = Conns
  /\ dead = {} /\ expired = {}

Goto(p, point) == pc' = [pc EXCEPT ![p] = point]
Hold(c, x) == conn' = [conn EXCEPT ![c] = x]
SatSub(m, n) == IF n <= m THEN m - n ELSE 0
InPool == {pool[i] : i \in 1..Len(pool)}

(* Any process that is about to update the metrics gets their mutex; the   *)
(* update that follows releases it.                                        *)
LockMetrics(p) ==
  /\ pc[p] \in Updating
  /\ metricsLock = Nothing
  /\ metricsLock' = p
  /\ UNCHANGED <<pool, poolLock, permits, metrics, pc, conn, removed, phase, unused, fate>>

Update(p, from) == pc[p] = from /\ metricsLock = p /\ metricsLock' = Nothing

-----------------------------------------------------------------------------
(* get_connection                                                          *)

AcquirePermit(c) ==
  /\ pc[c] = "idle"
  /\ permits > 0
  /\ permits' = permits - 1
  /\ Goto(c, "popping")
  /\ UNCHANGED <<pool, poolLock, metricsLock, metrics, conn, removed, phase, unused, fate>>

(* The error paths unwrap a try_lock of the metrics: they panic if another *)
(* thread is updating them.                                                *)
FailOrPanic(c) == Goto(c, IF metricsLock = Nothing THEN "idle" ELSE "panicked")

PermitTimeout(c) ==
  /\ pc[c] = "idle"
  /\ permits = 0
  /\ FailOrPanic(c)
  /\ UNCHANGED <<pool, poolLock, metricsLock, permits, metrics, conn, removed, phase,
                 unused, fate>>

(* Mutant: the connection is used from the pool, not taken out of it.      *)
PopFrontKeeps(c) ==
  /\ pc[c] = "popping"
  /\ poolLock = Nothing
  /\ IF pool = <<>>
       THEN /\ Goto(c, "creating")
            /\ UNCHANGED <<pool, poolLock, conn>>
       ELSE /\ Goto(c, "checking")
            /\ poolLock' = c
            /\ Hold(c, Head(pool))
            /\ pool' = pool
  /\ UNCHANGED <<metricsLock, permits, metrics, removed, phase, unused, fate>>

PopFront(c) ==
  /\ pc[c] = "popping"
  /\ poolLock = Nothing
  /\ IF pool = <<>>
       THEN /\ Goto(c, "creating")
            /\ UNCHANGED <<pool, poolLock, conn>>
       ELSE /\ Goto(c, "checking")
            /\ poolLock' = c
            /\ Hold(c, Head(pool))
            /\ pool' = Tail(pool)
  /\ UNCHANGED <<metricsLock, permits, metrics, removed, phase, unused, fate>>

(* The ping of a dead connection may still be accepted by the socket.      *)
PingFails(x) == {FALSE} \cup {x \in dead}

CheckPopped(c) ==
  /\ pc[c] = "checking"
  /\ \E fails \in PingFails(conn[c]) : Goto(c, IF fails THEN "discard" ELSE "reused")
  /\ UNCHANGED <<pool, poolLock, metricsLock, permits, metrics, conn, removed, phase,
                 unused, fate>>

(* Mutant: only created connections are counted active.                    *)
ReuseUncounted(c) ==
  /\ Update(c, "reused")
  /\ available' = Len(pool)
  /\ poolLock' = Nothing
  /\ permits' = permits + 1
  /\ Goto(c, "holding")
  /\ UNCHANGED <<pool, active, created, closed, conn, removed, phase, unused, fate>>

(* A healthy one: the guards and the permit are dropped on return.         *)
Reuse(c) ==
  /\ Update(c, "reused")
  /\ available' = Len(pool)
  /\ active' = active + 1
  /\ poolLock' = Nothing
  /\ permits' = permits + 1
  /\ Goto(c, "holding")
  /\ UNCHANGED <<pool, created, closed, conn, removed, phase, unused, fate>>

Discard(c) ==
  /\ Update(c, "discard")
  /\ closed' = closed + 1
  /\ poolLock' = Nothing
  /\ Hold(c, Nothing)
  /\ Goto(c, "creating")
  /\ UNCHANGED <<pool, permits, active, available, created, removed, phase, unused, fate>>

(* Mutant: the permit of a call whose connection fails is forgotten.       *)
ConnectFailsKeepsPermit(c) ==
  /\ pc[c] = "creating"
  /\ FailOrPanic(c)
  /\ UNCHANGED <<pool, poolLock, metricsLock, permits, metrics, conn, removed, phase, unused,
                 fate>>

(* create_connection: connected, refused, or timed out.                    *)
Connect(c) ==
  /\ pc[c] = "creating"
  /\ \E x \in unused : Hold(c, x) /\ unused' = unused \ {x}
  /\ Goto(c, "created")
  /\ UNCHANGED <<pool, poolLock, metricsLock, permits, metrics, removed, phase, fate>>

ConnectFails(c) ==
  /\ pc[c] = "creating"
  /\ permits' = permits + 1
  /\ \/ Goto(c, "idle")
     \/ FailOrPanic(c)
  /\ UNCHANGED <<pool, poolLock, metricsLock, metrics, conn, removed, phase, unused, fate>>

CountCreated(c) ==
  /\ Update(c, "created")
  /\ created' = created + 1
  /\ Goto(c, "activated")
  /\ UNCHANGED <<pool, poolLock, permits, active, available, closed, conn, removed, phase,
                 unused, fate>>

CountActive(c) ==
  /\ Update(c, "activated")
  /\ active' = active + 1
  /\ permits' = permits + 1
  /\ Goto(c, "holding")
  /\ UNCHANGED <<pool, poolLock, available, created, closed, conn, removed, phase, unused,
                 fate>>

(* BrpClientV2 wraps the call in a timeout: the future is dropped at an    *)
(* await, with its guards, its permit and the connection it had.           *)
Cancel(c) ==
  /\ pc[c] \in {"popping", "checking", "reused", "discard", "creating", "created", "activated"}
  /\ metricsLock # c
  /\ poolLock' = IF poolLock = c THEN Nothing ELSE poolLock
  /\ permits' = permits + 1
  /\ Hold(c, Nothing)
  /\ Goto(c, "idle")
  /\ UNCHANGED <<pool, metricsLock, metrics, removed, phase, unused, fate>>

-----------------------------------------------------------------------------
(* return_connection, or the connection is dropped on an error             *)

Return(c) ==
  /\ pc[c] = "holding"
  /\ \E fails \in PingFails(conn[c]) :
       Goto(c, IF conn[c] \in expired \/ fails THEN "retire" ELSE "pushing")
  /\ UNCHANGED <<pool, poolLock, metricsLock, permits, metrics, conn, removed, phase,
                 unused, fate>>

(* Mutant: the early return of return_connection is missing: the           *)
(* connection is counted closed and goes on to the pool.                   *)
RetireFallsThrough(c) ==
  /\ Update(c, "retire")
  /\ active' = SatSub(active, 1)
  /\ closed' = closed + 1
  /\ Goto(c, "pushing")
  /\ UNCHANGED <<pool, poolLock, permits, available, created, conn, removed, phase, unused,
                 fate>>

Retire(c) ==
  /\ Update(c, "retire")
  /\ active' = SatSub(active, 1)
  /\ closed' = closed + 1
  /\ Hold(c, Nothing)
  /\ Goto(c, "idle")
  /\ UNCHANGED <<pool, poolLock, permits, available, created, removed, phase, unused, fate>>

PushBack(c) ==
  /\ pc[c] = "pushing"
  /\ poolLock = Nothing
  /\ poolLock' = c
  /\ pool' = Append(pool, conn[c])
  /\ Hold(c, Nothing)
  /\ Goto(c, "pushed")
  /\ UNCHANGED <<metricsLock, permits, metrics, removed, phase, unused, fate>>

(* Mutant: the guard of the pool outlives the return.                      *)
CountPushedKeepsGuard(c) ==
  /\ Update(c, "pushed")
  /\ available' = Len(pool)
  /\ active' = SatSub(active, 1)
  /\ Goto(c, "idle")
  /\ UNCHANGED <<pool, poolLock, permits, created, closed, conn, removed, phase, unused, fate>>

CountPushed(c) ==
  /\ Update(c, "pushed")
  /\ available' = Len(pool)
  /\ active' = SatSub(active, 1)
  /\ poolLock' = Nothing
  /\ Goto(c, "idle")
  /\ UNCHANGED <<pool, permits, created, closed, conn, removed, phase, unused, fate>>

Drop(c) ==
  /\ pc[c] = "holding"
  /\ Hold(c, Nothing)
  /\ Goto(c, "idle")
  /\ UNCHANGED <<pool, poolLock, metricsLock, permits, metrics, removed, phase, unused, fate>>

-----------------------------------------------------------------------------
(* The maintenance tasks                                                   *)

(* The connections xs leave the pool, the others stay in their order.      *)
Kept(xs) == {i \in 1..Len(pool) : pool[i] \notin xs}

TakeOut(t, xs) ==
  /\ \E place \in [1..Cardinality(Kept(xs)) -> Kept(xs)] :
       /\ \A i, j \in DOMAIN place : i < j => place[i] < place[j]
       /\ pool' = [i \in DOMAIN place |-> pool[place[i]]]
  /\ removed' = [removed EXCEPT ![t] = xs]
  /\ Goto(t, IF xs = {} THEN "idle" ELSE "count")

(* A tick of the cleanup task: expired connections and any that have been  *)
(* idle too long leave the pool and are closed after its mutex is free.    *)
CleanupTick ==
  /\ phase = "running" /\ pc["cleanup"] = "idle"
  /\ poolLock = Nothing
  /\ \E xs \in SUBSET InPool : expired \cap InPool \subseteq xs /\ TakeOut("cleanup", xs)
  /\ UNCHANGED <<poolLock, metricsLock, permits, metrics, conn, phase, unused, fate>>

(* A tick of the health check: the pool is empty and its mutex held while  *)
(* the connections are pinged.                                             *)
HealthTick ==
  /\ phase = "running" /\ pc["health"] = "idle"
  /\ poolLock = Nothing
  /\ poolLock' = "health"
  /\ Goto("health", "sweeping")
  /\ UNCHANGED <<pool, metricsLock, permits, metrics, conn, removed, phase, unused, fate>>

HealthSwept ==
  /\ pc["health"] = "sweeping"
  /\ poolLock' = Nothing
  /\ \E xs \in SUBSET (dead \cap InPool) : TakeOut("health", xs)
  /\ UNCHANGED <<metricsLock, permits, metrics, conn, phase, unused, fate>>

CountRemoved(t) ==
  /\ Update(t, "count")
  /\ closed' = closed + Cardinality(removed[t])
  /\ available' = SatSub(available, Cardinality(removed[t]))
  /\ removed' = [removed EXCEPT ![t] = {}]
  /\ Goto(t, "idle")
  /\ UNCHANGED <<pool, poolLock, permits, active, created, conn, phase, unused, fate>>

-----------------------------------------------------------------------------
(* start and shutdown; Quiet is what &mut self excludes.                   *)
Quiet == \A c \in Callers : pc[c] \in {"idle", "holding", "panicked"}

(* Connecting up to min_connections may fail; then fewer are pooled.       *)
start ==
  /\ Quiet /\ phase # "running"
  /\ \E xs \in SUBSET unused : \E order \in [1..Cardinality(xs) -> xs] :
       /\ Cardinality(xs) <= MinConns
       /\ \A x \in xs : \E i \in DOMAIN order : order[i] = x
       /\ pool' = pool \o order
       /\ unused' = unused \ xs
       /\ created' = created + Cardinality(xs)
  /\ phase' = "running"
  /\ UNCHANGED <<poolLock, metricsLock, permits, active, available, closed, pc, conn, removed,
                 fate>>

(* An aborted task stops at its next await: it finishes an update of the   *)
(* metrics, and drops its guards and what it has taken out otherwise.      *)
shutdown ==
  /\ Quiet /\ phase = "running"
  /\ metricsLock \notin Tasks
  /\ pool' = <<>>
  /\ phase' = "stopped"
  /\ poolLock' = IF poolLock \in Tasks THEN Nothing ELSE poolLock
  /\ pc' = [p \in Callers \cup Tasks |-> IF p \in Tasks THEN "idle" ELSE pc[p]]
  /\ removed' = [t \in Tasks |-> {}]
  /\ UNCHANGED <<metricsLock, permits, metrics, conn, unused, fate>>

(* The environment: a peer goes away, a connection gets old.               *)
Die(x) ==
  /\ x \notin unused \cup dead
  /\ dead' = dead \cup {x}
  /\ UNCHANGED <<pool, poolLock, metricsLock, permits, metrics, pc, conn, removed, phase,
                 unused, expired>>

Expire(x) ==
  /\ x \notin unused \cup expired
  /\ expired' = expired \cup {x}
  /\ UNCHANGED <<pool, poolLock, metricsLock, permits, metrics, pc, conn, removed, phase,
                 unused, dead>>

-----------------------------------------------------------------------------
(* What a caller does once its get or return has begun, and a task once it *)
(* has the pool.                                                           *)
CallStep(c) ==
  \/ PopFront(c) \/ CheckPopped(c) \/ Reuse(c) \/ Discard(c)
  \/ Connect(c) \/ ConnectFails(c) \/ CountCreated(c) \/ CountActive(c)
  \/ Retire(c) \/ PushBack(c) \/ CountPushed(c)
TaskStep(t) == CountRemoved(t) \/ (t = "health" /\ HealthSwept)

Next ==
  \/ \E c \in Callers :
       \/ AcquirePermit(c) \/ PermitTimeout(c)
       \/ CallStep(c) \/ Cancel(c)
       \/ Return(c) \/ Drop(c)
  \/ \E t \in Tasks : TaskStep(t)
  \/ \E p \in Callers \cup Tasks : LockMetrics(p)
  \/ CleanupTick \/ HealthTick
  \/ start \/ shutdown
  \/ \E x \in Conns : Die(x) \/ Expire(x)

Spec == Init /\ [][Next]_vars

(* Connecting and pinging end (connection_timeout), and a tokio mutex      *)
(* serves its waiters in order, so who waits for one gets it if it is free *)
(* again and again: strong fairness.  Nobody has to call or return.        *)
Fairness ==
  /\ \A c \in Callers : SF_vars(CallStep(c) \/ LockMetrics(c))
  /\ \A t \in Tasks : SF_vars(TaskStep(t) \/ LockMetrics(t))

FairSpec == Spec /\ Fairness

-----------------------------------------------------------------------------
Places == Conns \cup {Nothing}
TypeOK ==
  /\ pool \in Seq(Conns)
  /\ poolLock \in Callers \cup {"health", Nothing}
  /\ metricsLock \in Callers \cup Tasks \cup {Nothing}
  /\ permits \in 0..MaxConns
  /\ active \in Nat /\ available \in Nat /\ created \in Nat /\ closed \in Nat
  /\ pc \in [Callers \cup Tasks -> Points]
  /\ conn \in [Callers -> Places]
  /\ removed \in [Tasks -> SUBSET Conns]
  /\ phase \in {"new", "running", "stopped"}
  /\ unused \subseteq Conns /\ dead \subseteq Conns /\ expired \subseteq Conns

Held == {conn[c] : c \in Callers} \ {Nothing}
Removed == UNION {removed[t] : t \in Tasks}

(* A connection is in one place: two callers never write requests to the   *)
(* same WebSocket, and none is used by a caller while it is in the pool or *)
(* being closed by a task, however gets, returns and sweeps interleave.    *)
OnePlace ==
  /\ \A i, j \in 1..Len(pool) : i # j => pool[i] # pool[j]
  /\ \A c, d \in Callers : c # d /\ conn[c] # Nothing => conn[c] # conn[d]
  /\ InPool \cap Held = {} /\ (InPool \cup Held) \cap Removed = {}
  /\ (InPool \cup Held \cup Removed) \cap unused = {}

CountedActive == {c \in Callers : pc[c] \in {"holding", "retire", "pushing", "pushed"}}

(* active_connections never says less than the callers hold: the counter   *)
(* is raised before a connection is handed out and the saturating          *)
(* subtraction of a return never takes off what another caller added.      *)
ActiveCoversHeld == active >= Cardinality(CountedActive)

(* Connections that total_connections_created counts and _closed does not. *)
Open ==
  InPool \cup Removed \cup {conn[c] : c \in {d \in Callers : conn[d] # Nothing /\ pc[d] # "created"}}

(* No connection is counted closed twice or while it is still in use: the  *)
(* totals never claim fewer open connections than there are.               *)
ClosedNotOvercounted == created - closed >= Cardinality(Open)

(* The permit of every call that is over is back: cancelled, failed and    *)
(* panicked calls included, so the semaphore cannot run dry.               *)
Calling == {c \in Callers : pc[c] \in
              {"popping", "checking", "reused", "discard", "creating", "created", "activated"}}
PermitsConserved == permits + Cardinality(Calling) = MaxConns

(* Connections, permits and counts are conserved: none is lost, in two      *)
(* places or counted wrong.                                                *)
PoolConserves == OnePlace /\ PermitsConserved /\ ActiveCoversHeld /\ ClosedNotOvercounted

Rests(c) == pc[c] \in {"idle", "holding", "panicked"}

(* A get_connection that has its permit ends, with a connection or an      *)
(* error, and so does a return_connection, although others hold the pool's *)
(* mutex across their pings: no two processes wait for each other's mutex. *)
CallsEnd == \A c \in Callers : ~Rests(c) ~> Rests(c)

Symmetry == Permutations(Callers) \cup Permutations(Conns)
-----------------------------------------------------------------------------
(* Proofs, for any number of callers and connections and any limits that       *)
(* Config::validate lets through.                                              *)
(*                                                                             *)
(* What the pool promises is nearly inductive.  It needs to be known besides   *)
(* when a caller has a connection (Carried), since the connection moves and    *)
(* the metrics are updated in different steps, and that what one maintenance   *)
(* task took out the other one did not (Apart).                                *)
Carrying ==
  {"checking", "reused", "discard", "created", "activated", "holding", "retire", "pushing"}
Carried == \A c \in Callers : conn[c] # Nothing <=> pc[c] \in Carrying

(* OnePlace, and that the tasks did not take out the same connection.          *)
PooledOnce == \A i, j \in 1..Len(pool) : pool[i] = pool[j] => i = j
HeldOnce == \A c, d \in Callers : conn[c] = conn[d] => c = d \/ conn[c] = Nothing
PlacesApart ==
  /\ \A i \in 1..Len(pool) :
       /\ pool[i] \notin unused
       /\ \A c \in Callers : pool[i] # conn[c]
       /\ \A t \in Tasks : pool[i] \notin removed[t]
  /\ \A c \in Callers : conn[c] \notin unused /\ \A t \in Tasks : conn[c] \notin removed[t]
  /\ \A t \in Tasks : removed[t] \cap unused = {}
  /\ removed["cleanup"] \cap removed["health"] = {}

Apart == PooledOnce /\ HeldOnce /\ PlacesApart

PoolInv ==
  /\ TypeOK /\ Carried /\ Apart
  /\ PermitsConserved /\ ActiveCoversHeld /\ ClosedNotOvercounted

-----------------------------------------------------------------------------
(* A caller is no task, and Nothing is neither; what is counted is finite.     *)
LEMMA Distinct ==
  ASSUME PoolAssumption
  PROVE  /\ Nothing \notin Callers /\ Nothing \notin Conns /\ Nothing \notin Tasks
         /\ \A c \in Callers : c \notin Tasks /\ c # "cleanup" /\ c # "health"
         /\ "cleanup" \in Tasks /\ "health" \in Tasks
BY DEF PoolAssumption, Nothing, Tasks

LEMMA FiniteCounts ==
  ASSUME PoolAssumption
  PROVE  /\ \A S \in SUBSET Callers : IsFiniteSet(S) /\ Cardinality(S) \in Nat
         /\ \A S \in SUBSET Conns : IsFiniteSet(S) /\ Cardinality(S) \in Nat
BY FS_Subset, FS_CardinalityType DEF PoolAssumption

(* What is open is somewhere, and nothing but connections.                     *)
LEMMA OpenIsSmall ==
  ASSUME TypeOK
  PROVE  /\ Open \subseteq Conns
         /\ \A t \in Tasks : removed[t] \subseteq Open
         /\ \A c \in Callers : conn[c] # Nothing /\ pc[c] # "created" => conn[c] \in Open
         /\ \A x \in Open : \/ \E i \in 1..Len(pool) : x = pool[i]
                            \/ \E t \in Tasks : x \in removed[t]
                            \/ \E c \in Callers : /\ x = conn[c] /\ conn[c] # Nothing
                                                  /\ pc[c] # "created"
<1>1. \A i \in 1..Len(pool) : pool[i] \in Conns
  BY ElementOfSeq DEF TypeOK
<1>2. \A t \in Tasks : removed[t] \subseteq Conns
  BY DEF TypeOK
<1>3. \A c \in Callers : conn[c] # Nothing => conn[c] \in Conns
  BY DEF TypeOK, Places
<1> QED
  BY <1>1, <1>2, <1>3 DEF Open, InPool, Removed

(* Place by place is what OnePlace says of the sets of places.                 *)
LEMMA ApartIsOnePlace ==
  ASSUME PoolAssumption, TypeOK, Apart
  PROVE  OnePlace
<1>1. \A x \in InPool : \E i \in 1..Len(pool) : x = pool[i]
  BY DEF InPool
<1>2. \A x \in Held : x # Nothing /\ \E c \in Callers : x = conn[c]
  BY DEF Held
<1>3. \A x \in Removed : \E t \in Tasks : x \in removed[t]
  BY DEF Removed
<1>4. \A c, d \in Callers : c # d /\ conn[c] # Nothing => conn[c] # conn[d]
  BY DEF Apart, HeldOnce
<1>5. InPool \cap Held = {} /\ InPool \cap Removed = {} /\ Held \cap Removed = {}
  BY <1>1, <1>2, <1>3 DEF Apart, PlacesApart
<1>6. InPool \cap unused = {} /\ Held \cap unused = {} /\ Removed \cap unused = {}
  BY <1>1, <1>2, <1>3 DEF Apart, PlacesApart
<1>7. \A i, j \in 1..Len(pool) : i # j => pool[i] # pool[j]
  BY DEF Apart, PooledOnce
<1> QED
  BY <1>4, <1>5, <1>6, <1>7 DEF OnePlace

-----------------------------------------------------------------------------
(* The pool without the connections that a task takes out of it.               *)
LEMMA TakenOut ==
  ASSUME PoolAssumption, TypeOK, NEW t \in Tasks, NEW xs \in SUBSET InPool, TakeOut(t, xs)
  PROVE  /\ pool' \in Seq(Conns)
         /\ \A i \in 1..Len(pool') : pool'[i] \notin xs
                                     /\ \E j \in 1..Len(pool) : pool'[i] = pool[j]
         /\ PooledOnce => PooledOnce'
<1> DEFINE n == Cardinality(Kept(xs))
<1>1. PICK place \in [1..n -> Kept(xs)] :
         /\ \A i, j \in DOMAIN place : i < j => place[i] < place[j]
         /\ pool' = [i \in DOMAIN place |-> pool[place[i]]]
  BY DEF TakeOut
<1>2. pool \in Seq(Conns) /\ Len(pool) \in Nat
  BY LenProperties DEF TypeOK
<1>3. n \in Nat
  <2>1. IsFiniteSet(1..Len(pool))
    BY <1>2, FS_Interval
  <2>2. Kept(xs) \subseteq 1..Len(pool)
    BY DEF Kept
  <2> QED
    BY <2>1, <2>2, FS_Subset, FS_CardinalityType
<1> HIDE DEF n
<1>4. \A i \in 1..n : place[i] \in 1..Len(pool) /\ pool[place[i]] \notin xs
  BY <1>1 DEF Kept
<1>5. \A i \in 1..Len(pool) : pool[i] \in Conns
  BY <1>2, ElementOfSeq
<1>6. pool' = [i \in 1..n |-> pool[place[i]]]
  BY <1>1
<1>7. pool' \in Seq(Conns) /\ Len(pool') = n
  BY <1>3, <1>4, <1>5, <1>6, IsASeq
<1>8. ASSUME PooledOnce, NEW i \in 1..n, NEW j \in 1..n, pool'[i] = pool'[j]
      PROVE  i = j
  <2>1. place[i] = place[j]
    BY <1>4, <1>6, <1>8 DEF PooledOnce
  <2>2. ~(i < j) /\ ~(j < i)
    BY <1>1, <1>2, <1>4, <2>1
  <2> QED
    BY <1>3, <2>2
<1>9. PooledOnce => PooledOnce'
  BY <1>7, <1>8 DEF PooledOnce
<1>10. \A i \in 1..Len(pool') : /\ pool'[i] \notin xs
                                /\ \E j \in 1..Len(pool) : pool'[i] = pool[j]
  BY <1>4, <1>6, <1>7
<1> QED
  BY <1>7, <1>9, <1>10

(* The connections that start adds to the pool.                                *)
LEMMA Ordered ==
  ASSUME PoolAssumption, NEW xs \in SUBSET Conns, NEW order \in [1..Cardinality(xs) -> xs],
         \A x \in xs : \E i \in DOMAIN order : order[i] = x
  PROVE  /\ order \in Seq(Conns) /\ Len(order) = Cardinality(xs)
         /\ \A i \in 1..Len(order) : order[i] \in xs
         /\ \A i, j \in 1..Len(order) : order[i] = order[j] => i = j
<1> DEFINE n == Cardinality(xs)
<1>1. IsFiniteSet(xs) /\ n \in Nat
  BY FiniteCounts
<1>2. IsFiniteSet(1..n) /\ Cardinality(1..n) = n
  <2>1. /\ IsFiniteSet(1..n)
        /\ Cardinality(1..n) = IF 1 > n THEN 0 ELSE n - 1 + 1
    BY <1>1, FS_Interval
  <2> HIDE DEF n
  <2> QED
    BY <1>1, <2>1
<1>3. order \in Surjection(1..n, xs)
  BY DEF Surjection
<1>4. order \in Injection(1..n, xs)
  BY <1>2, <1>3, FS_Surjection
<1>5. order \in Seq(Conns) /\ Len(order) = n
  <2> HIDE DEF n
  <2>1. order \in [1..n -> Conns]
    BY <1>3 DEF Surjection
  <2> QED
    BY <1>1, <2>1, IsASeq
<1>6. \A i, j \in 1..n : order[i] = order[j] => i = j
  BY <1>4 DEF Injection, IsInjective
<1>7. \A i \in 1..n : order[i] \in xs
  OBVIOUS
<1> HIDE DEF n
<1> QED
  BY <1>5, <1>6, <1>7 DEF n

-----------------------------------------------------------------------------
(* The types.                                                                  *)
LEMMA GoesTyped ==
  ASSUME TypeOK, NEW c \in Callers, NEW p \in Points, Goto(c, p)
  PROVE  pc' \in [Callers \cup Tasks -> Points]
BY DEF TypeOK, Goto

LEMMA HoldsTyped ==
  ASSUME TypeOK, NEW c \in Callers, NEW x \in Places, Hold(c, x)
  PROVE  conn' \in [Callers -> Places]
BY DEF TypeOK, Hold

LEMMA CallerTypes ==
  ASSUME PoolAssumption, PoolInv, NEW c \in Callers,
         \/ AcquirePermit(c) \/ PermitTimeout(c) \/ CallStep(c) \/ Cancel(c)
         \/ Return(c) \/ Drop(c)
  PROVE  /\ pc' \in [Callers \cup Tasks -> Points]
         /\ conn' \in [Callers -> Places]
         /\ unused' \subseteq Conns
         /\ UNCHANGED <<removed, phase, fate>>
<1> USE DEF PoolInv
<1>1. UNCHANGED <<removed, phase, fate>>
  BY DEF AcquirePermit, PermitTimeout, CallStep, PopFront, CheckPopped, Reuse, Discard, Connect,
     ConnectFails, CountCreated, CountActive, Retire, PushBack, CountPushed, Cancel, Return, Drop
<1>2. \E p \in Points : Goto(c, p)
  BY DEF AcquirePermit, PermitTimeout, CallStep, PopFront, CheckPopped, Reuse, Discard, Connect,
     ConnectFails, CountCreated, CountActive, Retire, PushBack, CountPushed, Cancel, Return, Drop,
     FailOrPanic, Points, Updating
<1>3. unused' \subseteq Conns
  BY DEF AcquirePermit, PermitTimeout, CallStep, PopFront, CheckPopped, Reuse, Discard, Connect,
     ConnectFails, CountCreated, CountActive, Retire, PushBack, CountPushed, Cancel, Return, Drop,
     TypeOK
<1>4. UNCHANGED conn \/ \E x \in Places : Hold(c, x)
  <2>1. CASE PopFront(c)
    <3>1. pool # <<>> => Head(pool) \in Places
      BY HeadTailProperties DEF TypeOK, Places
    <3> QED
      BY <2>1, <3>1 DEF PopFront
  <2>2. CASE Connect(c)
    BY <2>2 DEF Connect, TypeOK, Places
  <2>3. Nothing \in Places
    BY DEF Places
  <2> QED
    BY <2>1, <2>2, <2>3
    DEF AcquirePermit, PermitTimeout, CallStep, CheckPopped, Reuse, Discard,
      ConnectFails, CountCreated, CountActive, Retire, PushBack, CountPushed, Cancel, Return, Drop
<1>5. pc' \in [Callers \cup Tasks -> Points]
  BY <1>2, GoesTyped
<1>6. conn' \in [Callers -> Places]
  BY <1>4, HoldsTyped DEF TypeOK
<1> QED
  BY <1>1, <1>3, <1>5, <1>6

(* What start, shutdown, the tasks and the environment leave of the callers.   *)
TasksStep ==
  \/ \E t \in Tasks : TaskStep(t)
  \/ \E p \in Callers \cup Tasks : LockMetrics(p)
  \/ CleanupTick \/ HealthTick \/ start \/ shutdown
  \/ \E x \in Conns : Die(x) \/ Expire(x)
  \/ UNCHANGED vars

CallersStep(c) ==
  \/ AcquirePermit(c) \/ PermitTimeout(c) \/ CallStep(c) \/ Cancel(c)
  \/ Return(c) \/ Drop(c)

(* A step is a caller's, or one that leaves the callers where they are.        *)
LEMMA Steps == ASSUME [Next]_vars PROVE TasksStep \/ \E c \in Callers : CallersStep(c)
BY DEF Next, TasksStep, CallersStep

LEMMA TasksLeaveCallers ==
  ASSUME PoolAssumption, TypeOK, TasksStep
  PROVE  /\ pc' \in [Callers \cup Tasks -> Points]
         /\ \A c \in Callers : pc'[c] = pc[c]
         /\ UNCHANGED <<conn, permits, active>>
<1> USE Distinct DEF TypeOK
<1>1. UNCHANGED <<conn, permits, active>>
  BY DEF TasksStep, TaskStep, CountRemoved, HealthSwept, LockMetrics, CleanupTick, HealthTick,
     start, shutdown, Die, Expire, vars, metrics
<1>2. CASE UNCHANGED pc
  BY <1>1, <1>2
<1>3. ASSUME NEW t \in Tasks, NEW p \in Points, Goto(t, p)
      PROVE  pc' \in [Callers \cup Tasks -> Points] /\ \A c \in Callers : pc'[c] = pc[c]
  BY <1>3 DEF Goto
<1>4. CASE shutdown
  BY <1>1, <1>4 DEF shutdown, Points
<1>5. ASSUME NEW t \in Tasks, NEW xs, TakeOut(t, xs) PROVE \E p \in Points : Goto(t, p)
  BY <1>5 DEF TakeOut, Points, Updating
<1>6. \/ UNCHANGED pc \/ shutdown \/ \E t \in Tasks : \E p \in Points : Goto(t, p)
  <2>1. CASE HealthSwept \/ CleanupTick
    BY <1>5, <2>1 DEF HealthSwept, CleanupTick
  <2>2. CASE HealthTick \/ \E t \in Tasks : CountRemoved(t)
    BY <2>2 DEF HealthTick, CountRemoved, Points, Updating
  <2> QED
    BY <2>1, <2>2 DEF TasksStep, TaskStep, LockMetrics, start, Die, Expire, vars
<1> QED
  BY <1>1, <1>2, <1>3, <1>4, <1>6

-----------------------------------------------------------------------------
(* Permits.                                                                    *)
LEMMA PermitStep ==
  ASSUME PoolAssumption, PoolInv, [Next]_vars
  PROVE  PermitsConserved' /\ permits' \in 0..MaxConns
<1> USE Distinct DEF PoolInv
<1>t. pc \in [Callers \cup Tasks -> Points] /\ permits \in 0..MaxConns /\ MaxConns \in Nat
  BY DEF TypeOK, PoolAssumption
<1>1. /\ IsFiniteSet(Calling) /\ Cardinality(Calling) \in Nat
      /\ IsFiniteSet(Calling') /\ Cardinality(Calling') \in Nat
  <2>1. Calling \subseteq Callers /\ Calling' \subseteq Callers
    BY DEF Calling
  <2> QED
    BY <2>1, FiniteCounts
<1>2. permits + Cardinality(Calling) = MaxConns
  BY DEF PermitsConserved
<1>3. ASSUME permits' + Cardinality(Calling') = MaxConns, permits' \in Nat
      PROVE  PermitsConserved' /\ permits' \in 0..MaxConns
  BY <1>1, <1>3, <1>t DEF PermitsConserved
<1>4. ASSUME permits' = permits, Calling' = Calling
      PROVE  PermitsConserved' /\ permits' \in 0..MaxConns
  BY <1>1, <1>2, <1>3, <1>4, <1>t
<1>5. ASSUME NEW c \in Callers, permits' = permits + 1, Calling' = Calling \ {c}, c \in Calling
      PROVE  PermitsConserved' /\ permits' \in 0..MaxConns
  <2>1. Cardinality(Calling') = Cardinality(Calling) - 1
    BY <1>1, <1>5, FS_RemoveElement
  <2> QED
    BY <1>1, <1>2, <1>3, <1>5, <1>t, <2>1
<1>6. ASSUME NEW c \in Callers, AcquirePermit(c)
      PROVE  PermitsConserved' /\ permits' \in 0..MaxConns
  <2>1. permits' = permits - 1 /\ permits > 0 /\ c \notin Calling /\ Calling' = Calling \cup {c}
    BY <1>6, <1>t DEF AcquirePermit, Goto, Calling
  <2>2. Cardinality(Calling') = Cardinality(Calling) + 1
    BY <1>1, <2>1, FS_AddElement
  <2> QED
    BY <1>1, <1>2, <1>3, <1>t, <2>1, <2>2
<1>7. ASSUME NEW c \in Callers, Reuse(c) \/ ConnectFails(c) \/ CountActive(c) \/ Cancel(c)
      PROVE  PermitsConserved' /\ permits' \in 0..MaxConns
  <2>1. permits' = permits + 1
    BY <1>7 DEF Reuse, ConnectFails, CountActive, Cancel
  <2>2. c \in Calling /\ \E p \in {"idle", "panicked", "holding"} : Goto(c, p)
    BY <1>7 DEF Reuse, ConnectFails, CountActive, Cancel, Calling, Update, FailOrPanic
  <2>3. Calling' = Calling \ {c}
    BY <1>t, <2>2 DEF Goto, Calling
  <2> QED
    BY <1>5, <2>1, <2>2, <2>3
<1>8. ASSUME NEW c \in Callers,
             PopFront(c) \/ CheckPopped(c) \/ Discard(c) \/ Connect(c) \/ CountCreated(c)
      PROVE  PermitsConserved' /\ permits' \in 0..MaxConns
  <2>1. permits' = permits
    BY <1>8 DEF PopFront, CheckPopped, Discard, Connect, CountCreated
  <2>2. /\ c \in Calling
        /\ \E p \in {"checking", "creating", "reused", "discard", "created", "activated"} :
             Goto(c, p)
    BY <1>8 DEF PopFront, CheckPopped, Discard, Connect, CountCreated, Calling, Update
  <2>3. Calling' = Calling
    BY <1>t, <2>2 DEF Goto, Calling
  <2> QED
    BY <1>4, <2>1, <2>3
<1>9. ASSUME NEW c \in Callers,
             PermitTimeout(c) \/ Retire(c) \/ PushBack(c) \/ CountPushed(c) \/ Return(c) \/ Drop(c)
      PROVE  PermitsConserved' /\ permits' \in 0..MaxConns
  <2>1. permits' = permits
    BY <1>9 DEF PermitTimeout, Retire, PushBack, CountPushed, Return, Drop
  <2>2. /\ c \notin Calling
        /\ \E p \in {"idle", "panicked", "retire", "pushing", "pushed"} : Goto(c, p)
    BY <1>9 DEF PermitTimeout, Retire, PushBack, CountPushed, Return, Drop, Calling, Update,
       FailOrPanic
  <2>3. Calling' = Calling
    BY <1>t, <2>2 DEF Goto, Calling
  <2> QED
    BY <1>4, <2>1, <2>3
<1>10. ASSUME TasksStep PROVE PermitsConserved' /\ permits' \in 0..MaxConns
  <2>1. permits' = permits /\ \A c \in Callers : pc'[c] = pc[c]
    BY <1>10, TasksLeaveCallers
  <2>2. Calling' = Calling
    BY <2>1 DEF Calling
  <2> QED
    BY <1>4, <2>1, <2>2
<1> QED
  BY <1>6, <1>7, <1>8, <1>9, <1>10, Steps DEF CallersStep, CallStep

-----------------------------------------------------------------------------
(* The counter of active connections.                                          *)
LEMMA ActiveStep ==
  ASSUME PoolAssumption, PoolInv, [Next]_vars
  PROVE  ActiveCoversHeld' /\ active' \in Nat
<1> USE Distinct DEF PoolInv
<1>t. pc \in [Callers \cup Tasks -> Points] /\ active \in Nat
  BY DEF TypeOK
<1>1. /\ IsFiniteSet(CountedActive) /\ Cardinality(CountedActive) \in Nat
      /\ IsFiniteSet(CountedActive') /\ Cardinality(CountedActive') \in Nat
  <2>1. CountedActive \subseteq Callers /\ CountedActive' \subseteq Callers
    BY DEF CountedActive
  <2> QED
    BY <2>1, FiniteCounts
<1>2. active >= Cardinality(CountedActive)
  BY DEF ActiveCoversHeld
<1>3. ASSUME active' = active, CountedActive' \subseteq CountedActive
      PROVE  ActiveCoversHeld' /\ active' \in Nat
  <2>1. Cardinality(CountedActive') <= Cardinality(CountedActive)
    BY <1>1, <1>3, FS_Subset
  <2> QED
    BY <1>1, <1>2, <1>3, <1>t, <2>1 DEF ActiveCoversHeld
<1>4. ASSUME NEW c \in Callers, Reuse(c) \/ CountActive(c)
      PROVE  ActiveCoversHeld' /\ active' \in Nat
  <2>1. active' = active + 1 /\ Goto(c, "holding") /\ pc[c] \in {"reused", "activated"}
    BY <1>4 DEF Reuse, CountActive, Update
  <2>2. c \notin CountedActive /\ CountedActive' = CountedActive \cup {c}
    BY <1>t, <2>1 DEF Goto, CountedActive
  <2>3. Cardinality(CountedActive') = Cardinality(CountedActive) + 1
    BY <1>1, <2>2, FS_AddElement
  <2> QED
    BY <1>1, <1>2, <1>t, <2>1, <2>3 DEF ActiveCoversHeld
<1>5. ASSUME NEW c \in Callers, Retire(c) \/ CountPushed(c)
      PROVE  ActiveCoversHeld' /\ active' \in Nat
  <2>1. active' = SatSub(active, 1) /\ Goto(c, "idle") /\ pc[c] \in {"retire", "pushed"}
    BY <1>5 DEF Retire, CountPushed, Update
  <2>2. c \in CountedActive /\ CountedActive' = CountedActive \ {c}
    BY <1>t, <2>1 DEF Goto, CountedActive
  <2>3. Cardinality(CountedActive') = Cardinality(CountedActive) - 1
    BY <1>1, <2>2, FS_RemoveElement
  <2> QED
    BY <1>1, <1>2, <1>t, <2>1, <2>3 DEF ActiveCoversHeld, SatSub
<1>6. ASSUME NEW c \in Callers, Return(c) \/ PushBack(c)
      PROVE  ActiveCoversHeld' /\ active' \in Nat
  <2>1. /\ active' = active /\ pc[c] \in {"holding", "pushing"}
        /\ \E p \in {"retire", "pushing", "pushed"} : Goto(c, p)
    BY <1>6 DEF Return, PushBack, metrics
  <2>2. CountedActive' = CountedActive
    BY <1>t, <2>1 DEF Goto, CountedActive
  <2> QED
    BY <1>3, <2>1, <2>2
<1>7. ASSUME NEW c \in Callers,
             \/ AcquirePermit(c) \/ PermitTimeout(c) \/ PopFront(c) \/ CheckPopped(c)
             \/ Discard(c) \/ Connect(c) \/ ConnectFails(c) \/ CountCreated(c) \/ Cancel(c)
             \/ Drop(c)
      PROVE  ActiveCoversHeld' /\ active' \in Nat
  <2>1. /\ active' = active
        /\ \E p \in Points \ {"holding", "retire", "pushing", "pushed"} : Goto(c, p)
    BY <1>7 DEF AcquirePermit, PermitTimeout, PopFront, CheckPopped, Discard, Connect,
       ConnectFails, CountCreated, Cancel, Drop, FailOrPanic, metrics, Points, Updating
  <2>2. CountedActive' \subseteq CountedActive
    BY <1>t, <2>1 DEF Goto, CountedActive
  <2> QED
    BY <1>3, <2>1, <2>2
<1>8. ASSUME TasksStep PROVE ActiveCoversHeld' /\ active' \in Nat
  <2>1. active' = active /\ \A c \in Callers : pc'[c] = pc[c]
    BY <1>8, TasksLeaveCallers
  <2>2. CountedActive' = CountedActive
    BY <2>1 DEF CountedActive
  <2> QED
    BY <1>3, <2>1, <2>2
<1> QED
  BY <1>4, <1>5, <1>6, <1>7, <1>8, Steps DEF CallersStep, CallStep
-----------------------------------------------------------------------------
(* Who has a connection.                                                       *)
LEMMA CarriedStep ==
  ASSUME PoolAssumption, PoolInv, [Next]_vars
  PROVE  Carried'
<1> USE Distinct DEF PoolInv
<1>t. /\ pc \in [Callers \cup Tasks -> Points] /\ conn \in [Callers -> Places]
      /\ \A c \in Callers : conn[c] # Nothing <=> pc[c] \in Carrying
  BY DEF TypeOK, Carried
<1>1. ASSUME NEW c \in Callers, NEW p, Goto(c, p), UNCHANGED conn,
             pc[c] \in Carrying <=> p \in Carrying
      PROVE  Carried'
  BY <1>1, <1>t DEF Goto, Carried
<1>2. ASSUME NEW c \in Callers, NEW p, Goto(c, p), NEW x, Hold(c, x),
             x # Nothing <=> p \in Carrying
      PROVE  Carried'
  BY <1>2, <1>t DEF Goto, Hold, Carried
<1>3. ASSUME NEW c \in Callers,
             \/ AcquirePermit(c) \/ PermitTimeout(c) \/ CheckPopped(c) \/ Reuse(c)
             \/ ConnectFails(c) \/ CountCreated(c) \/ CountActive(c) \/ CountPushed(c)
             \/ Return(c)
      PROVE  Carried'
  <2>1. /\ UNCHANGED conn
        /\ \E p : Goto(c, p) /\ (pc[c] \in Carrying <=> p \in Carrying)
    BY <1>3 DEF AcquirePermit, PermitTimeout, CheckPopped, Reuse, ConnectFails, CountCreated,
       CountActive, CountPushed, Return, Update, FailOrPanic, Carrying
  <2> QED
    BY <1>1, <2>1
<1>4. ASSUME NEW c \in Callers,
             Discard(c) \/ Cancel(c) \/ Retire(c) \/ PushBack(c) \/ Drop(c)
      PROVE  Carried'
  <2>1. Hold(c, Nothing) /\ \E p : Goto(c, p) /\ p \notin Carrying
    BY <1>4 DEF Discard, Cancel, Retire, PushBack, Drop, Carrying
  <2> QED
    BY <1>2, <2>1
<1>5. ASSUME NEW c \in Callers, PopFront(c) PROVE Carried'
  <2>1. CASE pool = <<>>
    BY <1>1, <1>5, <2>1 DEF PopFront, Carrying
  <2>2. CASE pool # <<>>
    <3>1. Head(pool) \in Conns
      BY <2>2, HeadTailProperties DEF TypeOK
    <3> QED
      BY <1>2, <1>5, <2>2, <3>1 DEF PopFront, Carrying
  <2> QED
    BY <2>1, <2>2
<1>6. ASSUME NEW c \in Callers, Connect(c) PROVE Carried'
  BY <1>2, <1>6 DEF Connect, Carrying, TypeOK
<1>7. ASSUME TasksStep PROVE Carried'
  BY <1>7, TasksLeaveCallers DEF Carried
<1> QED
  BY <1>3, <1>4, <1>5, <1>6, <1>7, Steps DEF CallersStep, CallStep

-----------------------------------------------------------------------------
(* Where the connections are.                                                  *)

(* Who lets go of a connection is in nobody's way.                             *)
LEMMA LetGo ==
  ASSUME PoolAssumption, TypeOK, Apart, NEW c \in Callers, Hold(c, Nothing),
         UNCHANGED <<pool, removed, unused>>
  PROVE  Apart'
<1> USE Distinct DEF Apart
<1>1. \A d \in Callers : conn'[d] = IF d = c THEN Nothing ELSE conn[d]
  BY DEF TypeOK, Hold
<1>2. \A i \in 1..Len(pool) : pool[i] # Nothing
  BY ElementOfSeq DEF TypeOK
<1>3. \A t \in Tasks : Nothing \notin removed[t]
  BY DEF TypeOK
<1>4. Nothing \notin unused
  BY DEF TypeOK
<1>5. HeldOnce'
  BY <1>1 DEF HeldOnce
<1>6. PlacesApart'
  BY <1>1, <1>2, <1>3, <1>4 DEF PlacesApart
<1> QED
  BY <1>5, <1>6 DEF PooledOnce

LEMMA PopFrontApart ==
  ASSUME PoolAssumption, TypeOK, Apart, NEW c \in Callers, PopFront(c)
  PROVE  Apart' /\ pool' \in Seq(Conns)
<1> USE Distinct DEF Apart
<1>1. CASE pool = <<>>
  BY <1>1 DEF PopFront, TypeOK, PooledOnce, HeldOnce, PlacesApart
<1>2. CASE pool # <<>>
  <2>p. pool \in Seq(Conns) /\ pool' = Tail(pool) /\ Hold(c, Head(pool))
    BY <1>2 DEF PopFront, TypeOK
  <2>l. Len(pool) \in Nat
    BY <2>p, LenProperties
  <2>n. Len(pool) # 0
    BY <1>2, <2>p, EmptySeq
  <2>h. Head(pool) = pool[1]
    BY <1>2, <2>p, HeadTailProperties
  <2>t. /\ Tail(pool) \in Seq(Conns) /\ Len(Tail(pool)) = Len(pool) - 1
        /\ \A i \in 1..Len(Tail(pool)) : Tail(pool)[i] = pool[i + 1]
    BY <1>2, <2>p, HeadTailProperties
  <2>1. /\ pool \in Seq(Conns) /\ Head(pool) = pool[1] /\ Len(pool) \in Nat
        /\ Len(pool) # 0 /\ pool' = Tail(pool) /\ pool' \in Seq(Conns)
        /\ Len(pool') = Len(pool) - 1
        /\ \A i \in 1..Len(pool') : pool'[i] = pool[i + 1]
    BY <2>p, <2>l, <2>n, <2>h, <2>t
  <2>2. 1 \in 1..Len(pool) /\ pool[1] \in Conns
    BY <2>1, ElementOfSeq
  <2>3. \A i \in 1..Len(pool') : i + 1 \in 1..Len(pool) /\ i + 1 # 1
    BY <2>1
  <2>4. \A d \in Callers : conn'[d] = IF d = c THEN pool[1] ELSE conn[d]
    BY <1>2, <2>1 DEF PopFront, TypeOK, Hold
  <2>5. UNCHANGED <<removed, unused>>
    BY <1>2 DEF PopFront
  <2>6. PooledOnce'
    BY <2>1, <2>3 DEF PooledOnce
  <2>7. HeldOnce'
    BY <2>2, <2>4 DEF HeldOnce, PlacesApart
  <2>8. \A i \in 1..Len(pool') : pool'[i] # pool[1]
    BY <2>1, <2>2, <2>3 DEF PooledOnce
  <2>9. PlacesApart'
    BY <2>1, <2>2, <2>3, <2>4, <2>5, <2>8 DEF PlacesApart
  <2> QED
    BY <2>1, <2>6, <2>7, <2>9
<1> QED
  BY <1>1, <1>2

LEMMA ConnectApart ==
  ASSUME PoolAssumption, TypeOK, Apart, NEW c \in Callers, Connect(c)
  PROVE  Apart' /\ pool' \in Seq(Conns)
<1> USE Distinct DEF Apart
<1>1. PICK x \in unused : Hold(c, x) /\ unused' = unused \ {x}
  BY DEF Connect
<1>2. \A d \in Callers : conn'[d] = IF d = c THEN x ELSE conn[d]
  BY <1>1 DEF TypeOK, Hold
<1>3. UNCHANGED <<pool, removed>>
  BY DEF Connect
<1>4. x # Nothing
  BY <1>1 DEF TypeOK
<1>5. HeldOnce'
  BY <1>1, <1>2 DEF HeldOnce, PlacesApart
<1>6. PlacesApart'
  BY <1>1, <1>2, <1>3 DEF PlacesApart
<1> QED
  BY <1>3, <1>5, <1>6 DEF PooledOnce, TypeOK

LEMMA PushBackApart ==
  ASSUME PoolAssumption, TypeOK, Carried, Apart, NEW c \in Callers, PushBack(c)
  PROVE  Apart' /\ pool' \in Seq(Conns)
<1> USE Distinct DEF Apart
<1>1. conn[c] \in Conns
  BY DEF PushBack, Carried, Carrying, TypeOK, Places
<1>2. /\ pool \in Seq(Conns) /\ Len(pool) \in Nat
      /\ pool' = Append(pool, conn[c]) /\ pool' \in Seq(Conns)
      /\ Len(pool') = Len(pool) + 1
      /\ pool'[Len(pool) + 1] = conn[c]
      /\ \A i \in 1..Len(pool) : pool'[i] = pool[i]
  BY <1>1, AppendProperties, LenProperties DEF PushBack, TypeOK
<1>3. \A i \in 1..Len(pool') : i \in 1..Len(pool) \/ i = Len(pool) + 1
  BY <1>2
<1>4. \A d \in Callers : conn'[d] = IF d = c THEN Nothing ELSE conn[d]
  BY DEF PushBack, TypeOK, Hold
<1>5. UNCHANGED <<removed, unused>>
  BY DEF PushBack
<1>6. \A i \in 1..Len(pool) : pool[i] # conn[c] /\ pool[i] # Nothing
  BY <1>2, ElementOfSeq DEF PlacesApart
<1>7. PooledOnce'
  BY <1>2, <1>3, <1>6 DEF PooledOnce
<1>8. HeldOnce'
  BY <1>4 DEF HeldOnce
<1>9. \A t \in Tasks : Nothing \notin removed[t]
  BY DEF TypeOK
<1>10. Nothing \notin unused
  BY DEF TypeOK
<1>11. \A d \in Callers : d # c => conn[d] # conn[c]
  BY <1>1 DEF HeldOnce
<1>12. PlacesApart'
  BY <1>1, <1>2, <1>3, <1>4, <1>5, <1>6, <1>9, <1>10, <1>11 DEF PlacesApart
<1> QED
  BY <1>2, <1>7, <1>8, <1>12

LEMMA TakeOutApart ==
  ASSUME PoolAssumption, TypeOK, Apart, NEW t \in Tasks, NEW xs \in SUBSET InPool,
         TakeOut(t, xs), UNCHANGED <<conn, unused>>
  PROVE  Apart' /\ pool' \in Seq(Conns)
<1> USE Distinct DEF Apart
<1>1. /\ pool' \in Seq(Conns)
      /\ \A i \in 1..Len(pool') : /\ pool'[i] \notin xs
                                  /\ \E j \in 1..Len(pool) : pool'[i] = pool[j]
      /\ PooledOnce'
  BY TakenOut
<1>2. \A u \in Tasks : removed'[u] = IF u = t THEN xs ELSE removed[u]
  BY DEF TakeOut, TypeOK
<1>3. \A x \in xs : \E i \in 1..Len(pool) : x = pool[i]
  BY DEF InPool
<1>4. /\ \A x \in xs : x \notin unused
      /\ \A x \in xs : \A c \in Callers : x # conn[c]
      /\ \A x \in xs : \A u \in Tasks : x \notin removed[u]
  BY <1>3 DEF PlacesApart
<1>5. removed'["cleanup"] \cap removed'["health"] = {}
  BY <1>2, <1>4 DEF PlacesApart, Tasks
<1>6. PlacesApart'
  BY <1>1, <1>2, <1>4, <1>5 DEF PlacesApart
<1>7. HeldOnce'
  BY DEF HeldOnce
<1> QED
  BY <1>1, <1>6, <1>7

LEMMA StartApart ==
  ASSUME PoolAssumption, TypeOK, Apart, start
  PROVE  Apart' /\ pool' \in Seq(Conns)
<1> USE Distinct DEF Apart
<1>1. PICK xs \in SUBSET unused : \E order \in [1..Cardinality(xs) -> xs] :
        /\ \A x \in xs : \E i \in DOMAIN order : order[i] = x
        /\ pool' = pool \o order
        /\ unused' = unused \ xs
  BY DEF start
<1>2. PICK order \in [1..Cardinality(xs) -> xs] :
        /\ \A x \in xs : \E i \in DOMAIN order : order[i] = x
        /\ pool' = pool \o order
        /\ unused' = unused \ xs
  BY <1>1
<1>3. xs \in SUBSET Conns
  BY DEF TypeOK
<1>4. /\ order \in Seq(Conns)
      /\ \A i \in 1..Len(order) : order[i] \in xs
      /\ \A i, j \in 1..Len(order) : order[i] = order[j] => i = j
  BY <1>2, <1>3, Ordered
<1>5. /\ pool \in Seq(Conns) /\ Len(pool) \in Nat /\ Len(order) \in Nat
      /\ pool' \in Seq(Conns) /\ Len(pool') = Len(pool) + Len(order)
      /\ \A i \in 1..Len(pool') :
           pool'[i] = IF i <= Len(pool) THEN pool[i] ELSE order[i - Len(pool)]
  BY <1>2, <1>4, ConcatProperties, LenProperties DEF TypeOK
<1>6. \A i \in 1..Len(pool') :
        \/ i \in 1..Len(pool) /\ pool'[i] = pool[i]
        \/ /\ i > Len(pool) /\ i - Len(pool) \in 1..Len(order)
           /\ pool'[i] = order[i - Len(pool)]
  BY <1>5
<1>7. \A i \in 1..Len(pool) : pool[i] \notin unused
  BY DEF PlacesApart
<1>8. PooledOnce'
  <2> SUFFICES ASSUME NEW i \in 1..Len(pool'), NEW j \in 1..Len(pool'), pool'[i] = pool'[j]
               PROVE  i = j
    BY DEF PooledOnce
  <2>1. CASE i \in 1..Len(pool) /\ j \in 1..Len(pool)
    BY <1>5, <2>1 DEF PooledOnce
  <2>2. CASE i > Len(pool) /\ j > Len(pool)
    <3>1. /\ i - Len(pool) \in 1..Len(order) /\ pool'[i] = order[i - Len(pool)]
          /\ j - Len(pool) \in 1..Len(order) /\ pool'[j] = order[j - Len(pool)]
      BY <1>5, <1>6, <2>2
    <3>2. order[i - Len(pool)] = order[j - Len(pool)]
      BY <3>1
    <3>3. i - Len(pool) = j - Len(pool)
      BY <1>4, <3>1, <3>2
    <3> QED
      BY <1>5, <3>3
  <2>3. CASE i \in 1..Len(pool) /\ j > Len(pool)
    <3>1. /\ j - Len(pool) \in 1..Len(order) /\ pool'[j] = order[j - Len(pool)]
          /\ pool'[i] = pool[i]
      BY <1>5, <1>6, <2>3
    <3>2. pool'[j] \in unused
      BY <1>4, <3>1
    <3>3. pool'[i] \notin unused
      BY <1>7, <2>3, <3>1
    <3> QED
      BY <3>2, <3>3
  <2>4. CASE j \in 1..Len(pool) /\ i > Len(pool)
    BY <1>4, <1>5, <1>6, <1>7, <2>4
  <2> QED
    BY <1>6, <2>1, <2>2, <2>3, <2>4
<1>9. UNCHANGED <<conn, removed>>
  BY DEF start
<1>10. PlacesApart'
  BY <1>2, <1>4, <1>6, <1>9 DEF PlacesApart
<1> QED
  BY <1>5, <1>8, <1>9, <1>10 DEF HeldOnce

LEMMA ApartStep ==
  ASSUME PoolAssumption, PoolInv, [Next]_vars
  PROVE  Apart' /\ pool' \in Seq(Conns)
<1> USE Distinct DEF PoolInv
<1>t. TypeOK /\ Apart /\ Carried /\ pool \in Seq(Conns)
  BY DEF TypeOK
<1>1. ASSUME UNCHANGED <<pool, conn, removed, unused>>
      PROVE  Apart' /\ pool' \in Seq(Conns)
  BY <1>1, <1>t DEF Apart, PooledOnce, HeldOnce, PlacesApart
<1>2. ASSUME NEW c \in Callers,
             \/ AcquirePermit(c) \/ PermitTimeout(c) \/ CheckPopped(c) \/ Reuse(c)
             \/ ConnectFails(c) \/ CountCreated(c) \/ CountActive(c) \/ CountPushed(c)
             \/ Return(c)
      PROVE  Apart' /\ pool' \in Seq(Conns)
  BY <1>1, <1>2 DEF AcquirePermit, PermitTimeout, CheckPopped, Reuse, ConnectFails, CountCreated,
     CountActive, CountPushed, Return
<1>3. ASSUME NEW c \in Callers, Discard(c) \/ Cancel(c) \/ Retire(c) \/ Drop(c)
      PROVE  Apart' /\ pool' \in Seq(Conns)
  <2>1. Hold(c, Nothing) /\ UNCHANGED <<pool, removed, unused>>
    BY <1>3 DEF Discard, Cancel, Retire, Drop
  <2> QED
    BY <1>t, <2>1, LetGo
<1>4. ASSUME NEW c \in Callers, PopFront(c) \/ Connect(c) \/ PushBack(c)
      PROVE  Apart' /\ pool' \in Seq(Conns)
  BY <1>t, <1>4, PopFrontApart, ConnectApart, PushBackApart
<1>5. CASE CleanupTick \/ HealthSwept
  <2>1. PICK t \in Tasks : \E xs \in SUBSET InPool : TakeOut(t, xs)
    BY <1>5 DEF CleanupTick, HealthSwept
  <2>2. UNCHANGED <<conn, unused>>
    BY <1>5 DEF CleanupTick, HealthSwept
  <2> QED
    BY <1>t, <2>1, <2>2, TakeOutApart
<1>6. ASSUME NEW t \in Tasks, CountRemoved(t) PROVE Apart' /\ pool' \in Seq(Conns)
  <2>1. \A u \in Tasks : removed'[u] = IF u = t THEN {} ELSE removed[u]
    BY <1>6 DEF CountRemoved, TypeOK
  <2>2. UNCHANGED <<pool, conn, unused>>
    BY <1>6 DEF CountRemoved
  <2> QED
    BY <1>t, <2>1, <2>2 DEF Apart, PooledOnce, HeldOnce, PlacesApart
<1>7. CASE start
  BY <1>t, <1>7, StartApart
<1>8. CASE shutdown
  <2>1. pool' = <<>> /\ UNCHANGED <<conn, unused>> /\ \A u \in Tasks : removed'[u] = {}
    BY <1>8 DEF shutdown
  <2>2. pool' \in Seq(Conns) /\ Len(pool') = 0
    BY <2>1, EmptySeq
  <2> QED
    BY <1>t, <2>1, <2>2 DEF Apart, PooledOnce, HeldOnce, PlacesApart
<1>9. ASSUME \/ \E p \in Callers \cup Tasks : LockMetrics(p)
             \/ \E x \in Conns : Die(x) \/ Expire(x)
             \/ HealthTick \/ UNCHANGED vars
      PROVE  Apart' /\ pool' \in Seq(Conns)
  BY <1>1, <1>9 DEF LockMetrics, Die, Expire, HealthTick, vars
<1> QED
  BY <1>2, <1>3, <1>4, <1>5, <1>6, <1>7, <1>8, <1>9 DEF Next, CallStep, TaskStep
-----------------------------------------------------------------------------
(* The totals of created and closed connections.                               *)
IsOpen(x) ==
  \/ \E i \in 1..Len(pool) : x = pool[i]
  \/ \E t \in Tasks : x \in removed[t]
  \/ \E c \in Callers : x = conn[c] /\ conn[c] # Nothing /\ pc[c] # "created"

LEMMA OpenMembers ==
  /\ \A x : x \in Open <=> IsOpen(x)
  /\ (\A x : x \in Open <=> IsOpen(x))'
<1>1. \A x : x \in Open <=> IsOpen(x)
  BY DEF Open, InPool, Removed, IsOpen
<1>2. (\A x : x \in Open <=> IsOpen(x))'
  BY DEF Open, InPool, Removed, IsOpen
<1> QED
  BY <1>1, <1>2

(* Whatever stops being open is counted closed, what becomes open is counted   *)
(* created.                                                                    *)
LEMMA TotalsKeep ==
  ASSUME PoolAssumption, TypeOK, ClosedNotOvercounted,
         NEW R \in SUBSET Open, NEW N \in SUBSET Conns,
         \A x \in Open' : x \in Open \ R \/ x \in N,
         closed' = closed + Cardinality(R), created' = created + Cardinality(N)
  PROVE  ClosedNotOvercounted' /\ closed' \in Nat /\ created' \in Nat
<1> DEFINE o == Cardinality(Open)
           oo == Cardinality(Open')
           k == Cardinality(Open \ R)
           r == Cardinality(R)
           n == Cardinality(N)
           b == Cardinality((Open \ R) \cap N)
           u == Cardinality((Open \ R) \cup N)
<1>1. Open \subseteq Conns
  BY OpenIsSmall
<1>2. /\ IsFiniteSet(Open) /\ IsFiniteSet(Open \ R) /\ IsFiniteSet(N) /\ R \cap Open = R
      /\ IsFiniteSet((Open \ R) \cup N)
  BY <1>1, FiniteCounts
<1>3. o \in Nat /\ k \in Nat /\ r \in Nat /\ n \in Nat /\ b \in Nat
  <2>1. R \in SUBSET Conns /\ Open \ R \in SUBSET Conns /\ (Open \ R) \cap N \in SUBSET Conns
    BY <1>1
  <2> QED
    BY <1>1, <2>1, FiniteCounts
<1>4. k = o - r
  <2>1. Cardinality(Open \ R) = Cardinality(Open) - Cardinality(Open \cap R)
    BY <1>2, FS_Difference
  <2>2. Open \cap R = R
    OBVIOUS
  <2> QED
    BY <2>1, <2>2
<1>5. u = k + n - b
  BY <1>2, FS_Union
<1>6. oo <= u /\ oo \in Nat
  <2>1. Open' \subseteq (Open \ R) \cup N
    OBVIOUS
  <2>2. IsFiniteSet(Open')
    BY <1>2, <2>1, FS_Subset
  <2> QED
    BY <1>2, <2>1, <2>2, FS_Subset, FS_CardinalityType
<1>7. /\ created - closed >= o /\ created \in Nat /\ closed \in Nat
      /\ closed' = closed + r /\ created' = created + n
  BY DEF ClosedNotOvercounted, TypeOK
<1>8. created' - closed' >= oo /\ closed' \in Nat /\ created' \in Nat
  <2> HIDE DEF o, oo, k, r, n, b, u
  <2> QED
    BY <1>3, <1>4, <1>5, <1>6, <1>7
<1> QED
  BY <1>8 DEF ClosedNotOvercounted

(* A step after which nothing new is open and that counts nothing.             *)
LEMMA TotalsStand ==
  ASSUME PoolAssumption, TypeOK, ClosedNotOvercounted, \A x : IsOpen(x)' => IsOpen(x),
         UNCHANGED <<created, closed>>
  PROVE  ClosedNotOvercounted' /\ closed' \in Nat /\ created' \in Nat
<1>1. Cardinality({}) = 0
  BY FS_EmptySet
<1>2. \A x \in Open' : x \in Open \ {} \/ x \in {}
  BY OpenMembers
<1>3. {} \in SUBSET Open /\ {} \in SUBSET Conns
  OBVIOUS
<1>4. closed' = closed + Cardinality({}) /\ created' = created + Cardinality({})
  BY <1>1 DEF TypeOK
<1> QED
  BY <1>2, <1>3, <1>4, TotalsKeep
LEMMA TotalsStep ==
  ASSUME PoolAssumption, PoolInv, [Next]_vars
  PROVE  ClosedNotOvercounted' /\ closed' \in Nat /\ created' \in Nat
<1> USE Distinct DEF PoolInv
<1>t. /\ TypeOK /\ ClosedNotOvercounted /\ Carried /\ Apart
      /\ pc \in [Callers \cup Tasks -> Points] /\ conn \in [Callers -> Places]
      /\ removed \in [Tasks -> SUBSET Conns]
  BY DEF TypeOK
<1>s. ASSUME \A x : IsOpen(x)' => IsOpen(x), UNCHANGED <<created, closed>>
      PROVE  ClosedNotOvercounted' /\ closed' \in Nat /\ created' \in Nat
  BY <1>t, <1>s, TotalsStand
<1>1. ASSUME NEW c \in Callers, NEW p, Goto(c, p), pc[c] # "created",
             UNCHANGED <<pool, conn, removed, created, closed>>
      PROVE  ClosedNotOvercounted' /\ closed' \in Nat /\ created' \in Nat
  <2>1. \A d \in Callers : pc'[d] # "created" => pc[d] # "created"
    BY <1>t, <1>1 DEF Goto
  <2>2. \A x : IsOpen(x)' => IsOpen(x)
    BY <1>1, <2>1 DEF IsOpen
  <2> QED
    BY <1>1, <1>s, <2>2
<1>2. ASSUME NEW c \in Callers,
             \/ AcquirePermit(c) \/ PermitTimeout(c) \/ CheckPopped(c) \/ Reuse(c)
             \/ ConnectFails(c) \/ CountActive(c) \/ CountPushed(c) \/ Return(c)
      PROVE  ClosedNotOvercounted' /\ closed' \in Nat /\ created' \in Nat
  <2>1. /\ pc[c] # "created" /\ UNCHANGED <<pool, conn, removed, created, closed>>
        /\ \E p : Goto(c, p)
    BY <1>2 DEF AcquirePermit, PermitTimeout, CheckPopped, Reuse, ConnectFails, CountActive,
       CountPushed, Return, Update, FailOrPanic, metrics
  <2> QED
    BY <1>1, <2>1
<1>3. ASSUME NEW c \in Callers, Cancel(c) \/ Drop(c)
      PROVE  ClosedNotOvercounted' /\ closed' \in Nat /\ created' \in Nat
  <2>1. /\ Hold(c, Nothing) /\ Goto(c, "idle")
        /\ UNCHANGED <<pool, removed, created, closed>>
    BY <1>3 DEF Cancel, Drop, metrics
  <2>2. /\ \A d \in Callers : conn'[d] = IF d = c THEN Nothing ELSE conn[d]
        /\ \A d \in Callers : d # c => pc'[d] = pc[d]
    BY <1>t, <2>1 DEF Hold, Goto
  <2>3. \A x : IsOpen(x)' => IsOpen(x)
    BY <2>1, <2>2 DEF IsOpen
  <2> QED
    BY <1>s, <2>1, <2>3
<1>4. ASSUME NEW c \in Callers, PopFront(c)
      PROVE  ClosedNotOvercounted' /\ closed' \in Nat /\ created' \in Nat
  <2>1. CASE pool = <<>>
    BY <1>1, <1>4, <2>1 DEF PopFront, metrics
  <2>2. CASE pool # <<>>
    <3>1. /\ pool \in Seq(Conns) /\ pool' = Tail(pool) /\ Hold(c, Head(pool))
          /\ Goto(c, "checking") /\ UNCHANGED <<removed, created, closed>>
      BY <1>4, <2>2 DEF PopFront, TypeOK, metrics
    <3>2. Len(pool) \in Nat /\ Len(pool) # 0
      BY <2>2, <3>1, LenProperties, EmptySeq
    <3>3. Head(pool) = pool[1]
      BY <2>2, <3>1, HeadTailProperties
    <3>4. /\ Len(Tail(pool)) = Len(pool) - 1
          /\ \A i \in 1..Len(Tail(pool)) : Tail(pool)[i] = pool[i + 1]
      BY <2>2, <3>1, HeadTailProperties
    <3>5. \A i \in 1..Len(pool') : \E j \in 1..Len(pool) : pool'[i] = pool[j]
      BY <3>1, <3>2, <3>4
    <3>6. /\ \A d \in Callers : conn'[d] = IF d = c THEN pool[1] ELSE conn[d]
          /\ \A d \in Callers : d # c => pc'[d] = pc[d]
      BY <1>t, <3>1, <3>3 DEF Hold, Goto
    <3>7. 1 \in 1..Len(pool)
      BY <3>2
    <3>8. \A x : IsOpen(x)' => IsOpen(x)
      BY <3>1, <3>5, <3>6, <3>7 DEF IsOpen
    <3> QED
      BY <1>s, <3>1, <3>8
  <2> QED
    BY <2>1, <2>2
<1>5. ASSUME NEW c \in Callers, Connect(c)
      PROVE  ClosedNotOvercounted' /\ closed' \in Nat /\ created' \in Nat
  <2>1. PICK x \in unused : Hold(c, x)
    BY <1>5 DEF Connect
  <2>2. Goto(c, "created") /\ UNCHANGED <<pool, removed, created, closed>>
    BY <1>5 DEF Connect, metrics
  <2>3. /\ \A d \in Callers : conn'[d] = IF d = c THEN x ELSE conn[d]
        /\ \A d \in Callers : pc'[d] = IF d = c THEN "created" ELSE pc[d]
    BY <1>t, <2>1, <2>2 DEF Hold, Goto
  <2>4. \A y : IsOpen(y)' => IsOpen(y)
    BY <2>2, <2>3 DEF IsOpen
  <2> QED
    BY <1>s, <2>2, <2>4
<1>6. ASSUME NEW c \in Callers, PushBack(c)
      PROVE  ClosedNotOvercounted' /\ closed' \in Nat /\ created' \in Nat
  <2>1. /\ pc[c] = "pushing" /\ Hold(c, Nothing) /\ Goto(c, "pushed")
        /\ pool' = Append(pool, conn[c]) /\ UNCHANGED <<removed, created, closed>>
    BY <1>6 DEF PushBack, metrics
  <2>2. conn[c] # Nothing /\ conn[c] \in Conns
    BY <1>t, <2>1 DEF Carried, Carrying, Places
  <2>3. /\ pool \in Seq(Conns) /\ Len(pool) \in Nat
        /\ Len(pool') = Len(pool) + 1 /\ pool'[Len(pool) + 1] = conn[c]
        /\ \A i \in 1..Len(pool) : pool'[i] = pool[i]
    BY <2>1, <2>2, AppendProperties, LenProperties DEF TypeOK
  <2>4. \A i \in 1..Len(pool') : \/ i \in 1..Len(pool) /\ pool'[i] = pool[i]
                                 \/ pool'[i] = conn[c]
    BY <2>3
  <2>5. /\ \A d \in Callers : conn'[d] = IF d = c THEN Nothing ELSE conn[d]
        /\ \A d \in Callers : d # c => pc'[d] = pc[d]
    BY <1>t, <2>1 DEF Hold, Goto
  <2>6. \A x : IsOpen(x)' => IsOpen(x)
    BY <2>1, <2>2, <2>4, <2>5 DEF IsOpen
  <2> QED
    BY <1>s, <2>1, <2>6
<1>7. ASSUME NEW c \in Callers, CountCreated(c)
      PROVE  ClosedNotOvercounted' /\ closed' \in Nat /\ created' \in Nat
  <2>1. /\ pc[c] = "created" /\ Goto(c, "activated") /\ created' = created + 1
        /\ UNCHANGED <<pool, conn, removed, closed>>
    BY <1>7 DEF CountCreated, Update
  <2>2. conn[c] \in Conns
    BY <1>t, <2>1 DEF Carried, Carrying, Places
  <2>3. \A d \in Callers : d # c => pc'[d] = pc[d]
    BY <1>t, <2>1 DEF Goto
  <2>4. \A x : IsOpen(x)' => IsOpen(x) \/ x \in {conn[c]}
    BY <2>1, <2>3 DEF IsOpen
  <2>5. \A x \in Open' : x \in Open \ {} \/ x \in {conn[c]}
    BY <2>4, OpenMembers
  <2>6. Cardinality({}) = 0 /\ Cardinality({conn[c]}) = 1
    BY FS_EmptySet, FS_Singleton
  <2>7. {} \in SUBSET Open /\ {conn[c]} \in SUBSET Conns
    BY <2>2
  <2>8. closed' = closed + Cardinality({}) /\ created' = created + Cardinality({conn[c]})
    BY <1>t, <2>1, <2>6 DEF TypeOK
  <2> QED
    BY <1>t, <2>5, <2>7, <2>8, TotalsKeep
<1>8. ASSUME NEW c \in Callers, Discard(c) \/ Retire(c)
      PROVE  ClosedNotOvercounted' /\ closed' \in Nat /\ created' \in Nat
  <2>1. /\ pc[c] \in {"discard", "retire"} /\ closed' = closed + 1
        /\ Hold(c, Nothing) /\ \E p : Goto(c, p)
        /\ UNCHANGED <<pool, removed, created>>
    BY <1>8 DEF Discard, Retire, Update
  <2>2. conn[c] # Nothing /\ pc[c] # "created"
    BY <1>t, <2>1 DEF Carried, Carrying
  <2>3. /\ \A d \in Callers : conn'[d] = IF d = c THEN Nothing ELSE conn[d]
        /\ \A d \in Callers : d # c => pc'[d] = pc[d]
    BY <1>t, <2>1 DEF Hold, Goto
  <2>4. /\ \A i \in 1..Len(pool) : pool[i] # conn[c]
        /\ \A t \in Tasks : conn[c] \notin removed[t]
        /\ \A d \in Callers : d # c => conn[d] # conn[c]
    BY <1>t, <2>2 DEF Apart, PlacesApart, HeldOnce
  <2>5. \A x : IsOpen(x)' => IsOpen(x) /\ x # conn[c]
    BY <2>1, <2>3, <2>4 DEF IsOpen
  <2>6. \A x \in Open' : x \in Open \ {conn[c]} \/ x \in {}
    BY <2>5, OpenMembers
  <2>7. Cardinality({}) = 0 /\ Cardinality({conn[c]}) = 1
    BY FS_EmptySet, FS_Singleton
  <2>8. {conn[c]} \in SUBSET Open /\ {} \in SUBSET Conns
    BY <1>t, <2>2, OpenIsSmall
  <2>9. closed' = closed + Cardinality({conn[c]}) /\ created' = created + Cardinality({})
    BY <1>t, <2>1, <2>7 DEF TypeOK
  <2> QED
    BY <1>t, <2>6, <2>8, <2>9, TotalsKeep
<1>9. CASE CleanupTick \/ HealthSwept
  <2>1. PICK t \in Tasks, xs \in SUBSET InPool : TakeOut(t, xs)
    BY <1>9 DEF CleanupTick, HealthSwept
  <2>2. UNCHANGED <<conn, created, closed>>
    BY <1>9 DEF CleanupTick, HealthSwept, metrics
  <2>3. \A i \in 1..Len(pool') : \E j \in 1..Len(pool) : pool'[i] = pool[j]
    BY <1>t, <2>1, TakenOut
  <2>4. \A u \in Tasks : removed'[u] = IF u = t THEN xs ELSE removed[u]
    BY <1>t, <2>1 DEF TakeOut
  <2>5. \A x \in xs : \E i \in 1..Len(pool) : x = pool[i]
    BY DEF InPool
  <2>6. \A d \in Callers : pc'[d] = pc[d]
    BY <1>t, <2>1 DEF TakeOut, Goto
  <2>7. \A x : IsOpen(x)' => IsOpen(x)
    BY <2>2, <2>3, <2>4, <2>5, <2>6 DEF IsOpen
  <2> QED
    BY <1>s, <2>2, <2>7
<1>10. ASSUME NEW t \in Tasks, CountRemoved(t)
       PROVE  ClosedNotOvercounted' /\ closed' \in Nat /\ created' \in Nat
  <2>1. /\ closed' = closed + Cardinality(removed[t]) /\ UNCHANGED <<pool, conn, created>>
        /\ \A u \in Tasks : removed'[u] = IF u = t THEN {} ELSE removed[u]
        /\ \A d \in Callers : pc'[d] = pc[d]
    BY <1>t, <1>10 DEF CountRemoved, Goto
  <2>2. \A u \in Tasks : u # t => removed[u] \cap removed[t] = {}
    BY <1>t DEF Apart, PlacesApart, Tasks
  <2>3. /\ \A i \in 1..Len(pool) : pool[i] \notin removed[t]
        /\ \A d \in Callers : conn[d] \notin removed[t]
    BY <1>t DEF Apart, PlacesApart
  <2>4. \A x : IsOpen(x)' => IsOpen(x) /\ x \notin removed[t]
    BY <2>1, <2>2, <2>3 DEF IsOpen
  <2>5. \A x \in Open' : x \in Open \ removed[t] \/ x \in {}
    BY <2>4, OpenMembers
  <2>6. Cardinality({}) = 0
    BY FS_EmptySet
  <2>7. removed[t] \in SUBSET Open /\ {} \in SUBSET Conns
    BY <1>t, OpenIsSmall
  <2>8. created' = created + Cardinality({})
    BY <1>t, <2>1, <2>6 DEF TypeOK
  <2> QED
    BY <1>t, <2>1, <2>5, <2>7, <2>8, TotalsKeep
<1>11. CASE start
  <2>1. PICK xs \in SUBSET unused : \E order \in [1..Cardinality(xs) -> xs] :
          /\ \A x \in xs : \E i \in DOMAIN order : order[i] = x
          /\ pool' = pool \o order
          /\ created' = created + Cardinality(xs)
    BY <1>11 DEF start
  <2>2. PICK order \in [1..Cardinality(xs) -> xs] :
          /\ \A x \in xs : \E i \in DOMAIN order : order[i] = x
          /\ pool' = pool \o order
    BY <2>1
  <2>3. xs \in SUBSET Conns
    BY DEF TypeOK
  <2>4. order \in Seq(Conns) /\ \A i \in 1..Len(order) : order[i] \in xs
    BY <2>2, <2>3, Ordered
  <2>5. /\ pool \in Seq(Conns) /\ Len(pool) \in Nat /\ Len(order) \in Nat
        /\ Len(pool') = Len(pool) + Len(order)
        /\ \A i \in 1..Len(pool') :
             pool'[i] = IF i <= Len(pool) THEN pool[i] ELSE order[i - Len(pool)]
    BY <2>2, <2>4, ConcatProperties, LenProperties DEF TypeOK
  <2>6. \A i \in 1..Len(pool') :
          \/ i \in 1..Len(pool) /\ pool'[i] = pool[i]
          \/ i - Len(pool) \in 1..Len(order) /\ pool'[i] = order[i - Len(pool)]
    BY <2>5
  <2>7. \A i \in 1..Len(pool') : \/ \E j \in 1..Len(pool) : pool'[i] = pool[j]
                                 \/ pool'[i] \in xs
    BY <2>4, <2>6
  <2>8. UNCHANGED <<conn, removed, pc, closed>>
    BY <1>11 DEF start
  <2>9. \A x : IsOpen(x)' => IsOpen(x) \/ x \in xs
    BY <2>7, <2>8 DEF IsOpen
  <2>10. \A x \in Open' : x \in Open \ {} \/ x \in xs
    BY <2>9, OpenMembers
  <2>11. Cardinality({}) = 0
    BY FS_EmptySet
  <2>12. closed' = closed + Cardinality({})
    BY <1>t, <2>8, <2>11 DEF TypeOK
  <2>13. {} \in SUBSET Open
    OBVIOUS
  <2> QED
    BY <1>t, <2>1, <2>3, <2>10, <2>12, <2>13, TotalsKeep
<1>12. CASE shutdown
  <2>1. /\ pool' = <<>> /\ UNCHANGED <<conn, created, closed>>
        /\ \A u \in Tasks : removed'[u] = {}
        /\ \A d \in Callers : pc'[d] = pc[d]
    BY <1>12 DEF shutdown, metrics
  <2>2. Len(pool') = 0
    BY <2>1, EmptySeq
  <2>3. \A x : IsOpen(x)' => IsOpen(x)
    BY <2>1, <2>2 DEF IsOpen
  <2> QED
    BY <1>s, <2>1, <2>3
<1>13. ASSUME \/ \E p \in Callers \cup Tasks : LockMetrics(p)
              \/ \E x \in Conns : Die(x) \/ Expire(x)
              \/ HealthTick \/ UNCHANGED vars
       PROVE  ClosedNotOvercounted' /\ closed' \in Nat /\ created' \in Nat
  <2>1. /\ UNCHANGED <<pool, conn, removed, created, closed>>
        /\ \A d \in Callers : pc'[d] = pc[d]
    BY <1>t, <1>13 DEF LockMetrics, Die, Expire, HealthTick, Goto, vars, metrics
  <2>2. \A x : IsOpen(x)' => IsOpen(x)
    BY <2>1 DEF IsOpen
  <2> QED
    BY <1>s, <2>1, <2>2
<1> QED
  BY <1>2, <1>3, <1>4, <1>5, <1>6, <1>7, <1>8, <1>9, <1>10, <1>11, <1>12, <1>13
  DEF Next, CallStep, TaskStep
-----------------------------------------------------------------------------
(* The remaining types.                                                        *)
LEMMA TypeStep ==
  ASSUME PoolAssumption, PoolInv, [Next]_vars
  PROVE  TypeOK'
<1> USE Distinct DEF PoolInv
<1>t. TypeOK
  OBVIOUS
<1>1. pool' \in Seq(Conns) /\ permits' \in 0..MaxConns
  BY ApartStep, PermitStep
<1>2. active' \in Nat /\ closed' \in Nat /\ created' \in Nat
  BY ActiveStep, TotalsStep
<1>3. ASSUME NEW c \in Callers, CallersStep(c)
      PROVE  TypeOK'
  <2>1. /\ pc' \in [Callers \cup Tasks -> Points] /\ conn' \in [Callers -> Places]
        /\ unused' \subseteq Conns /\ UNCHANGED <<removed, phase, fate>>
    BY <1>3, CallerTypes DEF CallersStep
  <2>2. poolLock' \in {poolLock, c, Nothing} /\ metricsLock' \in {metricsLock, Nothing}
    BY <1>3 DEF CallersStep, AcquirePermit, PermitTimeout, CallStep, PopFront, CheckPopped, Reuse,
       Discard, Connect, ConnectFails, CountCreated, CountActive, Retire, PushBack, CountPushed,
       Cancel, Return, Drop, Update
  <2>3. available' \in {available, Len(pool)}
    BY <1>3 DEF CallersStep, AcquirePermit, PermitTimeout, CallStep, PopFront, CheckPopped, Reuse,
       Discard, Connect, ConnectFails, CountCreated, CountActive, Retire, PushBack, CountPushed,
       Cancel, Return, Drop, metrics
  <2>4. Len(pool) \in Nat
    BY <1>t, LenProperties DEF TypeOK
  <2> QED
    BY <1>t, <1>1, <1>2, <2>1, <2>2, <2>3, <2>4 DEF TypeOK, fate
<1>4. ASSUME TasksStep
      PROVE  TypeOK'
  <2>1. pc' \in [Callers \cup Tasks -> Points] /\ UNCHANGED conn
    BY <1>4, <1>t, TasksLeaveCallers
  <2>2. removed' \in [Tasks -> SUBSET Conns]
    <3>1. InPool \subseteq Conns
      BY <1>t, ElementOfSeq DEF InPool, TypeOK
    <3>2. \/ UNCHANGED removed
          \/ removed' = [t \in Tasks |-> {}]
          \/ \E t \in Tasks : \E xs \in SUBSET InPool : removed' = [removed EXCEPT ![t] = xs]
      BY <1>4 DEF TasksStep, TaskStep, CountRemoved, HealthSwept, TakeOut, LockMetrics, CleanupTick,
         HealthTick, start, shutdown, Die, Expire, vars
    <3> QED
      BY <1>t, <3>1, <3>2 DEF TypeOK
  <2>3. phase' \in {"new", "running", "stopped"}
    BY <1>4, <1>t DEF TasksStep, TaskStep, CountRemoved, HealthSwept, LockMetrics, CleanupTick,
       HealthTick, start, shutdown, Die, Expire, vars, TypeOK
  <2>4. unused' \subseteq Conns /\ dead' \subseteq Conns /\ expired' \subseteq Conns
    BY <1>4, <1>t DEF TasksStep, TaskStep, CountRemoved, HealthSwept, LockMetrics, CleanupTick,
       HealthTick, start, shutdown, Die, Expire, fate, vars, TypeOK
  <2>5. poolLock' \in {poolLock, "health", Nothing}
    BY <1>4 DEF TasksStep, TaskStep, CountRemoved, HealthSwept, LockMetrics, CleanupTick,
       HealthTick, start, shutdown, Die, Expire, vars
  <2>6. metricsLock' \in {metricsLock, Nothing} \cup Callers \cup Tasks
    BY <1>4 DEF TasksStep, TaskStep, CountRemoved, HealthSwept, LockMetrics, CleanupTick,
       HealthTick, start, shutdown, Die, Expire, vars, Update
  <2>7. available' \in Nat
    <3>1. \A t \in Tasks : Cardinality(removed[t]) \in Nat
      BY <1>t, FiniteCounts DEF TypeOK
    <3>2. \/ UNCHANGED available
          \/ \E t \in Tasks : available' = SatSub(available, Cardinality(removed[t]))
      BY <1>4 DEF TasksStep, TaskStep, CountRemoved, HealthSwept, LockMetrics, CleanupTick,
         HealthTick, start, shutdown, Die, Expire, vars, metrics
    <3> QED
      BY <1>t, <3>1, <3>2 DEF TypeOK, SatSub
  <2> QED
    BY <1>t, <1>1, <1>2, <2>1, <2>2, <2>3, <2>4, <2>5, <2>6, <2>7 DEF TypeOK
<1> QED
  BY <1>3, <1>4, Steps

(* A new pool is empty, all its permits are free.                              *)
LEMMA PoolStarts == PoolAssumption /\ Init => PoolInv
<1> SUFFICES ASSUME PoolAssumption, Init PROVE PoolInv
  OBVIOUS
<1> USE Distinct DEF Init
<1>1. pool \in Seq(Conns) /\ Len(pool) = 0
  BY EmptySeq
<1>2. TypeOK
  BY <1>1 DEF TypeOK, PoolAssumption, Points, Updating, Places
<1>3. Carried
  BY DEF Carried, Carrying
<1>4. Apart
  BY <1>1 DEF Apart, PooledOnce, HeldOnce, PlacesApart, Tasks
<1>5. Calling = {} /\ CountedActive = {} /\ Open = {}
  <2>1. Calling = {} /\ CountedActive = {}
    BY DEF Calling, CountedActive
  <2>2. \A x : ~IsOpen(x)
    BY <1>1 DEF IsOpen
  <2> QED
    BY <2>1, <2>2, OpenMembers
<1>6. Cardinality({}) = 0
  BY FS_EmptySet
<1>7. PermitsConserved /\ ActiveCoversHeld /\ ClosedNotOvercounted
  BY <1>5, <1>6 DEF PermitsConserved, ActiveCoversHeld, ClosedNotOvercounted, PoolAssumption
<1> QED
  BY <1>2, <1>3, <1>4, <1>7 DEF PoolInv

(* However gets, returns, cancelled calls, sweeps, starts and shutdowns of     *)
(* connection_pool.rs interleave, every connection is in one place, the permit *)
(* of every call that is over is back, active_connections covers what callers  *)
(* hold and no connection is counted closed twice or while it is in use.       *)
THEOREM PoolIsConserved ==
  ASSUME PoolAssumption
  PROVE  Spec => [](TypeOK /\ PoolConserves)
<1>1. Init => PoolInv
  BY PoolStarts
<1>2. PoolInv /\ [Next]_vars => PoolInv'
  BY TypeStep, CarriedStep, ApartStep, PermitStep, ActiveStep, TotalsStep DEF PoolInv
<1>3. PoolInv => TypeOK /\ PoolConserves
  BY ApartIsOnePlace DEF PoolInv, PoolConserves
<1> QED
  BY <1>1, <1>2, <1>3, PTL DEF Spec
=============================================================================
