------------------------------- MODULE Overlays -------------------------------
(***************************************************************************)
(* The overlay manager (visual_debug_overlay.rs): the state of every        *)
(* overlay behind one lock, sent to the game after each change.  The lock   *)
(* is a tokio RwLock, which is not reentrant: setting an overlay sends the  *)
(* new state while its own write guard is still held.                       *)
(***************************************************************************)
EXTENDS Naturals, Sequences, FiniteSets, Functions

CONSTANTS
    Tasks,       \* callers of the manager
    Types,       \* overlay types
    Markers,     \* the type of the debug markers
    Ids,         \* marker ids
    Times,       \* frame times an overlay may report
    Window,      \* frame times kept per overlay (60)
    Budget,      \* performance_budget_ms
    WarnEvery,   \* clock steps between two warnings (5 s)
    GlobalOn,    \* OverlayConfig.enabled
    MaxTime,     \* bound: clock
    MaxCalls,    \* bound: calls of the manager
    None         \* no task

OverlaysAssumption ==
    /\ Markers \in Types /\ None \notin Tasks
    /\ Window \in Nat \ {0} /\ Times \subseteq Nat /\ Budget \in Nat

VARIABLES
    states,    \* overlay_states: type -> enabled, markers, impact
    writer,    \* the task that holds the write guard of overlay_states
    readers,   \* the tasks that hold a read guard of it
    tracker,   \* frame_times, total, exceeded, last_warning
    client,    \* the task that holds the BRP client
    held,      \* the task that holds the tracker
    job,       \* task -> what it does
    game,      \* what the game shows: type -> enabled, markers
    now, calls

vars == <<states, writer, readers, tracker, client, held, job, game, now,
          calls>>

NoJob == [at |-> "none"]

(* "map": the config has a "markers" object; one that set_overlay_enabled *)
(* was given may lack it.                                                  *)
OverlayState == [enabled : BOOLEAN, map : BOOLEAN, markers : SUBSET Ids,
                 impact : Times \cup {0}]

(* The guards are those of a lock: one writer or readers. *)
TypeOK ==
    /\ DOMAIN states \subseteq Types
    /\ \A y \in DOMAIN states : states[y] \in OverlayState
    /\ writer \in Tasks \cup {None} /\ readers \subseteq Tasks
    /\ writer # None => readers = {}
    /\ client \in Tasks \cup {None} /\ held \in Tasks \cup {None}
    /\ \A t \in Tasks :
          job[t].at \in {"none", "sync", "send", "clear", "measure"}
    /\ DOMAIN game \subseteq Types
    /\ now \in 0..MaxTime /\ calls \in 0..MaxCalls

Init ==
    /\ states = <<>> /\ writer = None /\ readers = {}
    /\ tracker = [times |-> <<>>, total |-> 0, exceeded |-> FALSE,
                  warned |-> 0, last |-> FALSE]
    /\ client = None /\ held = None
    /\ job = [t \in Tasks |-> NoJob]
    /\ game = <<>> /\ now = 0 /\ calls = 0

Tick == now < MaxTime /\ now' = now + 1
        /\ UNCHANGED <<states, writer, readers, tracker, client, held, job,
                       game, calls>>

Free == writer = None /\ readers = {}

Called(t) == job[t] = NoJob /\ calls < MaxCalls /\ calls' = calls + 1

With(f, k, v) == [x \in DOMAIN f \cup {k} |-> IF x = k THEN v ELSE f[x]]

(* The new state is inserted and the write guard kept: highlight_entities, *)
(* clear_highlights, the show_ calls and the SetVisualDebug command are    *)
(* this call.                                                              *)
set_overlay_enabled(t, y, on) ==
    /\ Called(t) /\ (on => GlobalOn) /\ Free
    /\ \E b \in BOOLEAN : states' = With(states, y,
          [enabled |-> on, map |-> b, markers |-> {}, impact |-> 0])
    /\ writer' = t
    /\ job' = [job EXCEPT ![t] = [at |-> "sync", type |-> y]]
    /\ UNCHANGED <<readers, tracker, client, held, game, now>>

(* A marker is added or removed under the write guard, which is dropped    *)
(* before the game is told.  An overlay whose config has no marker object  *)
(* swallows the marker.                                                    *)
Marked(m) ==
    IF Markers \in DOMAIN states
    THEN IF states[Markers].map
         THEN [states EXCEPT ![Markers].markers = @ \cup {m}] ELSE states
    ELSE With(states, Markers, [enabled |-> TRUE, map |-> TRUE,
                                markers |-> {m}, impact |-> 0])

Unmarked(m) ==
    IF Markers \in DOMAIN states
    THEN [states EXCEPT ![Markers].markers = @ \ {m}]
    ELSE states

MarkersChange(t, m) ==
    /\ Called(t) /\ Free
    /\ states' \in {Marked(m), Unmarked(m)}
    /\ job' = [job EXCEPT ![t] = [at |-> "sync", type |-> Markers]]
    /\ UNCHANGED <<writer, readers, tracker, client, held, game, now>>

(* Every overlay is switched off and sent, under one write guard; with no *)
(* overlay there is nothing to send.                                      *)
clear_all_overlays(t) ==
    /\ Called(t) /\ Free
    /\ IF states = <<>>
       THEN UNCHANGED <<states, writer, job>>
       ELSE \E y \in DOMAIN states :
              /\ states' = [states EXCEPT ![y].enabled = FALSE]
              /\ writer' = t
              /\ job' = [job EXCEPT ![t] = [at |-> "sync", type |-> y]]
    /\ UNCHANGED <<readers, tracker, client, held, game, now>>

(* sync_overlay_state: a read guard of the states, then the client; both *)
(* are kept until the game has answered.                                 *)
(* The part of an overlay's state that the request carries. *)
Shown(s) == [enabled |-> s.enabled, map |-> s.map, markers |-> s.markers]

(* Mutant: the state is cloned out of the lock. *)
Guarded_clone(t) == readers

(* The read guard lives until sync_overlay_state returns. *)
Guarded(t) == readers \cup {t}

(* With no state for the type nothing is sent. *)
SyncReads(t) ==
    /\ job[t].at = "sync" /\ writer = None
    /\ IF job[t].type \in DOMAIN states
       THEN /\ readers' = Guarded(t)
            /\ job' = [job EXCEPT ![t] =
                 [at |-> "send", type |-> @.type,
                  sent |-> Shown(states[@.type])]]
       ELSE job' = [job EXCEPT ![t] = NoJob] /\ UNCHANGED readers
    /\ UNCHANGED <<states, writer, tracker, client, held, game, now, calls>>

SyncTakesClient(t) ==
    /\ job[t].at = "send" /\ client = None /\ client' = t
    /\ UNCHANGED <<states, writer, readers, tracker, held, job, game, now,
                   calls>>

(* The game applies the request and answers, or the request fails: the    *)
(* state that could not be sent stays and the call ends with the error.   *)
SyncEnds(t) ==
    /\ job[t].at = "send" /\ client = t
    /\ \/ game' = With(game, job[t].type, job[t].sent)
       \/ UNCHANGED game
    /\ client' = None /\ readers' = readers \ {t}
    /\ job' = [job EXCEPT ![t] = NoJob]
    /\ UNCHANGED <<states, writer, tracker, held, now, calls>>

(* A frame time: the window of its overlay, the sum of the averages and   *)
(* the budget.  Overlays that were switched off keep their averages.      *)
Mean(q) == SumFunction(q) \div Len(q)

PushWithin(q, x) == IF Len(q) >= Window THEN Append(Tail(q), x)
                    ELSE Append(q, x)

Total(f) == SumFunction([y \in DOMAIN f |-> Mean(f[y])])

Tracked(y, x) ==
    LET old == IF y \in DOMAIN tracker.times THEN tracker.times[y] ELSE <<>>
        f == With(tracker.times, y, PushWithin(old, x))
        over == Total(f) > Budget
        warns == over /\ (tracker.last =>
                            now - tracker.warned >= WarnEvery)
    IN [times |-> f, total |-> Total(f), exceeded |-> over,
        warned |-> IF warns THEN now ELSE tracker.warned,
        last |-> tracker.last \/ warns]

update_performance_metrics(t, y, x) ==
    /\ Called(t) /\ held = None /\ held' = t
    /\ tracker' = Tracked(y, x)
    /\ job' = [job EXCEPT ![t] = [at |-> "measure", type |-> y, time |-> x]]
    /\ UNCHANGED <<states, writer, readers, client, game, now>>

(* The tracker stays locked while the call waits for the states. *)
ImpactIsStored(t) ==
    /\ job[t].at = "measure" /\ Free
    /\ states' = IF job[t].type \in DOMAIN states
                 THEN [states EXCEPT ![job[t].type].impact = job[t].time]
                 ELSE states
    /\ held' = None /\ job' = [job EXCEPT ![t] = NoJob]
    /\ UNCHANGED <<writer, readers, tracker, client, game, now, calls>>

Next ==
    \/ Tick
    \/ \E t \in Tasks :
          \/ \E y \in Types, on \in BOOLEAN : set_overlay_enabled(t, y, on)
          \/ \E m \in Ids : MarkersChange(t, m)
          \/ clear_all_overlays(t)
          \/ SyncReads(t) \/ SyncTakesClient(t) \/ SyncEnds(t)
          \/ \E y \in Types, x \in Times : update_performance_metrics(t, y, x)
          \/ ImpactIsStored(t)

Spec == Init /\ [][Next]_vars

(* A waiter of a tokio lock is woken in turn, so a lock that is free again *)
(* and again is obtained; the client's requests end, if need be by timeout *)
Proceeds(t) == SyncReads(t) \/ SyncTakesClient(t) \/ SyncEnds(t)
               \/ ImpactIsStored(t)

FairSpec == Spec /\ \A t \in Tasks : SF_vars(Proceeds(t))

(***************************************************************************)
(* Properties                                                              *)
(***************************************************************************)

(* A request that is being sent carries the state the manager holds: no    *)
(* other task can change the overlays between the moment the request is    *)
(* built and the answer, so an applied request leaves the game equal to    *)
(* the manager, whatever the order in which tasks change the markers.      *)
Applies ==
    \A t \in Tasks :
        (client = t /\ client' = None /\ game' # game)
            => game'[job[t].type] = Shown(states'[job[t].type])
AppliedIsCurrent == [][Applies]_vars

(* Every call of the manager returns.  The tests call highlight_entities   *)
(* without a game and expect an error ("Will fail without actual BRP       *)
(* connection"): the call waits for the lock it holds itself.              *)
OverlayCallsEnd == \A t \in Tasks : job[t].at # "none" ~> job[t].at = "none"
=============================================================================
