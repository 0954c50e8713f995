------------------------------ MODULE LazyInit ------------------------------
(***************************************************************************)
(* The lazily created components of the server (src/lazy_init.rs).         *)
(*                                                                         *)
(* Every component has a OnceCell and a getter: return what the cell has,  *)
(* or lock init_mutex, look again, get the components this one is built    *)
(* from - with the same getters, under the guard - build it and fill the   *)
(* cell.  There is one init_mutex for all of them, a tokio mutex, which is *)
(* not reentrant.  A call is a stack of getters; the top one runs.         *)
(***************************************************************************)
EXTENDS Naturals, Sequences

CONSTANTS
  Callers,    \* tasks that handle tool calls
  Requested,  \* the components that tools ask for (bounds the run)
  Alike,      \* those that are alike, a sequence: bounds the run to behaviours
              \* in which each is asked for after the ones before it are built
  Features    \* the cargo features of the build

Preload == "preload"
Nobody == "none"
CallersAssumption == Preload \notin Callers /\ Nobody \notin Callers

Processors ==
  {"entity_processor", "profiler_processor", "visual_overlay_processor",
   "query_builder_processor", "memory_profiler_processor", "session_processor",
   "issue_detector_processor", "performance_budget_processor"}

Components == Processors \cup
  {"entity_inspector", "system_profiler", "debug_command_router",
   "pattern_learning_system", "suggestion_engine", "workflow_automation",
   "hot_reload_system"}

RequestedAssumption == Requested \subseteq Components

(* Mutant: the getter asks for the name that a processor is registered by. *)
PartsByName(x) ==
  CASE x = "entity_processor" -> <<"entity_inspection">>
    [] x = "profiler_processor" -> <<"system_profiling">>
    [] OTHER -> <<>>

(* The getters that the getter of component x awaits under its guard.      *)
PartsOf(x) ==
  CASE x = "entity_processor"     -> <<"entity_inspector">>
    [] x = "profiler_processor"   -> <<"system_profiler">>
    [] x = "debug_command_router" ->
         <<"entity_processor", "profiler_processor", "visual_overlay_processor",
           "query_builder_processor", "memory_profiler_processor", "session_processor",
           "issue_detector_processor", "performance_budget_processor">>
    [] x = "suggestion_engine"    -> <<"pattern_learning_system">>
    [] x = "workflow_automation"  -> <<"pattern_learning_system", "suggestion_engine">>
    [] x = "hot_reload_system"    ->
         <<"pattern_learning_system", "suggestion_engine", "workflow_automation">>
    [] OTHER                      -> <<>>

(* What preload_critical_components gets, by the features of the build.    *)
If(feature, xs) == IF feature \in Features THEN xs ELSE <<>>
preload_critical_components ==
  If("entity-inspection", <<"entity_inspector", "entity_processor">>)
    \o If("performance-profiling", <<"system_profiler", "profiler_processor">>)
    \o If("session-management", <<"session_processor">>)

VARIABLES
  built,  \* how often each component has been built
  cell,   \* the components whose OnceCell is filled
  owner,  \* who holds init_mutex
  stack,  \* the getters each process is in, innermost first
  todo    \* what the preloading task has still to get

vars == <<built, cell, owner, stack, todo>>
Processes == Callers \cup {Preload}

Init ==
  /\ built = [x \in Components |-> 0]
  /\ cell = {}
  /\ owner = Nobody
  /\ stack = [p \in Processes |-> <<>>]
  /\ todo = preload_critical_components

Getter(x) == [of |-> x, at |-> "look", got |-> 0]
In(p, point) == stack[p] # <<>> /\ Head(stack[p]).at = point
Top(p) == Head(stack[p])
SetTop(p, frame) == stack' = [stack EXCEPT ![p] = <<frame>> \o Tail(@)]

(* The getter returns; the one it was called by, if any, has one part more. *)
Return(p) ==
  LET rest == Tail(stack[p]) IN
  stack' = [stack EXCEPT ![p] =
    IF rest = <<>> THEN <<>> ELSE <<[Head(rest) EXCEPT !.got = @ + 1]>> \o Tail(rest)]

(* A tool asks for a component; the preloading task gets its next one.     *)
Get(c, x) ==
  /\ stack[c] = <<>>
  /\ \A i, j \in DOMAIN Alike : i < j /\ Alike[j] = x => Alike[i] \in cell
  /\ stack' = [stack EXCEPT ![c] = <<Getter(x)>>]
  /\ UNCHANGED <<built, cell, owner, todo>>

PreloadNext ==
  /\ stack[Preload] = <<>> /\ todo # <<>>
  /\ stack' = [stack EXCEPT ![Preload] = <<Getter(Head(todo))>>]
  /\ todo' = Tail(todo)
  /\ UNCHANGED <<built, cell, owner>>

Look(p) ==
  /\ In(p, "look")
  /\ IF Top(p).of \in cell THEN Return(p) ELSE SetTop(p, [Top(p) EXCEPT !.at = "lock"])
  /\ UNCHANGED <<built, cell, owner, todo>>

(* Mutant: no second look after the lock.                                  *)
LockBuilds(p) ==
  /\ In(p, "lock")
  /\ owner = Nobody
  /\ SetTop(p, [Top(p) EXCEPT !.at = "build"]) /\ owner' = p
  /\ UNCHANGED <<built, cell, todo>>

(* Mutant: the guard of a second look that finds the component is kept.    *)
LockKeepsGuard(p) ==
  /\ In(p, "lock")
  /\ owner = Nobody
  /\ IF Top(p).of \in cell
       THEN Return(p) /\ owner' = p
       ELSE SetTop(p, [Top(p) EXCEPT !.at = "build"]) /\ owner' = p
  /\ UNCHANGED <<built, cell, todo>>

(* init_mutex is free: take it and look again.                             *)
Lock(p) ==
  /\ In(p, "lock")
  /\ owner = Nobody
  /\ IF Top(p).of \in cell
       THEN Return(p) /\ UNCHANGED owner
       ELSE SetTop(p, [Top(p) EXCEPT !.at = "build"]) /\ owner' = p
  /\ UNCHANGED <<built, cell, todo>>

GetPart(p) ==
  /\ In(p, "build")
  /\ Top(p).got < Len(PartsOf(Top(p).of))
  /\ stack' = [stack EXCEPT ![p] = <<Getter(PartsOf(Top(p).of)[Top(p).got + 1])>> \o @]
  /\ UNCHANGED <<built, cell, owner, todo>>

(* Mutant: the cell is filled before the last part has been got.           *)
FillEarly(p) ==
  /\ In(p, "build")
  /\ Top(p).got + 1 >= Len(PartsOf(Top(p).of))
  /\ cell' = cell \cup {Top(p).of}
  /\ built' = [built EXCEPT ![Top(p).of] = @ + 1]
  /\ owner' = Nobody
  /\ Return(p)
  /\ UNCHANGED todo

(* All parts are there: build, fill the cell, drop the guard.              *)
Fill(p) ==
  /\ In(p, "build")
  /\ Top(p).got = Len(PartsOf(Top(p).of))
  /\ cell' = cell \cup {Top(p).of}
  /\ built' = [built EXCEPT ![Top(p).of] = @ + 1]
  /\ owner' = Nobody
  /\ Return(p)
  /\ UNCHANGED todo

Step(p) == Look(p) \/ Lock(p) \/ GetPart(p) \/ Fill(p)

Next ==
  \/ \E c \in Callers, x \in Requested : Get(c, x)
  \/ PreloadNext
  \/ \E p \in Processes : Step(p)

Spec == Init /\ [][Next]_vars

(* tokio polls every ready task, and its mutex serves waiters in order.    *)
Fairness == WF_vars(PreloadNext) /\ \A p \in Processes : SF_vars(Step(p))
FairSpec == Spec /\ Fairness

-----------------------------------------------------------------------------
Frames == [of : Components, at : {"look", "lock", "build"}, got : 0..8]
TypeOK ==
  /\ built \in [Components -> Nat]
  /\ cell \subseteq Components
  /\ owner \in Processes \cup {Nobody}
  /\ stack \in [Processes -> Seq(Frames)]
  /\ todo \in Seq(Components)

(* lazy_init_integration_tests.rs:122, "All concurrent requests should get *)
(* the same instance": whoever races for a component, it is built at most  *)
(* once, so what a getter built is what the cell has.                      *)
BuiltOnce == \A x \in Components : built[x] = IF x \in cell THEN 1 ELSE 0

(* lazy_init.rs:340, "This ensures the router is fully configured before   *)
(* being returned": nobody gets the router, or any other component, before *)
(* everything it is built from is there.                                   *)
BuiltFromParts ==
  \A x \in cell : \A i \in DOMAIN PartsOf(x) : PartsOf(x)[i] \in cell

Gets(p) == stack[p] # <<>>
GetsRouter(c) == Gets(c) /\ stack[c][Len(stack[c])].of = "debug_command_router"

(* A getter that needs init_mutex while its own caller holds the guard.    *)
SelfLocked == \E p \in Processes : owner = p /\ In(p, "lock")

(* No getter is kept waiting except by a process that waits for its own    *)
(* guard: the calls of other processes never deadlock with each other.     *)
GetsEndUnlessSelfLocked ==
  \A p \in Processes : Gets(p) ~> ~Gets(p) \/ SelfLocked

(* lazy_init_integration_tests.rs:244, "Debug router initialization should *)
(* complete within 5 seconds": a call that asks for the router gets it.    *)
RouterCompletes == \A c \in Callers : GetsRouter(c) ~> ~Gets(c)
=============================================================================
