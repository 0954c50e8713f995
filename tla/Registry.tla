------------------------------ MODULE Registry ------------------------------
(* The registry of command handlers (brp_command_handler.rs): a request is     *)
(* given to the handler of highest priority that takes it, after the checks of *)
(* the validator (brp_validation.rs), each of which takes its own lock; the    *)
(* debug handler hands its commands to the debug router (debug_brp_handler.rs).*)
EXTENDS Naturals, Sequences, FiniteSets, Functions

CONSTANTS
  Callers,
  Sessions,
  Kinds,        \* [kind -> [by : the handlers that take it, level, entity]]
  Handlers,     \* [handler -> priority, counted up from the lowest]
  Entities,
  Sizes, MaxSize, \* sizes of requests, and max_request_size
  RateLimit,    \* rate_limit
  Window,       \* RATE_LIMIT_WINDOW, in ticks
  Enforced,     \* enforce_permissions
  MaxTime, MaxRequests, MaxUpdates, \* bounds on the clock and the steps
  None

RegistryAssumption == RateLimit \in Nat \ {0} /\ Window \in Nat \ {0}

Read == 1

VARIABLES
  now,
  handlers,     \* the registered handlers in the order they are asked
  sessions,     \* user_sessions: [session -> [level, in_window, window_start]]
  existing,     \* entity_tracker: the entities it knows
  request,      \* [caller -> [at, session, kind, entity, by]]
  passed,       \* [session -> the times requests passed the rate limit]
  handled,      \* how many requests each handler got
  requests, updates

registryVars == <<now, handlers, sessions, existing, request, passed, handled, requests, updates>>

NoRequest == [at |-> "idle", session |-> None, kind |-> None, entity |-> None, by |-> None]

Init ==
  /\ now = 0 /\ handlers = << >> /\ sessions = << >> /\ existing = {}
  /\ request = [c \in Callers |-> NoRequest] /\ passed = [s \in Sessions |-> << >>]
  /\ handled = [h \in DOMAIN Handlers |-> 0] /\ requests = 0 /\ updates = 0

Put(f, k, v) == [x \in DOMAIN f \cup {k} |-> IF x = k THEN v ELSE f[x]]
SessionOf(s) == IF s \in DOMAIN sessions THEN sessions[s]
                ELSE [level |-> Read, in_window |-> 0, window_start |-> now]

-----------------------------------------------------------------------------
(* Sorted by falling priority; the sort keeps the order of equals.             *)
register(h) ==
  LET higher == SelectSeq(handlers, LAMBDA g : Handlers[g] >= Handlers[h])
      lower == SelectSeq(handlers, LAMBDA g : Handlers[g] < Handlers[h])
  IN  /\ h \notin Range(handlers) /\ handlers' = (higher \o <<h>>) \o lower
      /\ UNCHANGED <<now, sessions, existing, request, passed, handled, requests, updates>>

find_handler(kind) ==
  LET takers == SelectSeq(handlers, LAMBDA h : h \in Kinds[kind].by)
  IN  IF takers = << >> THEN None ELSE Head(takers)

(* A request that no handler takes, and one that is too large, ends at once.   *)
process_with_session(c, s, kind, e, size) ==
  /\ request[c].at = "idle" /\ requests < MaxRequests /\ requests' = requests + 1
  /\ request' = IF find_handler(kind) = None \/ size > MaxSize THEN request
                ELSE [request EXCEPT ![c] = [at |-> "rate", session |-> s, kind |-> kind,
                        entity |-> IF Kinds[kind].entity THEN e ELSE None,
                        by |-> find_handler(kind)]]
  /\ UNCHANGED <<now, handlers, sessions, existing, passed, handled, updates>>

(* Mutant: a window that is over is emptied and not started anew.              *)
InWindow_not_restarted(v) ==
  IF now - v.window_start >= Window THEN [v EXCEPT !.in_window = 0] ELSE v
InWindow(v) ==
  IF now - v.window_start >= Window THEN [v EXCEPT !.in_window = 0, !.window_start = now] ELSE v

validate_rate_limit(c) ==
  LET s == request[c].session
      v == InWindow(SessionOf(s))
      passes == v.in_window < RateLimit
  IN  /\ request[c].at = "rate"
      /\ sessions' = Put(sessions, s, IF passes THEN [v EXCEPT !.in_window = @ + 1] ELSE v)
      /\ passed' = IF passes THEN [passed EXCEPT ![s] = Append(@, now)] ELSE passed
      /\ request' = [request EXCEPT ![c] = IF passes THEN [@ EXCEPT !.at = "permission"] ELSE NoRequest]
      /\ UNCHANGED <<now, handlers, existing, handled, requests, updates>>

(* A session is made by the rate limit, with the right to read.                *)
validate_permissions(c) ==
  LET may == ~Enforced \/ sessions[request[c].session].level >= Kinds[request[c].kind].level
  IN  /\ request[c].at = "permission"
      /\ request' = [request EXCEPT ![c] = IF may THEN [@ EXCEPT !.at = "exists"] ELSE NoRequest]
      /\ UNCHANGED <<now, handlers, sessions, existing, passed, handled, requests, updates>>

(* The limits on the request's values and on the types of its components are   *)
(* conditions on the request alone: it meets them or it ends here.             *)
validate_entity_existence(c) ==
  LET known == request[c].entity \in existing \cup {None}
  IN  /\ request[c].at = "exists"
      /\ \E valid \in BOOLEAN :
           request' = [request EXCEPT ![c] = IF known /\ valid THEN [@ EXCEPT !.at = "handle"]
                                             ELSE NoRequest]
      /\ UNCHANGED <<now, handlers, sessions, existing, passed, handled, requests, updates>>

(* The core handler answers "success" by itself, the debug handler by what the *)
(* debug router says.                                                          *)
handle(c) ==
  /\ request[c].at = "handle" /\ request' = [request EXCEPT ![c] = NoRequest]
  /\ handled' = [handled EXCEPT ![request[c].by] = @ + 1]
  /\ UNCHANGED <<now, handlers, sessions, existing, passed, requests, updates>>

update_session_permissions(s, level) ==
  /\ updates < MaxUpdates /\ updates' = updates + 1
  /\ sessions' = Put(sessions, s, [SessionOf(s) EXCEPT !.level = level])
  /\ UNCHANGED <<now, handlers, existing, request, passed, handled, requests>>

(* Called from outside; how old the entities are is never asked.               *)
update_entities(entities) ==
  /\ updates < MaxUpdates /\ updates' = updates + 1 /\ existing' = entities
  /\ UNCHANGED <<now, handlers, sessions, request, passed, handled, requests>>

Tick ==
  /\ now < MaxTime /\ now' = now + 1
  /\ UNCHANGED <<handlers, sessions, existing, request, passed, handled, requests, updates>>

Next ==
  \/ Tick \/ \E h \in DOMAIN Handlers : register(h)
  \/ \E c \in Callers :
       \/ validate_rate_limit(c) \/ validate_permissions(c) \/ validate_entity_existence(c) \/ handle(c)
       \/ \E s \in Sessions, k \in DOMAIN Kinds, e \in Entities, size \in Sizes :
            process_with_session(c, s, k, e, size)
  \/ \E s \in Sessions, level \in 1..3 : update_session_permissions(s, level)
  \/ \E entities \in SUBSET Entities : update_entities(entities)

Spec == Init /\ [][Next]_registryVars

-----------------------------------------------------------------------------
TypeOK ==
  /\ DOMAIN sessions \subseteq Sessions /\ IsInjective(handlers)
  /\ \A c \in Callers : request[c].at \in {"idle", "rate", "permission", "exists", "handle"}

(* However the requests of a session fall on the windows, no more than twice   *)
(* the limit passes in less than a window's time.                              *)
BurstBounded ==
  \A s \in Sessions : \A i \in DOMAIN passed[s] :
    i + 2 * RateLimit \in DOMAIN passed[s] => passed[s][i + 2 * RateLimit] - passed[s][i] >= Window

(* brp_validation.rs:40, "Rate limit (operations per second)".                 *)
RateIsPerWindow ==
  \A s \in Sessions : \A i \in DOMAIN passed[s] :
    i + RateLimit \in DOMAIN passed[s] => passed[s][i + RateLimit] - passed[s][i] >= Window
=============================================================================
