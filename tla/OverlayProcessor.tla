--------------------------- MODULE OverlayProcessor ---------------------------
(***************************************************************************)
(* The router's processor of SetVisualDebug (visual_debug_overlay_          *)
(* processor.rs): it sends an overlay to the game while it holds the write  *)
(* guard of its own state, and keeps the overlay only when the game has     *)
(* acknowledged it.                                                         *)
(***************************************************************************)
EXTENDS Naturals, FiniteSets, FiniteSetsExt

CONSTANTS
    Tasks,      \* the tasks the router runs commands in
    Types,      \* overlay types
    Configs,    \* configurations
    Large,      \* the configurations above 10,000 bytes
    Renders,    \* render times in microseconds
    Budget,     \* performance_budget_us
    MaxCalls,   \* bound: commands
    None        \* no task, no answer

OverlayProcessorAssumption ==
    /\ Large \subseteq Configs /\ Renders \subseteq Nat /\ 0 \in Renders
    /\ Budget \in Nat /\ None \notin Tasks \cup Configs

VARIABLES
    overlays,  \* type -> enabled, config, render time
    total,     \* total_metrics.render_time_us
    lock,      \* the task that holds the state
    link,      \* is_connected of the client
    job,       \* task -> the overlay it sends
    game,      \* what the game shows: type -> enabled, config
    answer,    \* task -> enabled, config and over_budget of its last answer
    acked,     \* history: the last overlay of a type the game acknowledged
    calls

vars == <<overlays, total, lock, link, job, game, answer, acked, calls>>

NoJob == [at |-> "none"]
Setting == [enabled : BOOLEAN, config : Configs \cup {None}]

(* The stored overlays are settings with the metrics the game reported. *)
TypeOK ==
    /\ DOMAIN overlays \subseteq Types
    /\ \A y \in DOMAIN overlays :
          overlays[y].shown \in Setting /\ overlays[y].render \in Renders
    /\ total \in Nat /\ lock \in Tasks \cup {None} /\ link \in BOOLEAN
    /\ \A t \in Tasks : job[t].at \in {"none", "send"}
    /\ DOMAIN game \subseteq Types /\ DOMAIN acked \subseteq Types
    /\ calls \in 0..MaxCalls

Init ==
    /\ overlays = <<>> /\ total = 0 /\ lock = None /\ link = TRUE
    /\ job = [t \in Tasks |-> NoJob] /\ game = <<>>
    /\ answer = [t \in Tasks |-> None] /\ acked = <<>> /\ calls = 0

With(f, k, v) == [x \in DOMAIN f \cup {k} |-> IF x = k THEN v ELSE f[x]]

(* validate: a large configuration is refused. *)
Valid(g) == g \notin Large

(* A command is taken up with the state's write guard. *)
Takes(t) ==
    /\ job[t] = NoJob /\ lock = None /\ calls < MaxCalls
    /\ calls' = calls + 1

SetVisualDebug(t, y, s) ==
    /\ Takes(t) /\ Valid(s.config)
    /\ lock' = t
    /\ job' = [job EXCEPT ![t] = [at |-> "send", type |-> y, new |-> s]]
    /\ UNCHANGED <<overlays, total, link, game, answer, acked>>

LinkChanges == link' = ~link /\ UNCHANGED <<overlays, total, lock, job, game,
                                            answer, acked, calls>>

(* A new overlay starts with metrics of its own; the totals are only     *)
(* summed again when metrics arrive.                                     *)
Stored(y, s) == With(overlays, y, [shown |-> s, render |-> 0])

(* Mutant: the overlay is kept whatever the game says. *)
KeptAfter_any(acknowledged, y, s) == Stored(y, s)

(* Only an acknowledged overlay is kept; otherwise sync_overlay_to_bevy's *)
(* error leaves the state alone.                                          *)
KeptAfter(acknowledged, y, s) == IF acknowledged THEN Stored(y, s)
                                 ELSE overlays

Over == total > Budget

Ends(t, acknowledged, applied) ==
    LET y == job[t].type
        s == job[t].new
    IN /\ overlays' = KeptAfter(acknowledged, y, s)
       /\ game' = IF applied THEN With(game, y, s) ELSE game
       /\ acked' = IF acknowledged THEN With(acked, y, s) ELSE acked
       /\ answer' = [answer EXCEPT ![t] =
             IF acknowledged THEN [type |-> y, shown |-> s, over |-> Over]
             ELSE None]
       /\ lock' = None /\ job' = [job EXCEPT ![t] = NoJob]
       /\ UNCHANGED <<total, link, calls>>

(* The game applies and acknowledges; answers with an error or not with a *)
(* debug response; or the answer of what it applied is lost.              *)
Acknowledged(t) == job[t].at = "send" /\ link /\ Ends(t, TRUE, TRUE)
Refused(t) == job[t].at = "send" /\ Ends(t, FALSE, FALSE)
AnswerLost(t) == job[t].at = "send" /\ link /\ Ends(t, FALSE, TRUE)

(* Metrics reach the state from outside, through get_state; those of an  *)
(* unknown overlay only have the totals summed again.                    *)
RenderTotal(o) ==
    FoldSet(LAMBDA y, n : n + (IF o[y].shown.enabled THEN o[y].render ELSE 0),
            0, DOMAIN o)

update_metrics(t, y, r) ==
    /\ Takes(t)
    /\ overlays' = IF y \in DOMAIN overlays
                   THEN [overlays EXCEPT ![y].render = r] ELSE overlays
    /\ total' = RenderTotal(overlays')
    /\ UNCHANGED <<lock, link, job, game, answer, acked>>

(* GetStatus reports the number of overlays, enabled or not, as sessions. *)
GetStatus(t) ==
    /\ Takes(t)
    /\ answer' = [answer EXCEPT ![t] =
         [sessions |-> Cardinality(DOMAIN overlays), over |-> Over]]
    /\ UNCHANGED <<overlays, total, lock, link, job, game, acked>>

Next ==
    \/ LinkChanges
    \/ \E t \in Tasks :
          \/ \E y \in Types, s \in Setting : SetVisualDebug(t, y, s)
          \/ Acknowledged(t) \/ Refused(t) \/ AnswerLost(t)
          \/ \E y \in Types, r \in Renders : update_metrics(t, y, r)
          \/ GetStatus(t)

Spec == Init /\ [][Next]_vars

(***************************************************************************)
(* Properties                                                              *)
(***************************************************************************)

(* What the processor reports of an overlay is the last setting the game  *)
(* acknowledged, through refusals, lost answers and disconnections.       *)
StatusIsAcknowledged ==
    /\ DOMAIN overlays = DOMAIN acked
    /\ \A y \in DOMAIN overlays : overlays[y].shown = acked[y]

(* The budget is judged by the overlays that are enabled now: after an     *)
(* overlay was switched off its render time no longer counts.              *)
TotalIsOfEnabled == total = RenderTotal(overlays)
=============================================================================
