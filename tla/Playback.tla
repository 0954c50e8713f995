------------------------------ MODULE Playback ------------------------------
(* The PlaybackController of playback_system.rs and the requests of            *)
(* tools/replay.rs that drive it.  Each play starts a task that, while the     *)
(* state is Playing, takes the timeline's lock, hands each due frame to a      *)
(* channel and then, under the client's lock as well, to the game.  The        *)
(* receiving end of the channel is dropped when play returns, so frames only   *)
(* pass until then.  Whether a frame is due is left open, and a recording is   *)
(* the number of its frames.                                                   *)
EXTENDS Integers, FiniteSets

CONSTANTS
  Frames,       \* frames of the recording that can be loaded
  MaxPlays      \* bound on the tasks that are started

PlaybackAssumption == Frames \in Nat \ {0} /\ MaxPlays \in Nat

Tasks == 1..MaxPlays
NoTask == 0

PlaybackState == {"Stopped", "Playing", "Paused", "Seeking", "Error"}

VARIABLES
  state,        \* PlaybackState
  total, cursor,\* frames in the timeline, and its current_frame
  task,         \* [task -> "none", "waiting", "checked", "holding", "sent", "ended"]
  frame,        \* [task -> the frame it has sent and is to sync]
  told,         \* tasks with a Stop in their control channel
  window,       \* tasks whose play has not returned: their frame receiver lives
  sender, handle,   \* the tasks of control_sender and playback_task, or NoTask
  step,         \* handle_step: "idle", "client" (holds the client), "passed"
  seeking,      \* the frame a seek waits to go to, in a set
  stopping      \* stop waits for the timeline

playbackVars == <<state, total, cursor, task, frame, told, window, sender, handle,
                  step, seeking, stopping>>

Init ==
  /\ state = "Stopped" /\ total = 0 /\ cursor = 0
  /\ task = [t \in Tasks |-> "none"] /\ frame = [t \in Tasks |-> 0]
  /\ told = {} /\ window = {} /\ sender = NoTask /\ handle = NoTask
  /\ step = "idle" /\ seeking = {} /\ stopping = FALSE

TimelineFree == \A t \in Tasks : task[t] \notin {"holding", "sent"}
ClientFree == step = "idle"

-----------------------------------------------------------------------------
load_recording ==
  /\ TimelineFree
  /\ total' = Frames /\ cursor' = 0 /\ state' = "Stopped"
  /\ UNCHANGED <<task, frame, told, window, sender, handle, step, seeking, stopping>>

(* play spawns a task even when it resumes; the paused one keeps its loop.     *)
play(t) ==
  /\ state \notin {"Playing", "Error"} /\ task[t] = "none"
  /\ \A u \in Tasks : u < t => task[u] # "none"
  /\ state' = "Playing" /\ sender' = t
  /\ task' = [task EXCEPT ![t] = "waiting"] /\ window' = window \cup {t}
  /\ UNCHANGED <<total, cursor, frame, told, handle, step, seeking, stopping>>

PlayReturns(t) ==
  /\ t \in window /\ window' = window \ {t} /\ handle' = t
  /\ UNCHANGED <<state, total, cursor, task, frame, told, sender, step, seeking, stopping>>

pause ==
  /\ state = "Playing" /\ state' = "Paused"
  /\ UNCHANGED <<total, cursor, task, frame, told, window, sender, handle, step, seeking, stopping>>

(* stop tells the last sender's task to stop, aborts the last stored task,     *)
(* which gives its locks back, and then waits for the timeline.                *)
stop ==
  /\ ~stopping /\ stopping' = TRUE /\ state' = "Stopped"
  /\ told' = told \cup ({sender} \ {NoTask})
  /\ task' = [t \in Tasks |-> IF t = handle THEN "ended" ELSE task[t]]
  /\ sender' = NoTask /\ handle' = NoTask
  /\ UNCHANGED <<total, cursor, frame, window, step, seeking>>

StopSeeks ==
  /\ stopping /\ TimelineFree /\ stopping' = FALSE
  /\ cursor' = IF total > 0 THEN 0 ELSE cursor
  /\ UNCHANGED <<state, total, task, frame, told, window, sender, handle, step, seeking>>

(* A seek to a frame or a marker; markers may lie one past the last frame.     *)
seek_to(n) ==
  /\ seeking = {} /\ seeking' = {n} /\ state' = "Seeking"
  /\ UNCHANGED <<total, cursor, task, frame, told, window, sender, handle, step, stopping>>

(* Mutant: the cursor is set without waiting for the timeline.                 *)
SeekEnds_unlocked ==
  /\ \E n \in seeking :
       IF n < total THEN state' = "Paused" /\ cursor' = n
       ELSE state' = "Error" /\ UNCHANGED cursor
  /\ seeking' = {}
  /\ UNCHANGED <<total, task, frame, told, window, sender, handle, step, stopping>>

SeekEnds ==
  /\ TimelineFree
  /\ \E n \in seeking :
       IF n < total THEN state' = "Paused" /\ cursor' = n
       ELSE state' = "Error" /\ UNCHANGED cursor
  /\ seeking' = {}
  /\ UNCHANGED <<total, task, frame, told, window, sender, handle, step, stopping>>

-----------------------------------------------------------------------------
(* The requests of tools/replay.rs.  What the controller refuses is an answer. *)
handle_play == \E t \in Tasks : play(t)

handle_pause == pause

(* To a frame of the arguments, or to that of a marker; nothing keeps either   *)
(* within the recording.                                                       *)
handle_seek == \E n \in 0..Frames : seek_to(n)

get_stats == [state |-> state, current_frame |-> cursor, total_frames |-> total]

-----------------------------------------------------------------------------
(* handle_step takes the client first; the state is read before the timeline.  *)
StepTakesClient ==
  /\ step = "idle" /\ step' = "client"
  /\ UNCHANGED <<state, total, cursor, task, frame, told, window, sender, handle, seeking, stopping>>

StepChecks ==
  /\ step = "client" /\ step' = IF state = "Playing" THEN "idle" ELSE "passed"
  /\ UNCHANGED <<state, total, cursor, task, frame, told, window, sender, handle, seeking, stopping>>

StepMoves ==
  /\ step = "passed" /\ TimelineFree /\ step' = "idle"
  /\ \/ cursor' = IF cursor + 1 < total THEN cursor + 1 ELSE cursor
     \/ cursor' = IF cursor > 0 THEN cursor - 1 ELSE cursor
  /\ UNCHANGED <<state, total, task, frame, told, window, sender, handle, seeking, stopping>>

-----------------------------------------------------------------------------
(* A tick of the task's interval.                                              *)
Tick(t) ==
  /\ task[t] = "waiting" /\ state = "Playing"
  /\ task' = [task EXCEPT ![t] = "checked"]
  /\ UNCHANGED <<state, total, cursor, frame, told, window, sender, handle, step, seeking, stopping>>

TakesTimeline(t) ==
  /\ task[t] = "checked" /\ TimelineFree
  /\ task' = [task EXCEPT ![t] = "holding"]
  /\ UNCHANGED <<state, total, cursor, frame, told, window, sender, handle, step, seeking, stopping>>

(* A due frame is sent, when somebody can receive it.                          *)
Sends(t) ==
  /\ task[t] = "holding" /\ cursor < total /\ t \in window
  /\ task' = [task EXCEPT ![t] = "sent"] /\ frame' = [frame EXCEPT ![t] = cursor]
  /\ UNCHANGED <<state, total, cursor, told, window, sender, handle, step, seeking, stopping>>

(* No frame is due, or nobody receives it: the task waits for the next tick.   *)
Breaks(t) ==
  /\ task[t] = "holding" /\ task' = [task EXCEPT ![t] = "waiting"]
  /\ UNCHANGED <<state, total, cursor, frame, told, window, sender, handle, step, seeking, stopping>>

(* The frame goes to the game; after the last one the playback is over.        *)
Syncs(t) ==
  /\ task[t] = "sent" /\ ClientFree
  /\ IF cursor + 1 < total
     THEN cursor' = cursor + 1 /\ task' = [task EXCEPT ![t] = "holding"] /\ UNCHANGED state
     ELSE state' = "Stopped" /\ task' = [task EXCEPT ![t] = "waiting"] /\ UNCHANGED cursor
  /\ UNCHANGED <<total, frame, told, window, sender, handle, step, seeking, stopping>>

StopSeen(t) ==
  /\ task[t] = "waiting" /\ t \in told
  /\ task' = [task EXCEPT ![t] = "ended"] /\ told' = told \ {t}
  /\ UNCHANGED <<state, total, cursor, frame, window, sender, handle, step, seeking, stopping>>

Next ==
  \/ load_recording \/ handle_play \/ handle_pause \/ handle_seek
  \/ stop \/ StopSeeks \/ SeekEnds
  \/ StepTakesClient \/ StepChecks \/ StepMoves
  \/ \E t \in Tasks : \/ PlayReturns(t) \/ Tick(t) \/ TakesTimeline(t)
                      \/ Sends(t) \/ Breaks(t) \/ Syncs(t) \/ StopSeen(t)

Spec == Init /\ [][Next]_playbackVars

-----------------------------------------------------------------------------
TypeOK ==
  /\ get_stats \in [state : PlaybackState, current_frame : 0..Frames, total_frames : {0, Frames}]
  /\ Cardinality({t \in Tasks : task[t] \in {"holding", "sent"}}) <= 1
  /\ {sender, handle} \subseteq Tasks \cup {NoTask} /\ told \cup window \subseteq Tasks

(* The frame that goes to the game is the one the timeline is at when it is    *)
(* synced: nobody seeks, steps, stops or loads between the two.                *)
SyncsWhereTimelineIs == \A t \in Tasks : task[t] = "sent" => frame[t] = cursor

(* playback_system.rs:248: "Cancel the playback task if running".              *)
StopCancels ==
  [][StopSeeks => \A t \in Tasks \ window : task[t] \in {"none", "ended"}]_playbackVars

-----------------------------------------------------------------------------
(* The inductive invariant, which PersistenceProofs proves.  What syncs a      *)
(* frame may rely on the cursor because it holds the timeline since it sent    *)
(* it: so the invariant has to say that only one task ever holds it.           *)
Points == {"none", "waiting", "checked", "holding", "sent", "ended"}
Holds(t) == task[t] \in {"holding", "sent"}

Kept ==
  /\ state \in PlaybackState /\ total \in {0, Frames} /\ cursor \in 0..Frames
  /\ task \in [Tasks -> Points] /\ frame \in [Tasks -> 0..Frames]
  /\ seeking \subseteq 0..Frames
  /\ {sender, handle} \subseteq Tasks \cup {NoTask} /\ told \cup window \subseteq Tasks

OneHolder == \A t, u \in Tasks : Holds(t) /\ Holds(u) => t = u

PlaybackInv == Kept /\ OneHolder /\ SyncsWhereTimelineIs
=============================================================================
