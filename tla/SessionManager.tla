--------------------------- MODULE SessionManager ---------------------------
(* The SessionManager of session_manager.rs, as session_processor.rs drives   *)
(* it: debug sessions with a command history, a replay position and saved     *)
(* checkpoints.  Every operation holds the lock of the session map for its    *)
(* whole duration, so it is one step.  restore_checkpoint fetches its         *)
(* checkpoint before, but a checkpoint never changes.                         *)
(*                                                                            *)
(* Commands of a session are numbered as they are recorded; its history is    *)
(* first..last-1.  Time is left out: any session may have been inactive for   *)
(* long enough when the cleanup task looks.  What the CheckpointManager holds *)
(* is saved, a function from checkpoint ids to sessions as they were (module  *)
(* Checkpoint tells when it loses one).                                       *)
EXTENDS Naturals, Sequences, SequencesExt

CONSTANTS
  Sessions,      \* session ids
  Checkpoints,   \* checkpoint ids
  MaxSessions,   \* config.max_sessions
  HistoryLimit,  \* MAX_COMMAND_HISTORY_RETENTION
  MaxCommands,   \* bound on the commands of a session
  None

SessionAssumption ==
  /\ IsFiniteSet(Sessions)
  /\ HistoryLimit \in Nat \ {0} /\ {MaxSessions, MaxCommands} \subseteq Nat
  /\ None \notin Sessions \cup Checkpoints \cup Nat

VARIABLES
  sessions,  \* the map: [Sessions -> session, or None when there is none]
  saved      \* the checkpoints: [Checkpoints -> session as it was, or None]

vars == <<sessions, saved>>

Live == {s \in Sessions : sessions[s] # None}

(* Ids are UUIDs: that of a new session is nobody else's.                     *)
Free ==
  {s \in Sessions \ Live :
     /\ \A t \in Live : sessions[t].id # s
     /\ \A c \in Checkpoints : saved[c] # None => saved[c].id # s}

Length(x) == x.last - x.first

Init ==
  /\ sessions = [s \in Sessions |-> None]
  /\ saved = [c \in Checkpoints |-> None]

NewSession(s) ==
  [id |-> s, state |-> "Active", first |-> 0, last |-> 0,
   replay_position |-> None, checkpoints |-> << >>]

(* The session map with s as x, used by every operation on a session.         *)
Becomes(s, x) == sessions' = [sessions EXCEPT ![s] = x]

-----------------------------------------------------------------------------
(* A name that is empty, too long or has special characters is refused before *)
(* anything is changed.                                                       *)
CreateSession ==
  /\ Cardinality(Live) < MaxSessions
  /\ \E s \in Free : Becomes(s, NewSession(s))
  /\ UNCHANGED saved

EndSession(s) ==
  /\ s \in Live
  /\ Becomes(s, None)
  /\ UNCHANGED saved

(* resume_session changes the state and leaves the replay position.           *)
ResumeSessionRewinds(s) ==
  /\ s \in Live
  /\ Becomes(s, [sessions[s] EXCEPT !.state = "Active",
                                    !.replay_position = IF @ = None THEN None ELSE 0])
  /\ UNCHANGED saved
ResumeSession(s) ==
  /\ s \in Live
  /\ Becomes(s, [sessions[s] EXCEPT !.state = "Active"])
  /\ UNCHANGED saved

(* create_checkpoint: what is saved is the session before the id is added to  *)
(* its list.                                                                  *)
CreateCheckpointNewestFirst(s) ==
  /\ s \in Live
  /\ \E c \in Checkpoints :
       /\ saved[c] = None
       /\ saved' = [saved EXCEPT ![c] = sessions[s]]
       /\ Becomes(s, [sessions[s] EXCEPT !.checkpoints = <<c>> \o @])
CreateCheckpoint(s) ==
  /\ s \in Live
  /\ \E c \in Checkpoints :
       /\ saved[c] = None
       /\ saved' = [saved EXCEPT ![c] = sessions[s]]
       /\ Becomes(s, [sessions[s] EXCEPT !.checkpoints = Append(@, c)])

(* restore_checkpoint puts the saved session under the id it is given, which  *)
(* need not be the session's, nor that of a session there is.                 *)
RestoreCheckpoint(s, c) ==
  /\ saved[c] # None
  /\ Becomes(s, saved[c])
  /\ UNCHANGED saved

(* record_command: add_command_history drops the oldest entries of a full     *)
(* history; the replay position stays.                                        *)
Pushed(x) ==
  [x EXCEPT !.last = @ + 1,
            !.first = IF Length(x) >= HistoryLimit THEN x.last + 1 - HistoryLimit ELSE @]

RecordCommand(s) ==
  /\ s \in Live /\ sessions[s].last < MaxCommands
  /\ Becomes(s, Pushed(sessions[s]))
  /\ UNCHANGED saved

StartReplay(s, from) ==
  /\ s \in Live /\ from < Length(sessions[s])
  /\ Becomes(s, [sessions[s] EXCEPT !.replay_position = from, !.state = "Replaying"])
  /\ UNCHANGED saved

Stopped(x) == [x EXCEPT !.replay_position = None, !.state = "Active"]

NextReplayCommand(s) ==
  /\ s \in Live /\ sessions[s].replay_position # None
  /\ LET x == sessions[s] IN
       \/ /\ x.replay_position < Length(x)
          /\ Becomes(s, [x EXCEPT !.replay_position = @ + 1])
       \/ x.replay_position >= Length(x) /\ Becomes(s, Stopped(x))
  /\ UNCHANGED saved

StopReplay(s) ==
  /\ s \in Live
  /\ Becomes(s, Stopped(sessions[s]))
  /\ UNCHANGED saved

(* The cleanup task skips its turn while anyone has the lock, so it too is    *)
(* one step.                                                                  *)
Cleanup ==
  \E out \in SUBSET Live :
    /\ out # {}
    /\ sessions' = [s \in Sessions |-> IF s \in out THEN None ELSE sessions[s]]
    /\ UNCHANGED saved

(* The process dies: the sessions are only in memory, the checkpoints' files  *)
(* are loaded by the next start.                                              *)
Crash ==
  /\ sessions' = [s \in Sessions |-> None]
  /\ UNCHANGED saved

OnSession(s) ==
  \/ EndSession(s) \/ ResumeSession(s) \/ CreateCheckpoint(s) \/ RecordCommand(s)
  \/ \E from \in 0..MaxCommands : StartReplay(s, from)
  \/ NextReplayCommand(s) \/ StopReplay(s)
  \/ \E c \in Checkpoints : RestoreCheckpoint(s, c)

Next ==
  \/ CreateSession \/ Cleanup \/ Crash
  \/ \E s \in Sessions : OnSession(s)

Spec == Init /\ [][Next]_vars

-----------------------------------------------------------------------------
(* Properties.                                                                *)

Listed(s) == Range(sessions[s].checkpoints)

(* A session's history is within its limit and its replay position within its *)
(* history; a session that replays has a position.                            *)
SessionOK(x) ==
  /\ x.id \in Sessions /\ x.state \in {"Active", "Replaying"}
  /\ x.first \in Nat /\ x.last \in x.first..(x.first + HistoryLimit)
  /\ x.replay_position \in (0..Length(x)) \cup {None}
  /\ x.state = "Replaying" => x.replay_position # None
  /\ x.checkpoints \in Seq(Checkpoints)

TypeOK ==
  /\ DOMAIN sessions = Sessions /\ \A s \in Live : SessionOK(sessions[s])
  /\ DOMAIN saved = Checkpoints
  /\ \A c \in Checkpoints : saved[c] # None => SessionOK(saved[c])

Replays(x) == x # None /\ x.replay_position # None
NextCommand(x) == x.first + x.replay_position
Anew(s) ==
  \/ \E from \in 0..MaxCommands : StartReplay(s, from)
  \/ \E c \in Checkpoints : RestoreCheckpoint(s, c)

MovesOn ==
  \A s \in Sessions :
    sessions[s]' # sessions[s] /\ Replays(sessions[s]) /\ Replays(sessions[s]') /\ ~Anew(s)
      => \/ NextCommand(sessions[s]') > NextCommand(sessions[s])
         \/ NextCommand(sessions[s]') = NextCommand(sessions[s]) /\ ~NextReplayCommand(s)

(* A replay hands out the commands in the order they were recorded and none   *)
(* of them twice: until it is started anew or the session restored, the next  *)
(* command to hand out is a later one after every next_replay_command, and    *)
(* never an earlier one, whatever is recorded, dropped from a full history,   *)
(* saved or resumed meanwhile.                                                *)
ReplayMovesOn == [][MovesOn]_vars

(* The checkpoints a session lists are its own past: the state saved under    *)
(* each lists exactly the ones before it, so that going back along the list   *)
(* ends, whoever restored what under which id (create_checkpoint and          *)
(* restore_checkpoint).                                                       *)
CheckpointsFormPast ==
  \A s \in Live :
    LET list == sessions[s].checkpoints IN
      \A i \in DOMAIN list :
        saved[list[i]] # None /\ saved[list[i]].checkpoints = SubSeq(list, 1, i - 1)

(* session_management_integration_tests.rs:163, after a restore of a session: *)
(* "The restored session should have the state from when checkpoint was       *)
(* created", assert!(restored_session.checkpoints.contains(&checkpoint_id)).  *)
RestoredListsCheckpoint ==
  [][\A s \in Sessions, c \in Checkpoints :
       s \in Live /\ c \in Listed(s) /\ RestoreCheckpoint(s, c)
         => c \in Listed(s)']_vars
=============================================================================
