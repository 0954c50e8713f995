--------------------------- MODULE MCPersistence ---------------------------
(* TLC instance of what keeps a game's past: the checkpoint manager, the       *)
(* session manager, and recordings, their playback and their branches.  No two *)
(* of them share a variable, so one run checks them all: each behaviour        *)
(* exercises the part chosen at its start.  The checkpoint manager has the     *)
(* variables of its module, and stays as it was while another part runs; the   *)
(* others use v1, v2, ... for theirs, each in the order of its VARIABLES, and  *)
(* None fills those a part has no use for.  The model values of Clients and    *)
(* Ids also serve as the sessions and checkpoints of the session manager, and  *)
(* those of Clients as the requests that load a recording.                     *)
EXTENDS Checkpoint, TLC

CONSTANTS
  MaxSessions, HistoryLimit, MaxCommands,              \* see SessionManager
  Keyframe, Sizes, MaxCached, MaxFrames, MaxStarts,    \* see Recording
  Frames, MaxPlays,                                    \* see Playback
  FrameNumbers, Mods, MaxBranches, MaxLoads            \* see Branches

VARIABLES part, v1, v2, v3, v4, v5, v6, v7, v8, v9, v10, v11, v12

SM == INSTANCE SessionManager WITH
  Sessions <- Clients, Checkpoints <- Ids, sessions <- v1, saved <- v2

RC == INSTANCE Recording WITH
  Loaders <- Clients,
  recording <- v1, buffer <- v2, recorders <- v3, file <- v4, timeline <- v5,
  cursor <- v6, cache <- v7, controller <- v8, branches <- v9, loading <- v10

PB == INSTANCE Playback WITH
  state <- v1, total <- v2, cursor <- v3, task <- v4, frame <- v5, told <- v6,
  window <- v7, sender <- v8, handle <- v9, step <- v10, seeking <- v11,
  stopping <- v12

TB == INSTANCE Branches WITH
  branches <- v1, made <- v2, parent <- v3, master <- v4, active <- v5, base <- v6,
  layers <- v7, frames <- v8

ASSUME PartsAssumption ==
  /\ CheckpointAssumption /\ SM!SessionAssumption /\ RC!RecordingAssumption
  /\ PB!PlaybackAssumption /\ TB!BranchesAssumption

-----------------------------------------------------------------------------
f11 == <<v11, v12>>
f9 == <<v9, v10, f11>>
f3 == <<v3, v4, v5, v6, v7, v8, f9>>
f1 == <<v1, v2, f3>>
all == <<part, vars, f1>>

Free11 == v11 = None /\ v12 = None
Free9 == v9 = None /\ v10 = None /\ Free11
Free3 ==
  /\ v3 = None /\ v4 = None /\ v5 = None /\ v6 = None /\ v7 = None /\ v8 = None
  /\ Free9
Free1 == v1 = None /\ v2 = None /\ Free3

MCInit ==
  /\ Init
  /\ \/ part = "checkpoints" /\ Free1
     \/ part = "sessions" /\ SM!Init /\ Free3
     \/ part = "recordings" /\ RC!Init /\ Free11
     \/ part = "playback" /\ PB!Init
     \/ part = "branches" /\ TB!Init /\ Free9

CheckpointNext == part = "checkpoints" /\ Next /\ UNCHANGED <<part, f1>>
SessionNext == part = "sessions" /\ SM!Next /\ UNCHANGED <<part, vars, f3>>
RecordingNext == part = "recordings" /\ RC!Next /\ UNCHANGED <<part, vars, f11>>
PlaybackNext == part = "playback" /\ PB!Next /\ UNCHANGED <<part, vars>>
BranchesNext == part = "branches" /\ TB!Next /\ UNCHANGED <<part, vars, f9>>

MCNext ==
  \/ CheckpointNext \/ SessionNext \/ RecordingNext \/ PlaybackNext \/ BranchesNext

MCSpec == MCInit /\ [][MCNext]_all

-----------------------------------------------------------------------------
(* The properties of the parts; the modules say what each is about.            *)

(* The types of every part.                                                    *)
TypesOK ==
  /\ TypeOK
  /\ part = "sessions" => SM!TypeOK
  /\ part = "recordings" => RC!TypeOK
  /\ part = "playback" => PB!TypeOK
  /\ part = "branches" => TB!TypeOK

(* A replay of a session hands out its commands in order and none of them      *)
(* twice (session_manager.rs).                                                 *)
ReplayMovesOn == [][part = "sessions" => SM!MovesOn]_all

(* What is shown of a recording is that recording: the frames that are left    *)
(* can be rebuilt, cached frames are of the recording shown, and the users of  *)
(* a recording show the same one (recording_system.rs, tools/replay.rs).       *)
RecordingsWhole ==
  part = "recordings" => RC!TailCanBeRebuilt /\ RC!CacheIsOfRecording /\ RC!LoadsAgree

(* The frame that is sent to the game is the one the timeline is at            *)
(* (playback_system.rs).                                                       *)
SyncsWhereTimelineIs == part = "playback" => PB!SyncsWhereTimelineIs

(* The branch another one came from is there, and a branch nothing was merged  *)
(* into shows the layers it has (timeline_branching.rs); the checkpoints that  *)
(* a session lists are its own past (session_manager.rs).                      *)
PastsAreWhole ==
  /\ part = "branches" => TB!ParentsStay /\ TB!LeavesShowLayers
  /\ part = "sessions" => SM!CheckpointsFormPast

Symmetry == Permutations(Clients) \cup Permutations(Ids)
=============================================================================
