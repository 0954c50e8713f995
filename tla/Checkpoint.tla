----------------------------- MODULE Checkpoint -----------------------------
(* The CheckpointManager of checkpoint.rs: checkpoints in a map in memory and *)
(* one file each in the storage directory.  Both configurations in src/ have  *)
(* persist_to_disk set, and nothing in src/ sets expires_at, so a checkpoint  *)
(* never expires; it only grows too old for the map.                          *)
(*                                                                            *)
(* A checkpoint never changes, so the map is the set of its ids.  Ids are     *)
(* UUIDs: each is created once.  create, restore and delete run under the     *)
(* read guard of the lock around the manager, and so interleave with each     *)
(* other; start and shutdown take it exclusively.  A create whose state is    *)
(* larger than max_state_size_bytes returns before it changes anything.       *)
EXTENDS Naturals, FiniteSets

CONSTANTS
  Clients,         \* concurrent tool calls
  Ids,             \* checkpoint ids
  MaxCheckpoints,  \* config.max_checkpoints
  MaxAge,          \* config.max_age_seconds, in ticks
  MaxTime,         \* bound on the clock
  None

(* With max_checkpoints = 0 the eviction loop of create_checkpoint would not  *)
(* end; no configuration in src/ has it.                                      *)
CheckpointAssumption ==
  /\ IsFiniteSet(Ids) /\ None \notin Ids \cup Nat
  /\ MaxCheckpoints \in Nat \ {0} /\ MaxAge \in Nat /\ MaxTime \in Nat

VARIABLES
  clock,      \* SystemTime::now
  stamp,      \* [Ids -> the timestamp, or None before the id is made]
  memory,     \* checkpoints: the ids in the map
  disk,       \* [Ids -> what the file of the id holds]
  directory,  \* the storage directory exists
  phase,      \* "up", or the exclusive operation that runs
  started,    \* the cleanup task runs
  todo,       \* ids the exclusive operation has yet to load or save
  doomed,     \* ids the cleanup task collected
  pc, target, \* of each client: where it is, and the id it is about
  stored,     \* history: ids saved, and neither deleted nor rewritten since
  alone,      \* history: nobody else has worked on target since pc left "idle"
  gone        \* history: ids deleted while nobody else worked on them

vars == <<clock, stamp, memory, disk, directory, phase, started, todo, doomed,
          pc, target, stored, alone, gone>>
history == <<stored, alone, gone>>

Points == {"idle", "insert", "write", "fill", "look", "read", "readd",
           "remove", "stat", "unlink"}

Init ==
  /\ clock = 0
  /\ stamp = [i \in Ids |-> None]
  /\ memory = {}
  /\ disk = [i \in Ids |-> "none"]
  /\ directory = FALSE /\ phase = "up" /\ started = FALSE
  /\ todo = {} /\ doomed = {}
  /\ pc = [c \in Clients |-> "idle"]
  /\ target = [c \in Clients |-> None]
  /\ stored = {} /\ gone = {}
  /\ alone = [c \in Clients |-> FALSE]

Made == {i \in Ids : stamp[i] # None}
Busy(c) == pc[c] # "idle"
Quiet == phase = "up" /\ \A c \in Clients : ~Busy(c)
TooOld(i) == clock - stamp[i] > MaxAge

Goto(c, p) == pc' = [pc EXCEPT ![c] = p]
FinishKeepsTarget(c) == Goto(c, "idle") /\ UNCHANGED target
Finish(c) == Goto(c, "idle") /\ target' = [target EXCEPT ![c] = None]

-----------------------------------------------------------------------------
(* Calls.                                                                     *)

Begin(c, i, p) ==
  /\ phase = "up" /\ ~Busy(c)
  /\ Goto(c, p) /\ target' = [target EXCEPT ![c] = i]
  /\ LET others == {d \in Clients : target[d] = i} IN
       alone' = [d \in Clients |->
                   IF d = c THEN others = {} ELSE alone[d] /\ d \notin others]
  /\ UNCHANGED <<clock, memory, disk, directory, phase, started, todo, doomed,
                 stored, gone>>

BeginCreate(c) ==
  \E i \in Ids \ Made :
    /\ stamp' = [stamp EXCEPT ![i] = clock]
    /\ Begin(c, i, "insert")
BeginRestore(c) == UNCHANGED stamp /\ \E i \in Made : Begin(c, i, "look")
BeginDelete(c) == UNCHANGED stamp /\ \E i \in Made : Begin(c, i, "remove")

local == <<clock, stamp, directory, phase, started, todo, doomed>>

(* The sets the loop can leave in the map: it drops one of the oldest while   *)
(* the map is full, and timestamps in seconds tie.                            *)
OldestOf(s) == {i \in s : \A j \in s : stamp[i] <= stamp[j]}
AfterEviction ==
  {kept \in SUBSET memory :
     /\ Cardinality(kept) = IF Cardinality(memory) < MaxCheckpoints
                            THEN Cardinality(memory) ELSE MaxCheckpoints - 1
     /\ \A i \in memory \ kept : i \in OldestOf(kept \cup {i})}

CreateInsert(c) ==
  /\ pc[c] = "insert"
  /\ \E kept \in AfterEviction : memory' = kept \cup {target[c]}
  /\ Goto(c, "write")
  /\ UNCHANGED <<local, target, disk, history>>

(* fs::write empties the file, then fills it; either can fail, which is only  *)
(* logged.                                                                    *)
Truncated(i) == directory /\ disk' = [disk EXCEPT ![i] = "torn"]

CreateWrite(c) ==
  /\ pc[c] = "write"
  /\ \/ Truncated(target[c]) /\ Goto(c, "fill") /\ UNCHANGED target
     \/ Finish(c) /\ UNCHANGED disk
  /\ UNCHANGED <<local, memory, history>>

CreateFill(c) ==
  /\ pc[c] = "fill"
  /\ \/ /\ disk[target[c]] = "torn"
        /\ disk' = [disk EXCEPT ![target[c]] = "full"]
        /\ stored' = stored \cup {target[c]}
     \/ UNCHANGED <<disk, stored>>
  /\ Finish(c)
  /\ UNCHANGED <<local, memory, alone, gone>>

RestoreLook(c) ==
  /\ pc[c] = "look"
  /\ IF target[c] \in memory THEN Finish(c) ELSE Goto(c, "read") /\ UNCHANGED target
  /\ UNCHANGED <<local, memory, disk, history>>

RestoreRead(c) ==
  /\ pc[c] = "read"
  /\ IF disk[target[c]] = "full" THEN Goto(c, "readd") /\ UNCHANGED target ELSE Finish(c)
  /\ UNCHANGED <<local, memory, disk, history>>

RestoreReadd(c) ==
  /\ pc[c] = "readd"
  /\ memory' = memory \cup {target[c]}
  /\ Finish(c)
  /\ UNCHANGED <<local, disk, history>>

DeleteRemove(c) ==
  /\ pc[c] = "remove"
  /\ memory' = memory \ {target[c]}
  /\ Goto(c, "stat")
  /\ UNCHANGED <<local, target, disk, history>>

(* A delete is through with its id: whoever else works on it may still bring  *)
(* it back.                                                                   *)
Deleted(c) == gone' = IF alone[c] THEN gone \cup {target[c]} ELSE gone

DeleteStat(c) ==
  /\ pc[c] = "stat"
  /\ \/ /\ disk[target[c]] # "none" /\ Goto(c, "unlink") /\ UNCHANGED <<target, gone>>
     \/ disk[target[c]] = "none" /\ Finish(c) /\ Deleted(c)
  /\ UNCHANGED <<local, memory, disk, stored, alone>>

DeleteUnlinkForgotten(c) ==
  /\ pc[c] = "unlink"
  /\ Deleted(c) /\ Finish(c)
  /\ UNCHANGED <<local, memory, disk, stored, alone>>
DeleteUnlink(c) ==
  /\ pc[c] = "unlink"
  /\ \/ /\ disk' = [disk EXCEPT ![target[c]] = "none"]
        /\ stored' = stored \ {target[c]} /\ Deleted(c)
     \/ UNCHANGED <<disk, stored, gone>>
  /\ Finish(c)
  /\ UNCHANGED <<local, memory, alone>>

Call(c) ==
  \/ BeginCreate(c) \/ CreateInsert(c) \/ CreateWrite(c) \/ CreateFill(c)
  \/ BeginRestore(c) \/ RestoreLook(c) \/ RestoreRead(c) \/ RestoreReadd(c)
  \/ BeginDelete(c) \/ DeleteRemove(c) \/ DeleteStat(c) \/ DeleteUnlink(c)

-----------------------------------------------------------------------------
(* start loads every readable file, without regard to max_checkpoints, and    *)
(* then starts the cleanup task.                                              *)

clients == <<pc, target>>

StartBegin ==
  /\ Quiet /\ ~started
  /\ phase' = "loading" /\ directory' = TRUE
  /\ todo' = {i \in Ids : disk[i] # "none"}
  /\ UNCHANGED <<clock, stamp, memory, disk, started, doomed, clients, history>>

StartLoad ==
  /\ phase = "loading"
  /\ \E i \in todo :
       /\ todo' = todo \ {i}
       /\ memory' = IF disk[i] = "full" THEN memory \cup {i} ELSE memory
  /\ UNCHANGED <<clock, stamp, disk, directory, phase, started, doomed, clients, history>>

StartEnd ==
  /\ phase = "loading" /\ todo = {}
  /\ phase' = "up" /\ started' = TRUE
  /\ UNCHANGED <<clock, stamp, memory, disk, directory, todo, doomed, clients, history>>

(* The cleanup task reads the map under one guard and removes what it found   *)
(* under another; the files stay.                                             *)
CleanupCollect ==
  /\ started /\ phase = "up" /\ doomed = {}
  /\ doomed' = {i \in memory : TooOld(i)} /\ doomed' # {}
  /\ UNCHANGED <<clock, stamp, memory, disk, directory, phase, started, todo, clients, history>>

CleanupRemoveWithFiles ==
  /\ doomed # {} /\ phase # "saving"
  /\ memory' = memory \ doomed /\ doomed' = {}
  /\ disk' = [i \in Ids |-> IF i \in doomed THEN "none" ELSE disk[i]]
  /\ UNCHANGED <<clock, stamp, directory, phase, started, todo, clients, history>>
CleanupRemove ==
  /\ doomed # {} /\ phase # "saving"
  /\ memory' = memory \ doomed /\ doomed' = {}
  /\ UNCHANGED <<clock, stamp, disk, directory, phase, started, todo, clients, history>>

(* shutdown stops the cleanup task and writes every checkpoint once more.  As *)
(* it runs alone, the file it truncated is seen only if it stays torn.        *)
ShutdownBegin ==
  /\ Quiet
  /\ phase' = "saving" /\ started' = FALSE /\ todo' = memory
  /\ UNCHANGED <<clock, stamp, memory, disk, directory, doomed, clients, history>>

ShutdownSave ==
  /\ phase = "saving"
  /\ \E i \in todo, f \in IF directory THEN {"same", "torn", "full"} ELSE {"same"} :
       /\ todo' = todo \ {i}
       /\ disk' = IF f = "same" THEN disk ELSE [disk EXCEPT ![i] = f]
       /\ stored' = CASE f = "full" -> stored \cup {i}
                      [] f = "torn" -> stored \ {i}
                      [] f = "same" -> stored
  /\ UNCHANGED <<clock, stamp, memory, directory, phase, started, doomed, clients, alone, gone>>

ShutdownEnd ==
  /\ phase = "saving" /\ todo = {}
  /\ phase' = "up"
  /\ UNCHANGED <<clock, stamp, memory, disk, directory, started, todo, doomed, clients, history>>

-----------------------------------------------------------------------------
(* The process dies and is started again; a file being written stays torn.    *)
Crash ==
  /\ memory' = {} /\ phase' = "up" /\ started' = FALSE
  /\ todo' = {} /\ doomed' = {}
  /\ pc' = [c \in Clients |-> "idle"] /\ target' = [c \in Clients |-> None]
  /\ UNCHANGED <<clock, stamp, disk, directory, history>>

Tick ==
  /\ clock < MaxTime /\ clock' = clock + 1
  /\ UNCHANGED <<stamp, memory, disk, directory, phase, started, todo, doomed, clients, history>>

Next ==
  \/ \E c \in Clients : Call(c)
  \/ StartBegin \/ StartLoad \/ StartEnd
  \/ CleanupCollect \/ CleanupRemove
  \/ ShutdownBegin \/ ShutdownSave \/ ShutdownEnd
  \/ Crash \/ Tick

Spec == Init /\ [][Next]_vars

-----------------------------------------------------------------------------
(* Properties.                                                                *)

(* Types, with what each point of a call implies for its id.                  *)
TypeOK ==
  /\ clock \in Nat /\ stamp \in [Ids -> Nat \cup {None}]
  /\ disk \in [Ids -> {"none", "torn", "full"}]
  /\ memory \subseteq Made /\ todo \subseteq Made /\ doomed \subseteq Made
  /\ directory \in BOOLEAN /\ started \in BOOLEAN
  /\ phase \in {"up", "loading", "saving"}
  /\ pc \in [Clients -> Points] /\ target \in [Clients -> Made \cup {None}]
  /\ \A c \in Clients : Busy(c) <=> target[c] # None
  /\ alone \in [Clients -> BOOLEAN]
  /\ stored \subseteq Made /\ gone \subseteq Made

(* A checkpoint whose save was completed stays whole on disk until a delete   *)
(* or a shutdown touches its file, whatever evictions, cleanups, failed saves *)
(* of others, crashes and restarts come between, so that restore_checkpoint   *)
(* finds it when it is no longer in the map.                                  *)
StoredSurvives == \A i \in stored : disk[i] = "full"

(* A checkpoint that was deleted while no other call worked on it is neither  *)
(* in memory nor on disk again: not through a restore, not when the files are *)
(* loaded at the next start, not through the saving at a shutdown             *)
(* (delete_checkpoint).                                                       *)
DeletedStaysGone == \A i \in gone : i \notin memory /\ disk[i] = "none"

(* checkpoint.rs:110, "Maximum number of checkpoints to keep in memory".      *)
MemoryLimit == Cardinality(memory) <= MaxCheckpoints

-----------------------------------------------------------------------------
(* What TypeOK, StoredSurvives and DeletedStaysGone rest on: with them, the   *)
(* inductive invariant of PersistenceProofs.                                  *)

(* The calls that write the file of the checkpoint they create.               *)
Creating(c) == pc[c] \in {"insert", "write", "fill"}

(* start and shutdown run alone, and nothing is left to do between them.      *)
Exclusive ==
  /\ phase # "up" => \A c \in Clients : ~Busy(c)
  /\ phase = "up" => todo = {}

(* Only checkpoints have files.                                               *)
FilesMade == \A i \in Ids : disk[i] # "none" => i \in Made

(* An id is made by one create, and its file is not called saved before that  *)
(* create has filled it.                                                      *)
CreatorUnique ==
  /\ \A c, d \in Clients : Creating(c) /\ Creating(d) /\ c # d => target[c] # target[d]
  /\ \A c \in Clients : Creating(c) => target[c] \notin stored

(* alone means what its comment says.                                         *)
AloneIsAlone ==
  \A c, d \in Clients : Busy(c) /\ alone[c] /\ c # d => target[d] # target[c]

(* A delete that works alone has taken its id out of the map for good.        *)
RemovedStaysOut ==
  \A c \in Clients : pc[c] \in {"stat", "unlink"} /\ alone[c] => target[c] \notin memory

(* Nobody is about to bring a deleted id back.                                *)
NoRevival ==
  \A i \in gone :
    /\ i \notin todo
    /\ \A c \in Clients : target[c] = i => ~Creating(c) /\ pc[c] # "readd"

IInv ==
  /\ TypeOK /\ FilesMade /\ Exclusive /\ CreatorUnique /\ AloneIsAlone /\ RemovedStaysOut
  /\ NoRevival /\ StoredSurvives /\ DeletedStaysGone

=============================================================================
