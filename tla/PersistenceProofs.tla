------------------------- MODULE PersistenceProofs --------------------------
(* Proofs about what keeps a game's past: checkpoints, the session manager,   *)
(* recordings, their playback and their branches, for any number of calls,    *)
(* sessions, commands, frames, recordings, loads and branches.                *)
EXTENDS MCPersistence, Integers, SequenceTheorems, FiniteSetTheorems,
        WellFoundedInduction, TLAPS

-----------------------------------------------------------------------------
(* A step is one of the part that runs, and leaves the others alone.          *)
LEMMA StepOfPart ==
  ASSUME [MCNext]_all
  PROVE  /\ part' = part
         /\ [Next]_vars
         /\ part = "sessions" => [SM!Next]_(SM!vars)
         /\ part = "recordings" => [RC!Next]_(RC!recordingVars)
         /\ part = "playback" => [PB!Next]_(PB!playbackVars)
         /\ part = "branches" => [TB!Next]_(TB!branchVars)
<1> USE DEF SM!vars, RC!recordingVars, PB!playbackVars, TB!branchVars, f1, f3, f9, f11
<1>1. CASE CheckpointNext
  BY <1>1 DEF CheckpointNext
<1>2. CASE SessionNext
  BY <1>2 DEF SessionNext
<1>3. CASE RecordingNext
  BY <1>3 DEF RecordingNext
<1>4. CASE PlaybackNext
  BY <1>4 DEF PlaybackNext
<1>5. CASE BranchesNext
  BY <1>5 DEF BranchesNext
<1>6. CASE UNCHANGED all
  BY <1>6 DEF all
<1> QED
  BY <1>1, <1>2, <1>3, <1>4, <1>5, <1>6 DEF MCNext

(* The run starts in an initial state of the part it exercises.               *)
LEMMA StartOfPart ==
  ASSUME MCInit
  PROVE  /\ Init
         /\ part = "sessions" => SM!Init
         /\ part = "recordings" => RC!Init
         /\ part = "playback" => PB!Init
         /\ part = "branches" => TB!Init
  BY DEF MCInit

-----------------------------------------------------------------------------
(* Checkpoints, for any number of clients, ids, crashes and restarts.          *)
(* The beginning of a call keeps the types, of a new id or of an old one.     *)
LEMMA BeginTypes ==
  ASSUME CheckpointAssumption, TypeOK, Made \subseteq Made',
         stamp' \in [Ids -> Nat \cup {None}],
         NEW c \in Clients, NEW i \in Made', NEW p \in Points \ {"idle"}, Begin(c, i, p)
  PROVE  TypeOK'
<1>1. /\ pc' \in [Clients -> Points]
      /\ target' \in [Clients -> Made' \cup {None}]
      /\ alone' \in [Clients -> BOOLEAN]
  <2>1. pc' \in [Clients -> Points]
    BY DEF TypeOK, Begin, Goto
  <2>2. target' \in [Clients -> Made' \cup {None}]
    BY DEF TypeOK, Begin
  <2>3. alone' \in [Clients -> BOOLEAN]
    BY Zenon DEF TypeOK, Begin
  <2> QED
    BY <2>1, <2>2, <2>3
<1>2. \A d \in Clients : (Busy(d) <=> target[d] # None)'
  BY DEF CheckpointAssumption, TypeOK, Begin, Goto, Busy, Made, Points
<1> QED
  BY <1>1, <1>2 DEF TypeOK, Begin

(* Every step keeps the types.                                                *)
LEMMA TypeStep == ASSUME CheckpointAssumption, IInv, [Next]_vars PROVE TypeOK'
<1> USE DEF CheckpointAssumption, TypeOK, FilesMade, Made, Points, Busy, IInv
<1>1. ASSUME NEW c \in Clients, BeginCreate(c) PROVE TypeOK'
  <2>1. PICK i \in Ids \ Made :
             stamp' = [stamp EXCEPT ![i] = clock] /\ Begin(c, i, "insert")
    BY <1>1 DEF BeginCreate
  <2>2. /\ stamp' \in [Ids -> Nat \cup {None}] /\ Made \subseteq Made' /\ i \in Made'
        /\ "insert" \in Points \ {"idle"}
    BY <2>1
  <2> QED
    BY <2>1, <2>2, BeginTypes
<1>2. ASSUME NEW c \in Clients, BeginRestore(c) PROVE TypeOK'
  <2>1. PICK i \in Made : Begin(c, i, "look")
    BY <1>2 DEF BeginRestore
  <2>2. stamp' = stamp /\ Made' = Made /\ "look" \in Points \ {"idle"}
    BY <1>2 DEF BeginRestore
  <2> QED
    BY <2>1, <2>2, BeginTypes
<1>3. ASSUME NEW c \in Clients, BeginDelete(c) PROVE TypeOK'
  <2>1. PICK i \in Made : Begin(c, i, "remove")
    BY <1>3 DEF BeginDelete
  <2>2. stamp' = stamp /\ Made' = Made /\ "remove" \in Points \ {"idle"}
    BY <1>3 DEF BeginDelete
  <2> QED
    BY <2>1, <2>2, BeginTypes
<1>4. ASSUME NEW c \in Clients, CreateInsert(c) PROVE TypeOK'
  BY <1>4 DEF CreateInsert, Goto, local, history, AfterEviction
<1>5. ASSUME NEW c \in Clients, CreateFill(c) PROVE TypeOK'
  BY <1>5 DEF CreateFill, Finish, Goto, local
<1>6. CASE StartBegin
  BY <1>6 DEF StartBegin, clients, history, Quiet
<1>7. CASE StartLoad
  BY <1>7 DEF StartLoad, clients, history
<1>8. CASE CleanupCollect
  BY <1>8 DEF CleanupCollect, clients, history
<1>9. CASE CleanupRemove
  BY <1>9 DEF CleanupRemove, clients, history
<1>10. CASE ShutdownBegin
  BY <1>10 DEF ShutdownBegin, clients, history, Quiet
<1>11. CASE ShutdownSave
  BY <1>11 DEF ShutdownSave, clients
<1>12. CASE ShutdownEnd
  BY <1>12 DEF ShutdownEnd, clients, history
<1>13. CASE Crash
  BY <1>13 DEF Crash, history
<1>14. CASE Tick
  BY <1>14 DEF Tick, clients, history
<1>15. ASSUME NEW c \in Clients,
             CreateWrite(c) \/ RestoreLook(c) \/ RestoreRead(c) \/
             RestoreReadd(c) \/ DeleteRemove(c) \/ DeleteStat(c) \/
             DeleteUnlink(c)
     PROVE TypeOK'
  BY <1>15 DEF CreateWrite, Goto, Finish, Truncated, local, history, RestoreLook,
     RestoreRead, RestoreReadd, DeleteRemove, DeleteStat, Deleted, DeleteUnlink
<1>16. CASE StartEnd
  BY <1>16 DEF StartEnd, clients, history
<1>17. CASE UNCHANGED vars
  BY <1>17 DEF vars, history
<1> QED
  BY <1>1, <1>2, <1>3, <1>4, <1>5, <1>6, <1>7, <1>8, <1>9, <1>10, <1>11, <1>12,
     <1>13, <1>14, <1>15, <1>16, <1>17 DEF Next, Call

(* Only the calls that created an id, and a shutdown, write a file.           *)
LEMMA FilesStep == ASSUME CheckpointAssumption, IInv, [Next]_vars PROVE FilesMade'
<1> USE DEF TypeOK, Made, Points, Busy, IInv, FilesMade
<1>1. ASSUME NEW c \in Clients, BeginCreate(c) PROVE FilesMade'
  BY <1>1 DEF BeginCreate, Begin, Goto, Made
<1>2. CASE ShutdownSave
  BY <1>2 DEF ShutdownSave, clients
<1>3. ASSUME NEW c \in Clients,
             CreateInsert(c) \/ CreateWrite(c) \/ CreateFill(c) \/
             BeginRestore(c) \/ RestoreLook(c) \/ RestoreRead(c) \/
             RestoreReadd(c) \/ BeginDelete(c) \/ DeleteRemove(c) \/
             DeleteStat(c) \/ DeleteUnlink(c)
     PROVE FilesMade'
  BY <1>3 DEF CreateInsert, Goto, local, history, AfterEviction, CreateWrite,
     Finish, Truncated, CreateFill, BeginRestore, Begin, RestoreLook, RestoreRead,
     RestoreReadd, BeginDelete, DeleteRemove, DeleteStat, Deleted, DeleteUnlink
<1>4. CASE StartBegin \/ StartLoad \/ StartEnd \/ CleanupCollect \/ CleanupRemove \/
           ShutdownBegin \/ ShutdownEnd \/ Crash \/ Tick \/ UNCHANGED vars
  BY <1>4 DEF StartBegin, clients, history, Quiet, StartLoad, StartEnd,
     CleanupCollect, CleanupRemove, ShutdownBegin, ShutdownEnd, Crash, Tick, vars
<1> QED
  BY <1>1, <1>2, <1>3, <1>4 DEF Next, Call

(* A start and a shutdown begin when no call is in progress and end with      *)
(* nothing to do.                                                             *)
LEMMA ExclusiveStep == ASSUME CheckpointAssumption, IInv, [Next]_vars PROVE Exclusive'
<1> USE DEF TypeOK, Made, Points, Busy, IInv, Exclusive
<1>1. CASE StartBegin
  BY <1>1 DEF StartBegin, clients, history, Quiet
<1>2. CASE StartEnd
  BY <1>2 DEF StartEnd, clients, history
<1>3. CASE ShutdownBegin
  BY <1>3 DEF ShutdownBegin, clients, history, Quiet
<1>4. CASE ShutdownEnd
  BY <1>4 DEF ShutdownEnd, clients, history
<1>5. CASE Crash
  BY <1>5 DEF Crash, history
<1>6. ASSUME NEW c \in Clients,
             BeginCreate(c) \/ CreateInsert(c) \/ CreateWrite(c) \/
             CreateFill(c) \/ BeginRestore(c) \/ RestoreLook(c) \/
             RestoreRead(c) \/ RestoreReadd(c) \/ BeginDelete(c) \/
             DeleteRemove(c) \/ DeleteStat(c) \/ DeleteUnlink(c)
     PROVE Exclusive'
  BY <1>6 DEF BeginCreate, Begin, Goto, Made, CreateInsert, local, history,
     AfterEviction, CreateWrite, Finish, Truncated, CreateFill, BeginRestore,
     RestoreLook, RestoreRead, RestoreReadd, BeginDelete, DeleteRemove, DeleteStat,
     Deleted, DeleteUnlink
<1>7. CASE StartLoad \/ CleanupCollect \/ CleanupRemove \/ ShutdownSave \/ Tick \/
           UNCHANGED vars
  BY <1>7 DEF StartLoad, clients, history, CleanupCollect, CleanupRemove,
     ShutdownSave, Tick, vars
<1> QED
  BY <1>1, <1>2, <1>3, <1>4, <1>5, <1>6, <1>7 DEF Next, Call

(* A fresh id is nobody else's, and a create is over once its file is saved.  *)
LEMMA CreatorStep == ASSUME CheckpointAssumption, IInv, [Next]_vars PROVE CreatorUnique'
<1> USE DEF TypeOK, Made, Points, Busy, IInv, Exclusive, Creating, CreatorUnique
<1>1. ASSUME NEW c \in Clients, BeginCreate(c) PROVE CreatorUnique'
  BY <1>1 DEF BeginCreate, Begin, Goto, Made
<1>2. ASSUME NEW c \in Clients, CreateFill(c) PROVE CreatorUnique'
  BY <1>2 DEF CreateFill, Finish, Goto, local
<1>3. CASE ShutdownSave
  BY <1>3 DEF ShutdownSave, clients
<1>4. ASSUME NEW c \in Clients,
             CreateInsert(c) \/ CreateWrite(c) \/ BeginRestore(c) \/
             RestoreLook(c) \/ RestoreRead(c) \/ RestoreReadd(c) \/
             BeginDelete(c) \/ DeleteRemove(c) \/ DeleteStat(c) \/
             DeleteUnlink(c)
     PROVE CreatorUnique'
  BY <1>4 DEF CreateInsert, Goto, local, history, AfterEviction, CreateWrite,
     Finish, Truncated, BeginRestore, Begin, RestoreLook, RestoreRead, RestoreReadd,
     BeginDelete, DeleteRemove, DeleteStat, Deleted, DeleteUnlink
<1>5. CASE StartBegin \/ StartLoad \/ StartEnd \/ CleanupCollect \/ CleanupRemove \/
           ShutdownBegin \/ ShutdownEnd \/ Crash \/ Tick \/ UNCHANGED vars
  BY <1>5 DEF StartBegin, clients, history, Quiet, StartLoad, StartEnd,
     CleanupCollect, CleanupRemove, ShutdownBegin, ShutdownEnd, Crash, Tick, vars
<1> QED
  BY <1>1, <1>2, <1>3, <1>4, <1>5 DEF Next, Call

(* A call begins with nobody else on its id, or takes alone from those who are. *)
LEMMA BeginAlone ==
  ASSUME CheckpointAssumption, TypeOK, AloneIsAlone,
         NEW c \in Clients, NEW i \in Ids, NEW p, Begin(c, i, p)
  PROVE  AloneIsAlone'
<1> DEFINE others == {d \in Clients : target[d] = i}
<1>1. /\ \A d \in Clients : target'[d] = IF d = c THEN i ELSE target[d]
      /\ \A d \in Clients : d # c => pc'[d] = pc[d]
      /\ \A d \in Clients :
           alone'[d] = IF d = c THEN others = {} ELSE alone[d] /\ d \notin others
  BY DEF Begin, Goto, TypeOK
<1>2. SUFFICES ASSUME NEW a \in Clients, NEW d \in Clients,
                      Busy(a)', alone'[a], a # d
               PROVE  target'[d] # target'[a]
  BY DEF AloneIsAlone
<1>3. CASE a = c
  BY <1>1, <1>2, <1>3
<1>4. CASE a # c /\ d = c
  BY <1>1, <1>2, <1>4
<1>5. CASE a # c /\ d # c
  BY <1>1, <1>2, <1>5 DEF AloneIsAlone, Busy
<1> QED
  BY <1>3, <1>4, <1>5

(* Only the beginning of a call can disturb who is alone.                     *)
LEMMA AloneStep == ASSUME CheckpointAssumption, IInv, [Next]_vars PROVE AloneIsAlone'
<1> USE DEF TypeOK, Made, Points, Busy, IInv, AloneIsAlone
<1>1. ASSUME NEW c \in Clients, BeginCreate(c) PROVE AloneIsAlone'
  BY <1>1, BeginAlone DEF BeginCreate, Made, IInv
<1>2. ASSUME NEW c \in Clients, BeginRestore(c) PROVE AloneIsAlone'
  BY <1>2, BeginAlone DEF BeginRestore, Made, IInv
<1>3. ASSUME NEW c \in Clients, BeginDelete(c) PROVE AloneIsAlone'
  BY <1>3, BeginAlone DEF BeginDelete, Made, IInv
<1>4. ASSUME NEW c \in Clients,
             CreateInsert(c) \/ CreateWrite(c) \/ CreateFill(c) \/
             RestoreLook(c) \/ RestoreRead(c) \/ RestoreReadd(c) \/
             DeleteRemove(c) \/ DeleteStat(c) \/ DeleteUnlink(c)
     PROVE AloneIsAlone'
  BY <1>4 DEF CreateInsert, Goto, local, history, AfterEviction, CreateWrite,
     Finish, Truncated, CreateFill, RestoreLook, RestoreRead, RestoreReadd,
     DeleteRemove, DeleteStat, Deleted, DeleteUnlink
<1>5. CASE StartBegin \/ StartLoad \/ StartEnd \/ CleanupCollect \/ CleanupRemove \/
           ShutdownBegin \/ ShutdownSave \/ ShutdownEnd \/ Crash \/ Tick \/
           UNCHANGED vars
  BY <1>5 DEF StartBegin, clients, history, Quiet, StartLoad, StartEnd,
     CleanupCollect, CleanupRemove, ShutdownBegin, ShutdownSave, ShutdownEnd, Crash,
     Tick, vars
<1> QED
  BY <1>1, <1>2, <1>3, <1>4, <1>5 DEF Next, Call

(* What adds to the map is a call on the same id, or a start, which runs      *)
(* alone.                                                                     *)
LEMMA RemovedStep == ASSUME CheckpointAssumption, IInv, [Next]_vars PROVE RemovedStaysOut'
<1> USE DEF TypeOK, Made, Points, Busy, IInv, Exclusive, AloneIsAlone,
   RemovedStaysOut
<1>1. ASSUME NEW c \in Clients, CreateInsert(c) PROVE RemovedStaysOut'
  BY <1>1 DEF CreateInsert, Goto, local, history, AfterEviction
<1>2. ASSUME NEW c \in Clients, RestoreReadd(c) PROVE RemovedStaysOut'
  BY <1>2 DEF RestoreReadd, Finish, Goto, local, history
<1>3. ASSUME NEW c \in Clients, DeleteRemove(c) PROVE RemovedStaysOut'
  BY <1>3 DEF DeleteRemove, Goto, local, history
<1>4. CASE StartLoad
  BY <1>4 DEF StartLoad, clients, history
<1>5. ASSUME NEW c \in Clients,
             BeginCreate(c) \/ CreateWrite(c) \/ CreateFill(c) \/
             BeginRestore(c) \/ RestoreLook(c) \/ RestoreRead(c) \/
             BeginDelete(c) \/ DeleteStat(c) \/ DeleteUnlink(c)
     PROVE RemovedStaysOut'
  BY <1>5 DEF BeginCreate, Begin, Goto, Made, CreateWrite, Finish, Truncated, local,
     history, CreateFill, BeginRestore, RestoreLook, RestoreRead, BeginDelete,
     DeleteStat, Deleted, DeleteUnlink
<1>6. CASE StartBegin \/ StartEnd \/ CleanupCollect \/ CleanupRemove \/
           ShutdownBegin \/ ShutdownSave \/ ShutdownEnd \/ Crash \/ Tick \/
           UNCHANGED vars
  BY <1>6 DEF StartBegin, clients, history, Quiet, StartEnd, CleanupCollect,
     CleanupRemove, ShutdownBegin, ShutdownSave, ShutdownEnd, Crash, Tick, vars
<1> QED
  BY <1>1, <1>2, <1>3, <1>4, <1>5, <1>6 DEF Next, Call

(* A call that could bring an id back would not have left the delete alone.   *)
LEMMA NoRevivalStep == ASSUME CheckpointAssumption, IInv, [Next]_vars PROVE NoRevival'
<1> USE DEF TypeOK, Made, Points, Busy, IInv, Exclusive, Creating, AloneIsAlone,
   NoRevival, DeletedStaysGone
<1>1. ASSUME NEW c \in Clients, BeginCreate(c) PROVE NoRevival'
  BY <1>1 DEF BeginCreate, Begin, Goto, Made
<1>2. ASSUME NEW c \in Clients, RestoreRead(c) PROVE NoRevival'
  BY <1>2 DEF RestoreRead, Finish, Goto, local, history
<1>3. ASSUME NEW c \in Clients, DeleteStat(c) PROVE NoRevival'
  BY <1>3 DEF DeleteStat, Goto, Finish, Deleted, local
<1>4. ASSUME NEW c \in Clients, DeleteUnlink(c) PROVE NoRevival'
  BY <1>4 DEF DeleteUnlink, Goto, Finish, Deleted, local
<1>5. CASE StartBegin
  BY <1>5 DEF StartBegin, clients, history, Quiet
<1>6. CASE ShutdownBegin
  BY <1>6 DEF ShutdownBegin, clients, history, Quiet
<1>7. ASSUME NEW c \in Clients,
             CreateInsert(c) \/ CreateWrite(c) \/ CreateFill(c) \/
             BeginRestore(c) \/ RestoreLook(c) \/ RestoreReadd(c) \/
             BeginDelete(c) \/ DeleteRemove(c)
     PROVE NoRevival'
  BY <1>7 DEF CreateInsert, Goto, local, history, AfterEviction, CreateWrite,
     Finish, Truncated, CreateFill, BeginRestore, Begin, RestoreLook, RestoreReadd,
     BeginDelete, DeleteRemove
<1>8. CASE StartLoad \/ StartEnd \/ CleanupCollect \/ CleanupRemove \/ ShutdownSave
           \/ ShutdownEnd \/ Crash \/ Tick \/ UNCHANGED vars
  BY <1>8 DEF StartLoad, clients, history, StartEnd, CleanupCollect, CleanupRemove,
     ShutdownSave, ShutdownEnd, Crash, Tick, vars
<1> QED
  BY <1>1, <1>2, <1>3, <1>4, <1>5, <1>6, <1>7, <1>8 DEF Next, Call

(* A file is rewritten by its creator, before it is saved, or by a shutdown.  *)
LEMMA StoredStep == ASSUME CheckpointAssumption, IInv, [Next]_vars PROVE StoredSurvives'
<1> USE DEF TypeOK, Made, Points, Busy, IInv, Creating, CreatorUnique,
   StoredSurvives
<1>1. ASSUME NEW c \in Clients, CreateWrite(c) PROVE StoredSurvives'
  BY <1>1 DEF CreateWrite, Goto, Finish, Truncated, local, history
<1>2. ASSUME NEW c \in Clients, CreateFill(c) PROVE StoredSurvives'
  BY <1>2 DEF CreateFill, Finish, Goto, local
<1>3. ASSUME NEW c \in Clients, DeleteUnlink(c) PROVE StoredSurvives'
  BY <1>3 DEF DeleteUnlink, Goto, Finish, Deleted, local
<1>4. CASE ShutdownSave
  BY <1>4 DEF ShutdownSave, clients
<1>5. ASSUME NEW c \in Clients,
             BeginCreate(c) \/ CreateInsert(c) \/ BeginRestore(c) \/
             RestoreLook(c) \/ RestoreRead(c) \/ RestoreReadd(c) \/
             BeginDelete(c) \/ DeleteRemove(c) \/ DeleteStat(c)
     PROVE StoredSurvives'
  BY <1>5 DEF BeginCreate, Begin, Goto, Made, CreateInsert, local, history,
     AfterEviction, BeginRestore, RestoreLook, Finish, RestoreRead, RestoreReadd,
     BeginDelete, DeleteRemove, DeleteStat, Deleted
<1>6. CASE StartBegin \/ StartLoad \/ StartEnd \/ CleanupCollect \/ CleanupRemove \/
           ShutdownBegin \/ ShutdownEnd \/ Crash \/ Tick \/ UNCHANGED vars
  BY <1>6 DEF StartBegin, clients, history, Quiet, StartLoad, StartEnd,
     CleanupCollect, CleanupRemove, ShutdownBegin, ShutdownEnd, Crash, Tick, vars
<1> QED
  BY <1>1, <1>2, <1>3, <1>4, <1>5, <1>6 DEF Next, Call

(* Everything that adds to the map or writes a file is excluded by NoRevival. *)
LEMMA GoneStep == ASSUME CheckpointAssumption, IInv, [Next]_vars PROVE DeletedStaysGone'
<1> USE DEF TypeOK, Made, Points, Busy, IInv, Exclusive, Creating, RemovedStaysOut,
   NoRevival, DeletedStaysGone
<1>1. ASSUME NEW c \in Clients, CreateInsert(c) PROVE DeletedStaysGone'
  BY <1>1 DEF CreateInsert, Goto, local, history, AfterEviction
<1>2. ASSUME NEW c \in Clients, CreateWrite(c) PROVE DeletedStaysGone'
  BY <1>2 DEF CreateWrite, Goto, Finish, Truncated, local, history
<1>3. ASSUME NEW c \in Clients, CreateFill(c) PROVE DeletedStaysGone'
  BY <1>3 DEF CreateFill, Finish, Goto, local
<1>4. ASSUME NEW c \in Clients, RestoreReadd(c) PROVE DeletedStaysGone'
  BY <1>4 DEF RestoreReadd, Finish, Goto, local, history
<1>5. ASSUME NEW c \in Clients, DeleteStat(c) PROVE DeletedStaysGone'
  BY <1>5 DEF DeleteStat, Goto, Finish, Deleted, local
<1>6. ASSUME NEW c \in Clients, DeleteUnlink(c) PROVE DeletedStaysGone'
  BY <1>6 DEF DeleteUnlink, Goto, Finish, Deleted, local
<1>7. CASE StartLoad
  BY <1>7 DEF StartLoad, clients, history
<1>8. CASE ShutdownSave
  BY <1>8 DEF ShutdownSave, clients
<1>9. ASSUME NEW c \in Clients,
             BeginCreate(c) \/ BeginRestore(c) \/ RestoreLook(c) \/
             RestoreRead(c) \/ BeginDelete(c) \/ DeleteRemove(c)
     PROVE DeletedStaysGone'
  BY <1>9 DEF BeginCreate, Begin, Goto, Made, BeginRestore, RestoreLook, Finish,
     local, history, RestoreRead, BeginDelete, DeleteRemove
<1>10. CASE StartBegin \/ StartEnd \/ CleanupCollect \/ CleanupRemove \/
           ShutdownBegin \/ ShutdownEnd \/ Crash \/ Tick \/ UNCHANGED vars
  BY <1>10 DEF StartBegin, clients, history, Quiet, StartEnd, CleanupCollect,
     CleanupRemove, ShutdownBegin, ShutdownEnd, Crash, Tick, vars
<1> QED
  BY <1>1, <1>2, <1>3, <1>4, <1>5, <1>6, <1>7, <1>8, <1>9, <1>10 DEF Next, Call

-----------------------------------------------------------------------------
(* The strengthened invariant holds of every behaviour.                       *)
LEMMA Inductive == ASSUME CheckpointAssumption PROVE Spec => []IInv
<1>1. Init => IInv
  <2> SUFFICES ASSUME Init PROVE IInv
    OBVIOUS
  <2>1. TypeOK
    BY DEF CheckpointAssumption, Init, TypeOK, Made, Points, Busy
  <2>2. FilesMade /\ Exclusive /\ CreatorUnique
    BY DEF Init, FilesMade, Exclusive, CreatorUnique, Creating, Busy
  <2>3. AloneIsAlone /\ RemovedStaysOut
    BY DEF Init, AloneIsAlone, RemovedStaysOut, Busy
  <2>4. NoRevival /\ StoredSurvives /\ DeletedStaysGone
    BY DEF Init, NoRevival, StoredSurvives, DeletedStaysGone
  <2> QED
    BY <2>1, <2>2, <2>3, <2>4 DEF IInv
<1>2. IInv /\ [Next]_vars => IInv'
  <2> SUFFICES ASSUME IInv, [Next]_vars PROVE IInv'
    OBVIOUS
  <2>1. TypeOK' /\ FilesMade' /\ Exclusive' /\ CreatorUnique'
    BY TypeStep, FilesStep, ExclusiveStep, CreatorStep
  <2>2. AloneIsAlone' /\ RemovedStaysOut' /\ NoRevival'
    BY AloneStep, RemovedStep, NoRevivalStep
  <2>3. StoredSurvives' /\ DeletedStaysGone'
    BY StoredStep, GoneStep
  <2> QED
    BY <2>1, <2>2, <2>3 DEF IInv
<1> QED
  BY <1>1, <1>2, PTL DEF Spec

(* Type correctness: the map, the files to load and the ids a call, a cleanup *)
(* or a shutdown works on are always of checkpoints that were created.        *)
THEOREM TypeCorrect == ASSUME CheckpointAssumption PROVE Spec => []TypeOK
<1>1. IInv => TypeOK
  BY DEF IInv
<1> QED
  BY <1>1, Inductive, PTL

(* A checkpoint whose save completed stays whole on disk until its own delete *)
(* or a shutdown rewrites the file: for any number of concurrent calls, any   *)
(* evictions, cleanups, crashes and restarts.                                 *)
THEOREM StoredCheckpointsSurvive ==
  ASSUME CheckpointAssumption PROVE Spec => []StoredSurvives
<1>1. IInv => StoredSurvives
  BY DEF IInv
<1> QED
  BY <1>1, Inductive, PTL

(* A checkpoint deleted while no other call worked on it never comes back to  *)
(* memory or disk: not by a restore, not at the next start, not at a shutdown.*)
THEOREM DeletedCheckpointsStayGone ==
  ASSUME CheckpointAssumption PROVE Spec => []DeletedStaysGone
<1>1. IInv => DeletedStaysGone
  BY DEF IInv
<1> QED
  BY <1>1, Inductive, PTL

-----------------------------------------------------------------------------
(* What holds of checkpoints alone holds of the run, which leaves them alone   *)
(* while it exercises another part.                                            *)
LEMMA CheckpointsHold == MCSpec => []IInv
<1>1. MCInit => Init
  BY StartOfPart
<1>2. [MCNext]_all => [Next]_vars
  BY StepOfPart
<1>3. MCSpec => Spec
  BY <1>1, <1>2, PTL DEF MCSpec, Spec
<1> QED
  BY <1>3, Inductive, PartsAssumption, PTL DEF PartsAssumption

-----------------------------------------------------------------------------
(* Playback, for recordings of any length and any number of plays.  What syncs *)
(* a frame may rely on the cursor because it holds the timeline since it sent  *)
(* it: so the invariant says that only one task ever holds it.                 *)
LEMMA PlaybackStarts == ASSUME PB!PlaybackAssumption PROVE PB!Init => PB!PlaybackInv
  BY DEF PB!Init, PB!PlaybackInv, PB!Kept, PB!OneHolder, PB!Holds,
     PB!SyncsWhereTimelineIs, PB!Points, PB!PlaybackState, PB!PlaybackAssumption,
     PB!Tasks, PB!NoTask

LEMMA PlaybackKept ==
  ASSUME PB!PlaybackAssumption, PB!PlaybackInv, [PB!Next]_(PB!playbackVars)
  PROVE  PB!Kept'
<1> USE DEF PB!PlaybackAssumption, PB!PlaybackInv, PB!Kept, PB!PlaybackState, PB!Points,
            PB!Tasks, PB!NoTask
<1>1. CASE PB!load_recording
  BY <1>1 DEF PB!load_recording
<1>2. ASSUME NEW t \in PB!Tasks, PB!play(t) PROVE PB!Kept'
  BY <1>2 DEF PB!play
<1>3. CASE PB!pause
  BY <1>3 DEF PB!pause
<1>4. ASSUME NEW n \in 0..Frames, PB!seek_to(n) PROVE PB!Kept'
  BY <1>4 DEF PB!seek_to
<1>5. CASE PB!stop
  BY <1>5 DEF PB!stop
<1>6. CASE PB!StopSeeks
  BY <1>6 DEF PB!StopSeeks
<1>7. CASE PB!SeekEnds
  <2>1. PICK n \in v11 :
          IF n < v2 THEN v1' = "Paused" /\ v3' = n
          ELSE v1' = "Error" /\ UNCHANGED v3
    BY <1>7 DEF PB!SeekEnds
  <2> QED
    BY <1>7, <2>1 DEF PB!SeekEnds
<1>8. CASE PB!StepTakesClient \/ PB!StepChecks \/ PB!StepMoves
  <2>1. CASE PB!StepTakesClient \/ PB!StepChecks
    BY <2>1 DEF PB!StepTakesClient, PB!StepChecks
  <2>2. CASE PB!StepMoves
    <3>1. v3' \in 0..Frames
      BY <2>2 DEF PB!StepMoves
    <3> QED
      BY <2>2, <3>1 DEF PB!StepMoves
  <2> QED
    BY <1>8, <2>1, <2>2
<1>9. ASSUME NEW t \in PB!Tasks, PB!PlayReturns(t) \/ PB!Tick(t) \/ PB!TakesTimeline(t) PROVE PB!Kept'
  BY <1>9 DEF PB!PlayReturns, PB!Tick, PB!TakesTimeline
<1>10. ASSUME NEW t \in PB!Tasks, PB!Sends(t) \/ PB!Breaks(t) \/ PB!Syncs(t) \/ PB!StopSeen(t)
       PROVE  PB!Kept'
  <2>1. CASE PB!Sends(t) \/ PB!Breaks(t) \/ PB!StopSeen(t)
    BY <2>1 DEF PB!Sends, PB!Breaks, PB!StopSeen
  <2>2. CASE PB!Syncs(t)
    <3>1. v3' \in 0..Frames /\ v1' \in PB!PlaybackState
      BY <2>2 DEF PB!Syncs
    <3>2. v4' \in [PB!Tasks -> PB!Points]
      BY <2>2 DEF PB!Syncs
    <3> QED
      BY <2>2, <3>1, <3>2 DEF PB!Syncs
  <2> QED
    BY <1>10, <2>1, <2>2
<1>11. CASE UNCHANGED PB!playbackVars
  BY <1>11 DEF PB!playbackVars
<1> QED
  BY <1>1, <1>2, <1>3, <1>4, <1>5, <1>6, <1>7, <1>8, <1>9, <1>10, <1>11
  DEF PB!Next, PB!handle_play, PB!handle_pause, PB!handle_seek

LEMMA PlaybackHolder ==
  ASSUME PB!PlaybackAssumption, PB!PlaybackInv, [PB!Next]_(PB!playbackVars)
  PROVE  PB!OneHolder' /\ PB!SyncsWhereTimelineIs'
<1> USE DEF PB!PlaybackInv, PB!Kept, PB!OneHolder, PB!Holds, PB!SyncsWhereTimelineIs
(* Who moves the cursor waits until nobody holds the timeline.                 *)
<1>1. CASE PB!load_recording \/ PB!StopSeeks \/ PB!SeekEnds \/ PB!StepMoves
  BY <1>1 DEF PB!load_recording, PB!StopSeeks, PB!SeekEnds, PB!StepMoves, PB!TimelineFree
<1>2. CASE PB!pause \/ PB!handle_seek \/ PB!StepTakesClient \/ PB!StepChecks \/ UNCHANGED PB!playbackVars
  BY <1>2 DEF PB!pause, PB!handle_seek, PB!seek_to, PB!StepTakesClient, PB!StepChecks, PB!playbackVars
<1>3. CASE PB!stop
  BY <1>3 DEF PB!stop
<1>4. ASSUME NEW t \in PB!Tasks, PB!play(t) \/ PB!PlayReturns(t) \/ PB!Tick(t)
      PROVE  PB!OneHolder' /\ PB!SyncsWhereTimelineIs'
  BY <1>4 DEF PB!play, PB!PlayReturns, PB!Tick
<1>5. ASSUME NEW t \in PB!Tasks, PB!TakesTimeline(t)
      PROVE  PB!OneHolder' /\ PB!SyncsWhereTimelineIs'
  BY <1>5 DEF PB!TakesTimeline, PB!TimelineFree
<1>6. ASSUME NEW t \in PB!Tasks, PB!Sends(t) \/ PB!Breaks(t) \/ PB!Syncs(t) \/ PB!StopSeen(t)
      PROVE  PB!OneHolder' /\ PB!SyncsWhereTimelineIs'
  BY <1>6 DEF PB!Sends, PB!Breaks, PB!Syncs, PB!StopSeen
<1> QED
  BY <1>1, <1>2, <1>3, <1>4, <1>5, <1>6 DEF PB!Next, PB!handle_play, PB!handle_pause

LEMMA PlaybackTypes ==
  ASSUME PB!PlaybackAssumption, PB!PlaybackInv
  PROVE  PB!TypeOK
<1> DEFINE Holders == {t \in PB!Tasks : v4[t] \in {"holding", "sent"}}
<1>1. Cardinality(Holders) <= 1
  <2>1. CASE Holders = {}
    BY <2>1, FS_EmptySet
  <2>2. ASSUME NEW t \in Holders PROVE Cardinality(Holders) <= 1
    <3>1. Holders = {t}
      BY DEF PB!PlaybackInv, PB!OneHolder, PB!Holds
    <3>2. Cardinality({t}) = 1
      BY FS_Singleton
    <3> HIDE DEF Holders
    <3> QED
      BY <3>1, <3>2
  <2> QED
    BY <2>1, <2>2
<1> HIDE DEF Holders
<1>2. PB!get_stats \in [state : PB!PlaybackState, current_frame : 0..Frames,
                    total_frames : {0, Frames}]
  BY DEF PB!PlaybackInv, PB!Kept, PB!get_stats
<1>3. PB!Cardinality(Holders) = Cardinality(Holders)
  BY DEF PB!Cardinality, Cardinality
<1> QED
  BY <1>1, <1>2, <1>3 DEF PB!TypeOK, PB!PlaybackInv, PB!Kept, Holders

(* Whatever is requested while a recording plays, and however many plays were  *)
(* started, the frame that goes to the game is the one the timeline is at.     *)
THEOREM PlaybackSyncs ==
  ASSUME PB!PlaybackAssumption
  PROVE  PB!Spec => [](PB!TypeOK /\ PB!SyncsWhereTimelineIs)
<1>1. PB!Init => PB!PlaybackInv
  BY PlaybackStarts
<1>2. PB!PlaybackInv /\ [PB!Next]_(PB!playbackVars) => PB!PlaybackInv'
  BY PlaybackKept, PlaybackHolder DEF PB!PlaybackInv
<1>3. PB!PlaybackInv => PB!TypeOK /\ PB!SyncsWhereTimelineIs
  BY PlaybackTypes DEF PB!PlaybackInv
<1> QED
  BY <1>1, <1>2, <1>3, PTL DEF PB!Spec

PlaybackPart == part = "playback" => PB!PlaybackInv

LEMMA PlaybackHolds == MCSpec => []PlaybackPart
<1> USE PartsAssumption DEF PartsAssumption
<1>1. MCInit => PlaybackPart
  BY StartOfPart, PlaybackStarts DEF PlaybackPart
<1>2. PlaybackPart /\ [MCNext]_all => PlaybackPart'
  <2> SUFFICES ASSUME PlaybackPart, [MCNext]_all, part = "playback"
               PROVE  PB!PlaybackInv'
    BY StepOfPart DEF PlaybackPart
  <2>1. PB!PlaybackInv /\ [PB!Next]_(PB!playbackVars)
    BY StepOfPart DEF PlaybackPart
  <2>2. PB!Kept' /\ PB!OneHolder' /\ PB!SyncsWhereTimelineIs'
    BY <2>1, PlaybackKept, PlaybackHolder
  <2> QED
    BY <2>2 DEF PB!PlaybackInv
<1> QED
  BY <1>1, <1>2, PTL DEF MCSpec

(* The frame that is sent to the game is the one the timeline is at, whatever *)
(* is requested while a recording plays (playback_system.rs).                 *)
THEOREM FramesAreSynced == MCSpec => []SyncsWhereTimelineIs
<1>1. PlaybackPart => SyncsWhereTimelineIs
  BY DEF PlaybackPart, PB!PlaybackInv, SyncsWhereTimelineIs
<1> QED
  BY <1>1, PlaybackHolds, PTL
-----------------------------------------------------------------------------
(* Sessions.  What a checkpoint saved and a session that is restored from it   *)
(* are the same, so whatever is claimed of live sessions is claimed of saved   *)
(* ones: that they are well formed, and that the checkpoints they list are     *)
(* saved and form a past.                                                      *)
Session ==
  [id : Clients, state : {"Active", "Replaying"}, first : Nat, last : Nat,
   replay_position : Nat \cup {None}, checkpoints : Seq(Ids)]

WellFormed(x) == x # None => x \in Session /\ SM!SessionOK(x)

Past(checkpoints, x) ==
  x # None =>
    \A i \in 1..Len(x.checkpoints) :
      LET before == checkpoints[x.checkpoints[i]] IN
        before # None /\ before.checkpoints = SubSeq(x.checkpoints, 1, i - 1)

SessionsFormed ==
  /\ DOMAIN v1 = Clients /\ v1 = [s \in Clients |-> v1[s]]
  /\ DOMAIN v2 = Ids /\ v2 = [c \in Ids |-> v2[c]]
  /\ \A s \in Clients : WellFormed(v1[s])
  /\ \A c \in Ids : WellFormed(v2[c])

SessionsPast ==
  /\ \A s \in Clients : Past(v2, v1[s])
  /\ \A c \in Ids : Past(v2, v2[c])

SessionsInv == SessionsFormed /\ SessionsPast
SessionsPart == part = "sessions" => SessionsInv
LEMMA SessionsStart == ASSUME SM!Init PROVE SessionsInv
  BY DEF SM!Init, SessionsInv, SessionsFormed, SessionsPast, WellFormed, Past

(* An operation that replaces one session by a well-formed one with a past.    *)
LEMMA OneBecomes ==
  ASSUME SessionsInv, NEW s \in Clients, NEW x, SM!Becomes(s, x), v2' = v2,
         WellFormed(x), Past(v2, x)
  PROVE  SessionsInv'
<1>1. /\ DOMAIN v1' = Clients /\ v1' = [t \in Clients |-> v1'[t]]
      /\ \A t \in Clients : v1'[t] = IF t = s THEN x ELSE v1[t]
  BY DEF SessionsInv, SessionsFormed, SM!Becomes
<1>2. SessionsFormed'
  BY <1>1 DEF SessionsInv, SessionsFormed, WellFormed, SM!SessionOK, SM!Length
<1>3. SessionsPast'
  BY <1>1 DEF SessionsInv, SessionsPast, Past
<1> QED
  BY <1>2, <1>3 DEF SessionsInv

(* What the operations make of a session.                                      *)
LEMMA SessionChanges ==
  ASSUME PartsAssumption, SessionsInv, NEW s \in Clients, v1[s] # None
  PROVE  /\ LET y == [v1[s] EXCEPT !.state = "Active"]
            IN  WellFormed(y) /\ Past(v2, y)
         /\ LET y == SM!Pushed(v1[s]) IN WellFormed(y) /\ Past(v2, y)
         /\ \A from \in Nat : from < SM!Length(v1[s]) =>
              LET y == [v1[s] EXCEPT !.replay_position = from, !.state = "Replaying"]
              IN  WellFormed(y) /\ Past(v2, y)
         /\ LET y == SM!Stopped(v1[s]) IN WellFormed(y) /\ Past(v2, y)
         /\ v1[s].replay_position # None /\ v1[s].replay_position < SM!Length(v1[s]) =>
              LET y == [v1[s] EXCEPT !.replay_position = @ + 1]
              IN  WellFormed(y) /\ Past(v2, y)
<1> DEFINE x == v1[s]
<1>1. x \in Session /\ SM!SessionOK(x) /\ Past(v2, x) /\ x # None
  BY DEF SessionsInv, SessionsFormed, SessionsPast, WellFormed
<1> HIDE DEF x
<1>2. HistoryLimit \in Nat \ {0} /\ None \notin Nat
  BY PartsAssumption DEF PartsAssumption, SM!SessionAssumption
<1>3. /\ x.id \in Clients /\ x.state \in {"Active", "Replaying"} /\ x.first \in Nat
      /\ x.last \in Nat /\ x.last - x.first \in 0..HistoryLimit
      /\ x.replay_position \in (0..(x.last - x.first)) \cup {None}
      /\ x.state = "Replaying" => x.replay_position # None
      /\ x.checkpoints \in Seq(Ids)
  BY <1>1, <1>2 DEF Session, SM!SessionOK, SM!Length
(* The past is that of the list of checkpoints, which none of them changes.    *)
<1>4. ASSUME NEW y \in Session, y.checkpoints = x.checkpoints PROVE Past(v2, y)
  BY <1>1, <1>4 DEF Past
<1>5. ASSUME NEW y \in Session, y.checkpoints = x.checkpoints, y.id = x.id,
             y.last - y.first \in 0..HistoryLimit,
             y.replay_position \in (0..(y.last - y.first)) \cup {None},
             y.state = "Replaying" => y.replay_position # None
      PROVE  WellFormed(y) /\ Past(v2, y)
  <2>1. SM!SessionOK(y)
    BY <1>2, <1>5 DEF Session, SM!SessionOK, SM!Length
  <2> QED
    BY <1>4, <1>5, <2>1 DEF WellFormed
<1>6. LET y == [x EXCEPT !.state = "Active"] IN WellFormed(y) /\ Past(v2, y)
  <2> DEFINE y == [x EXCEPT !.state = "Active"]
  <2>1. /\ y \in Session /\ y.state = "Active" /\ y.id = x.id /\ y.first = x.first
        /\ y.last = x.last /\ y.replay_position = x.replay_position
        /\ y.checkpoints = x.checkpoints
    BY <1>1 DEF Session
  <2> HIDE DEF y
  <2>2. WellFormed(y) /\ Past(v2, y)
    BY <1>3, <1>5, <2>1
  <2> QED
    BY <2>2 DEF y
<1>7. LET y == SM!Pushed(x) IN WellFormed(y) /\ Past(v2, y)
  <2> DEFINE y == SM!Pushed(x)
             f == IF SM!Length(x) >= HistoryLimit THEN x.last + 1 - HistoryLimit ELSE x.first
  <2>1. /\ f \in Nat /\ x.last + 1 \in Nat /\ x.last + 1 - f \in 0..HistoryLimit
        /\ x.last - x.first <= x.last + 1 - f
    <3>1. SM!Length(x) = x.last - x.first
      BY DEF SM!Length
    <3>2. CASE SM!Length(x) >= HistoryLimit
      <4>1. f = x.last + 1 - HistoryLimit /\ x.last - x.first >= HistoryLimit
        BY <3>1, <3>2
      <4> HIDE DEF x, f
      <4> QED
        BY <1>2, <1>3, <4>1
    <3>3. CASE ~(SM!Length(x) >= HistoryLimit)
      <4>1. f = x.first /\ ~(x.last - x.first >= HistoryLimit)
        BY <3>1, <3>3
      <4> HIDE DEF x, f
      <4> QED
        BY <1>2, <1>3, <4>1
    <3> QED
      BY <3>2, <3>3
  <2>2. y = [x EXCEPT !.last = x.last + 1, !.first = f]
    BY Zenon, <1>1 DEF SM!Pushed, Session
  <2> HIDE DEF f, y
  <2>3. y \in Session
    BY Zenon, <1>1, <2>1, <2>2 DEF Session
  <2>4. /\ y.state = x.state /\ y.id = x.id /\ y.replay_position = x.replay_position
        /\ y.checkpoints = x.checkpoints
    BY Zenon, <1>1, <2>2 DEF Session
  <2>5. y.last = x.last + 1
    BY Zenon, <1>1, <2>2 DEF Session
  <2>6. y.first = f
    BY Zenon, <1>1, <2>2 DEF Session
  <2>7. y.replay_position \in (0..(y.last - y.first)) \cup {None}
    BY <1>3, <2>1, <2>4, <2>5, <2>6
  <2>8. y.last - y.first \in 0..HistoryLimit
    BY <1>3, <2>1, <2>5, <2>6
  <2>9. y.state = "Replaying" => y.replay_position # None
    BY <1>3, <2>4
  <2>10. WellFormed(y) /\ Past(v2, y)
    BY <1>5, <2>3, <2>4, <2>7, <2>8, <2>9
  <2> QED
    BY <2>10 DEF y
<1>8. ASSUME NEW from \in Nat, from < SM!Length(x)
      PROVE  LET y == [x EXCEPT !.replay_position = from, !.state = "Replaying"]
             IN  WellFormed(y) /\ Past(v2, y)
  <2> DEFINE y == [x EXCEPT !.replay_position = from, !.state = "Replaying"]
  <2>1. y \in Session
    BY Zenon, <1>1 DEF Session
  <2>2. /\ y.id = x.id /\ y.first = x.first /\ y.last = x.last
        /\ y.replay_position = from /\ y.checkpoints = x.checkpoints
    BY Zenon, <1>1 DEF Session
  <2> HIDE DEF y
  <2>3. from \in 0..(x.last - x.first) /\ from # None
    BY <1>2, <1>3, <1>8 DEF SM!Length
  <2>4. WellFormed(y) /\ Past(v2, y)
    BY <1>3, <1>5, <2>1, <2>2, <2>3
  <2> QED
    BY <2>4 DEF y
<1>9. LET y == SM!Stopped(x) IN WellFormed(y) /\ Past(v2, y)
  <2> DEFINE y == SM!Stopped(x)
  <2>1. y \in Session
    BY Zenon, <1>1 DEF Session, SM!Stopped
  <2>2. /\ y.id = x.id /\ y.first = x.first /\ y.last = x.last /\ y.state = "Active"
        /\ y.replay_position = None /\ y.checkpoints = x.checkpoints
    BY Zenon, <1>1 DEF Session, SM!Stopped
  <2> HIDE DEF y
  <2>3. WellFormed(y) /\ Past(v2, y)
    BY <1>3, <1>5, <2>1, <2>2
  <2> QED
    BY <2>3 DEF y
<1>10. ASSUME x.replay_position # None, x.replay_position < SM!Length(x)
       PROVE  LET y == [x EXCEPT !.replay_position = @ + 1] IN WellFormed(y) /\ Past(v2, y)
  <2> DEFINE y == [x EXCEPT !.replay_position = @ + 1]
  <2>1. x.replay_position + 1 \in 0..(x.last - x.first) /\ x.replay_position + 1 # None
    BY <1>2, <1>3, <1>10 DEF SM!Length
  <2>2. /\ y \in Session /\ y.state = x.state /\ y.id = x.id /\ y.first = x.first
        /\ y.last = x.last /\ y.replay_position = x.replay_position + 1
        /\ y.checkpoints = x.checkpoints
    BY <1>1, <2>1 DEF Session
  <2> HIDE DEF y
  <2>3. WellFormed(y) /\ Past(v2, y)
    BY <1>3, <1>5, <2>1, <2>2
  <2> QED
    BY <2>3 DEF y
<1> QED
  BY <1>6, <1>7, <1>8, <1>9, <1>10 DEF x
LEMMA PrefixOfAppend ==
  ASSUME NEW S, NEW list \in Seq(S), NEW c \in S, NEW i \in 0..Len(list)
  PROVE  SubSeq(Append(list, c), 1, i) = SubSeq(list, 1, i)
<1> DEFINE longer == Append(list, c)
           a == SubSeq(longer, 1, i)
           b == SubSeq(list, 1, i)
<1>1. \A j \in 1..Len(list) : longer[j] = list[j] /\ list[j] \in S
  BY AppendProperties, ElementOfSeq
<1>2. Len(list) \in Nat
  BY LenProperties
<1> HIDE DEF longer
<1>3. \A j \in 1..i : longer[j] \in S /\ longer[j] = list[j]
  BY <1>1, <1>2
<1>4. \A j \in 1..i : list[j] \in S
  BY <1>1, <1>2
<1>5. /\ a \in Seq(S) /\ Len(a) = IF 1 <= i THEN i - 1 + 1 ELSE 0
      /\ \A j \in 1..(i - 1 + 1) : a[j] = longer[1 + j - 1]
  BY <1>2, <1>3, SubSeqProperties
<1>6. /\ b \in Seq(S) /\ Len(b) = IF 1 <= i THEN i - 1 + 1 ELSE 0
      /\ \A j \in 1..(i - 1 + 1) : b[j] = list[1 + j - 1]
  BY <1>2, <1>4, SubSeqProperties
<1> HIDE DEF a, b
<1>7. Len(a) = Len(b) /\ \A j \in 1..Len(a) : a[j] = b[j]
  BY <1>2, <1>3, <1>5, <1>6
<1>8. a = b
  BY <1>5, <1>6, <1>7, SeqEqual
<1> QED
  BY <1>8 DEF a, b, longer

(* Saving a session under a new id leaves every past as it was: no list has    *)
(* the id yet, for what a list has is saved.                                   *)
LEMMA PastKept ==
  ASSUME NEW c \in Ids, v2[c] = None, DOMAIN v2 = Ids, NEW x, v2' = [v2 EXCEPT ![c] = x],
         NEW y, y # None => y.checkpoints \in Seq(Ids), Past(v2, y)
  PROVE  Past(v2', y)
<1> SUFFICES ASSUME y # None, NEW i \in 1..Len(y.checkpoints)
             PROVE  LET before == v2'[y.checkpoints[i]]
                    IN  before # None /\ before.checkpoints = SubSeq(y.checkpoints, 1, i - 1)
  BY DEF Past
<1>1. y.checkpoints[i] \in Ids
  BY ElementOfSeq
<1>2. /\ v2[y.checkpoints[i]] # None
      /\ v2[y.checkpoints[i]].checkpoints = SubSeq(y.checkpoints, 1, i - 1)
  BY DEF Past
<1>3. v2'[y.checkpoints[i]] = v2[y.checkpoints[i]]
  BY <1>1, <1>2
<1> QED
  BY <1>2, <1>3

LEMMA CheckpointCreated ==
  ASSUME PartsAssumption, SessionsInv, NEW s \in Clients, SM!CreateCheckpoint(s)
  PROVE  SessionsInv'
<1> DEFINE x == v1[s]
<1>1. PICK c \in Ids : /\ v2[c] = None /\ v2' = [v2 EXCEPT ![c] = x]
                       /\ SM!Becomes(s, [x EXCEPT !.checkpoints = Append(@, c)])
  BY DEF SM!CreateCheckpoint
<1> DEFINE y == [x EXCEPT !.checkpoints = Append(@, c)]
<1>2. x # None /\ x \in Session /\ SM!SessionOK(x) /\ Past(v2, x)
  BY DEF SM!CreateCheckpoint, SM!Live, SessionsInv, SessionsFormed, SessionsPast, WellFormed
<1>3. /\ v1' = [v1 EXCEPT ![s] = y] /\ DOMAIN v1' = Clients
      /\ \A t \in Clients : v1'[t] = IF t = s THEN y ELSE v1[t]
      /\ DOMAIN v2' = Ids
      /\ \A d \in Ids : v2'[d] = IF d = c THEN x ELSE v2[d]
  BY <1>1 DEF SM!Becomes, SessionsInv, SessionsFormed
<1> HIDE DEF x
<1>4. x.checkpoints \in Seq(Ids) /\ Append(x.checkpoints, c) \in Seq(Ids)
  BY <1>2, AppendProperties DEF Session
<1>5. y \in Session
  BY <1>2, <1>4 DEF Session
<1>6. /\ y.state = x.state /\ y.id = x.id /\ y.first = x.first /\ y.last = x.last
      /\ y.replay_position = x.replay_position
      /\ y.checkpoints = Append(x.checkpoints, c)
  BY <1>2 DEF Session
<1> HIDE DEF y
<1>7. WellFormed(y) /\ WellFormed(x)
  BY <1>2, <1>4, <1>5, <1>6 DEF WellFormed, SM!SessionOK, SM!Length
<1>8. Past(v2', y)
  <2> DEFINE list == x.checkpoints
             longer == Append(list, c)
  <2>1. /\ Len(list) \in Nat /\ Len(longer) = Len(list) + 1
        /\ \A i \in 1..Len(list) : longer[i] = list[i]
        /\ longer[Len(list) + 1] = c
    BY <1>4, LenProperties, AppendProperties
  <2>2. Past(v2', x)
    BY <1>1, <1>2, <1>4, PastKept DEF SessionsInv, SessionsFormed
  <2>3. ASSUME NEW i \in 1..Len(list)
        PROVE  v2'[longer[i]] # None /\ v2'[longer[i]].checkpoints = SubSeq(longer, 1, i - 1)
    <3>1. v2'[list[i]] # None /\ v2'[list[i]].checkpoints = SubSeq(list, 1, i - 1)
      BY <1>2, <2>2 DEF Past
    <3>2. SubSeq(longer, 1, i - 1) = SubSeq(list, 1, i - 1)
      <4>1. i - 1 \in 0..Len(list)
        BY <2>1
      <4> QED
        BY <1>4, <4>1, PrefixOfAppend
    <3>3. longer[i] = list[i]
      BY <2>1
    <3> QED
      BY <3>1, <3>2, <3>3
  <2>4. v2'[c] = x /\ x.checkpoints = SubSeq(longer, 1, Len(list))
    <3>1. SubSeq(longer, 1, Len(list)) = SubSeq(list, 1, Len(list))
      <4>1. Len(list) \in 0..Len(list)
        BY <2>1
      <4> QED
        BY <1>4, <4>1, PrefixOfAppend
    <3>2. SubSeq(list, 1, Len(list)) = list
      BY <1>4, SubSeqFull
    <3> QED
      BY <1>3, <3>1, <3>2
  <2> HIDE DEF list, longer
  <2>5. ASSUME NEW i \in 1..(Len(list) + 1)
        PROVE  v2'[longer[i]] # None /\ v2'[longer[i]].checkpoints = SubSeq(longer, 1, i - 1)
    <3>1. CASE i \in 1..Len(list)
      BY <2>3, <3>1
    <3>2. CASE i = Len(list) + 1
      <4>1. longer[i] = c /\ i - 1 = Len(list)
        BY <2>1, <3>2
      <4> QED
        BY <1>2, <2>4, <4>1 DEF list
    <3> QED
      BY <2>1, <3>1, <3>2
  <2>6. y.checkpoints = longer /\ Len(longer) = Len(list) + 1
    BY <1>6, <2>1 DEF longer, list
  <2> QED
    BY <2>5, <2>6 DEF Past
<1>9. ASSUME NEW z, WellFormed(z), Past(v2, z) PROVE Past(v2', z)
  <2>1. z # None => z.checkpoints \in Seq(Ids)
    BY <1>9 DEF WellFormed, Session
  <2> QED
    BY <1>1, <1>9, <2>1, PastKept DEF SessionsInv, SessionsFormed
<1>10. SessionsFormed'
  <2>1. v1' = [t \in Clients |-> v1'[t]] /\ v2' = [d \in Ids |-> v2'[d]]
    BY <1>1, <1>3 DEF SessionsInv, SessionsFormed
  <2>2. \A t \in Clients : WellFormed(v1'[t])
    BY <1>3, <1>7 DEF SessionsInv, SessionsFormed
  <2>3. \A d \in Ids : WellFormed(v2'[d])
    BY <1>3, <1>7 DEF SessionsInv, SessionsFormed
  <2> QED
    BY <1>3, <2>1, <2>2, <2>3 DEF SessionsFormed, WellFormed, SM!SessionOK, SM!Length
<1>11. SessionsPast'
  <2>1. \A t \in Clients : Past(v2', v1'[t])
    BY <1>3, <1>8, <1>9 DEF SessionsInv, SessionsFormed, SessionsPast
  <2>2. \A d \in Ids : Past(v2', v2'[d])
    BY <1>2, <1>3, <1>7, <1>9 DEF SessionsInv, SessionsFormed, SessionsPast
  <2> QED
    BY <2>1, <2>2 DEF SessionsPast, Past
<1> QED
  BY <1>10, <1>11 DEF SessionsInv
LEMMA SessionsEnd ==
  ASSUME SessionsInv, v2' = v2, NEW out,
         v1' = [s \in Clients |-> IF s \in out THEN None ELSE v1[s]]
  PROVE  SessionsInv'
<1>1. \A s \in Clients : v1'[s] = None \/ v1'[s] = v1[s]
  OBVIOUS
<1>2. SessionsFormed'
  BY <1>1 DEF SessionsInv, SessionsFormed, WellFormed, SM!SessionOK, SM!Length
<1>3. SessionsPast'
  BY <1>1 DEF SessionsInv, SessionsPast, Past
<1> QED
  BY <1>2, <1>3 DEF SessionsInv

LEMMA SessionsStep ==
  ASSUME PartsAssumption, SessionsInv, [SM!Next]_(SM!vars)
  PROVE  SessionsInv'
<1>1. ASSUME NEW s \in Clients, SM!Becomes(s, SM!NewSession(s)), v2' = v2
      PROVE  SessionsInv'
  <2> DEFINE y == SM!NewSession(s)
  <2>1. /\ y \in Session /\ y.id = s /\ y.state = "Active" /\ y.first = 0 /\ y.last = 0
        /\ y.replay_position = None /\ y.checkpoints = << >> /\ << >> \in Seq(Ids)
        /\ Len(<< >>) = 0
    BY EmptySeq DEF SM!NewSession, Session
  <2> HIDE DEF y
  <2>2. HistoryLimit \in Nat \ {0}
    BY PartsAssumption DEF PartsAssumption, SM!SessionAssumption
  <2>3. WellFormed(y)
    BY <2>1, <2>2 DEF WellFormed, SM!SessionOK, SM!Length
  <2>4. Past(v2, y)
    BY <2>1 DEF Past
  <2> QED
    BY <1>1, <2>3, <2>4, OneBecomes DEF y
<1>2. CASE SM!CreateSession
  BY <1>1, <1>2 DEF SM!CreateSession, SM!Free
<1>3. CASE SM!Cleanup
  BY <1>3, SessionsEnd DEF SM!Cleanup
<1>4. CASE SM!Crash
  <2>1. v1' = [s \in Clients |-> IF s \in Clients THEN None ELSE v1[s]]
    BY <1>4 DEF SM!Crash
  <2> QED
    BY <1>4, <2>1, SessionsEnd DEF SM!Crash
<1>5. CASE UNCHANGED SM!vars
  <2>1. v1' = v1 /\ v2' = v2
    BY <1>5 DEF SM!vars
  <2>2. SessionsFormed'
    BY <2>1 DEF SessionsInv, SessionsFormed, WellFormed
  <2>3. SessionsPast'
    BY <2>1 DEF SessionsInv, SessionsPast
  <2> QED
    BY <2>2, <2>3 DEF SessionsInv
<1>6. ASSUME NEW s \in Clients, SM!OnSession(s) PROVE SessionsInv'
  <2>1. CASE SM!EndSession(s)
    BY <2>1, OneBecomes DEF SM!EndSession, WellFormed, Past
  <2>2. CASE SM!ResumeSession(s)
    BY <2>2, OneBecomes, SessionChanges DEF SM!ResumeSession, SM!Live
  <2>3. CASE SM!CreateCheckpoint(s)
    BY <2>3, CheckpointCreated
  <2>4. CASE SM!RecordCommand(s)
    BY <2>4, OneBecomes, SessionChanges DEF SM!RecordCommand, SM!Live
  <2>5. ASSUME NEW from \in 0..MaxCommands, SM!StartReplay(s, from) PROVE SessionsInv'
    <3>1. from \in Nat
      BY PartsAssumption DEF PartsAssumption, SM!SessionAssumption
    <3> QED
      BY <2>5, <3>1, OneBecomes, SessionChanges DEF SM!StartReplay, SM!Live
  <2>6. CASE SM!NextReplayCommand(s)
    <3>1. CASE v1[s].replay_position < SM!Length(v1[s])
               /\ SM!Becomes(s, [v1[s] EXCEPT !.replay_position = @ + 1])
      BY <2>6, <3>1, OneBecomes, SessionChanges DEF SM!NextReplayCommand, SM!Live
    <3>2. CASE SM!Becomes(s, SM!Stopped(v1[s]))
      BY <2>6, <3>2, OneBecomes, SessionChanges DEF SM!NextReplayCommand, SM!Live
    <3> QED
      BY <2>6, <3>1, <3>2 DEF SM!NextReplayCommand
  <2>7. CASE SM!StopReplay(s)
    BY <2>7, OneBecomes, SessionChanges DEF SM!StopReplay, SM!Live
  <2>8. ASSUME NEW c \in Ids, SM!RestoreCheckpoint(s, c) PROVE SessionsInv'
    <3>1. WellFormed(v2[c]) /\ Past(v2, v2[c])
      BY DEF SessionsInv, SessionsFormed, SessionsPast
    <3> QED
      BY <2>8, <3>1, OneBecomes DEF SM!RestoreCheckpoint
  <2> QED
    BY <1>6, <2>1, <2>2, <2>3, <2>4, <2>5, <2>6, <2>7, <2>8 DEF SM!OnSession
<1> QED
  BY <1>2, <1>3, <1>4, <1>5, <1>6 DEF SM!Next

LEMMA SessionsHold == MCSpec => []SessionsPart
<1>1. MCInit => SessionsPart
  BY StartOfPart, SessionsStart DEF SessionsPart
<1>2. SessionsPart /\ [MCNext]_all => SessionsPart'
  BY StepOfPart, SessionsStep, PartsAssumption DEF SessionsPart
<1> QED
  BY <1>1, <1>2, PTL DEF MCSpec

(* The only operations that take a replay back are a new replay and a restore. *)
(* A full history that drops its oldest command moves the position with it.    *)
LEMMA NextCommandMoves ==
  ASSUME PartsAssumption, SessionsInv, NEW s \in Clients, SM!Next,
         v1'[s] # v1[s], SM!Replays(v1[s]), SM!Replays(v1'[s]), ~SM!Anew(s)
  PROVE  \/ SM!NextCommand(v1'[s]) > SM!NextCommand(v1[s])
         \/ SM!NextCommand(v1'[s]) = SM!NextCommand(v1[s]) /\ ~SM!NextReplayCommand(s)
<1> DEFINE x == v1[s]
           y == v1'[s]
<1>1. x # None /\ x \in Session /\ SM!SessionOK(x) /\ DOMAIN v1 = Clients
  BY DEF SM!Replays, SessionsInv, SessionsFormed, WellFormed
<1>2. HistoryLimit \in Nat \ {0} /\ None \notin Nat
  BY PartsAssumption DEF PartsAssumption, SM!SessionAssumption
<1>3. /\ x.first \in Nat /\ x.last \in Nat /\ x.last - x.first <= HistoryLimit
      /\ x.replay_position \in Nat
  BY <1>1, <1>2 DEF SM!SessionOK, SM!Replays, SM!Length
<1>4. ASSUME NEW z, SM!Becomes(s, z) PROVE y = z
  BY <1>1, <1>4 DEF SM!Becomes
<1>5. ASSUME NEW t \in Clients, t # s, NEW z, SM!Becomes(t, z) PROVE FALSE
  BY <1>1, <1>5 DEF SM!Becomes
<1>6. ASSUME y.replay_position = x.replay_position
      PROVE  ~SM!NextReplayCommand(s)
  <2> SUFFICES ASSUME SM!NextReplayCommand(s) PROVE FALSE
    OBVIOUS
  <2>1. CASE SM!Becomes(s, [x EXCEPT !.replay_position = @ + 1])
    <3>1. y = [x EXCEPT !.replay_position = @ + 1]
      BY <1>4, <2>1
    <3> HIDE DEF x, y
    <3>2. y.replay_position = x.replay_position + 1
      BY <1>1, <3>1 DEF Session
    <3> QED
      BY <1>3, <1>6, <3>2
  <2>2. CASE SM!Becomes(s, SM!Stopped(x))
    <3>1. y = SM!Stopped(x)
      BY <1>4, <2>2
    <3> HIDE DEF x, y
    <3>2. y.replay_position = None
      BY Zenon, <1>1, <3>1 DEF Session, SM!Stopped
    <3> QED
      BY <1>2, <1>3, <1>6, <3>2
  <2> QED
    BY <2>1, <2>2 DEF SM!NextReplayCommand
<1>7. SM!OnSession(s)
  <2>1. ~SM!CreateSession
    <3>1. ASSUME NEW t \in SM!Free, SM!Becomes(t, SM!NewSession(t)) PROVE FALSE
      BY <1>1, <1>5, <3>1 DEF SM!Free, SM!Live
    <3> QED
      BY <3>1 DEF SM!CreateSession
  <2>2. ~SM!Cleanup /\ ~SM!Crash
    BY DEF SM!Cleanup, SM!Crash, SM!Replays
  <2>3. ASSUME NEW t \in Clients, t # s PROVE ~SM!OnSession(t)
    BY <1>5, <2>3 DEF SM!OnSession, SM!EndSession, SM!ResumeSession, SM!CreateCheckpoint,
       SM!RecordCommand, SM!StartReplay, SM!NextReplayCommand, SM!StopReplay,
       SM!RestoreCheckpoint
  <2> QED
    BY <2>1, <2>2, <2>3 DEF SM!Next
<1>8. ASSUME y.first = x.first, y.replay_position = x.replay_position
      PROVE  SM!NextCommand(y) = SM!NextCommand(x) /\ ~SM!NextReplayCommand(s)
  BY <1>6, <1>8 DEF SM!NextCommand
<1>9. CASE SM!ResumeSession(s)
  <2>1. y = [x EXCEPT !.state = "Active"]
    BY <1>4, <1>9 DEF SM!ResumeSession
  <2> HIDE DEF x, y
  <2>2. y.first = x.first /\ y.replay_position = x.replay_position
    BY <1>1, <2>1 DEF Session
  <2> QED
    BY <1>8, <2>2 DEF x, y
<1>10. CASE SM!CreateCheckpoint(s)
  <2>1. PICK c : SM!Becomes(s, [x EXCEPT !.checkpoints = Append(@, c)])
    BY <1>10 DEF SM!CreateCheckpoint
  <2>2. y = [x EXCEPT !.checkpoints = Append(@, c)]
    BY <1>4, <2>1
  <2> HIDE DEF x, y
  <2>3. y.first = x.first /\ y.replay_position = x.replay_position
    BY <1>1, <2>2 DEF Session
  <2> QED
    BY <1>8, <2>3 DEF x, y
<1>11. CASE SM!RecordCommand(s)
  <2> DEFINE f == IF SM!Length(x) >= HistoryLimit THEN x.last + 1 - HistoryLimit ELSE x.first
  <2>1. y = SM!Pushed(x)
    BY <1>4, <1>11 DEF SM!RecordCommand
  <2> HIDE DEF x, y
  <2>2. f \in Nat /\ f >= x.first
    BY <1>2, <1>3 DEF SM!Length
  <2>3. y = [x EXCEPT !.last = x.last + 1, !.first = f]
    BY Zenon, <1>1, <2>1 DEF SM!Pushed, Session
  <2> HIDE DEF f
  <2>4. y.first = f
    BY Zenon, <1>1, <2>3 DEF Session
  <2>5. y.replay_position = x.replay_position
    BY Zenon, <1>1, <2>3 DEF Session
  <2>6. CASE f = x.first
    BY <1>8, <2>4, <2>5, <2>6 DEF x, y
  <2>7. CASE f > x.first
    <3>1. SM!NextCommand(y) > SM!NextCommand(x)
      BY <1>3, <2>2, <2>4, <2>5, <2>7 DEF SM!NextCommand
    <3> QED
      BY <3>1 DEF x, y
  <2> QED
    BY <1>3, <2>2, <2>6, <2>7
<1>12. CASE SM!NextReplayCommand(s)
  <2>1. CASE SM!Becomes(s, [x EXCEPT !.replay_position = @ + 1])
    <3>1. y = [x EXCEPT !.replay_position = @ + 1]
      BY <1>4, <2>1
    <3> HIDE DEF x, y
    <3>2. y.replay_position = x.replay_position + 1 /\ y.first = x.first
      BY <1>1, <3>1 DEF Session
    <3>3. SM!NextCommand(y) > SM!NextCommand(x)
      BY <1>3, <3>2 DEF SM!NextCommand
    <3> QED
      BY <3>3 DEF x, y
  <2>2. CASE SM!Becomes(s, SM!Stopped(x))
    <3>1. y = SM!Stopped(x)
      BY <1>4, <2>2
    <3> HIDE DEF x
    <3>2. y.replay_position = None
      BY Zenon, <1>1, <3>1 DEF Session, SM!Stopped
    <3> QED
      BY <3>2 DEF SM!Replays
  <2> QED
    BY <1>12, <2>1, <2>2 DEF SM!NextReplayCommand
<1>13. CASE SM!EndSession(s)
  <2>1. y = None
    BY <1>4, <1>13 DEF SM!EndSession
  <2> QED
    BY <2>1 DEF SM!Replays
<1>14. CASE SM!StopReplay(s)
  <2>1. y = SM!Stopped(x)
    BY <1>4, <1>14 DEF SM!StopReplay
  <2> HIDE DEF x
  <2>2. y.replay_position = None
    BY Zenon, <1>1, <2>1 DEF Session, SM!Stopped
  <2> QED
    BY <2>2 DEF SM!Replays
<1> QED
  BY <1>7, <1>9, <1>10, <1>11, <1>12, <1>13, <1>14 DEF SM!OnSession, SM!Anew

(* A replay of a session hands out its commands in the order they were         *)
(* recorded and none of them twice (next_replay_command, session_manager.rs),  *)
(* for sessions and histories of any size.                                     *)
THEOREM ReplaysMoveOn == MCSpec => ReplayMovesOn
<1>1. SessionsPart /\ [MCNext]_all => [part = "sessions" => SM!MovesOn]_all
  <2> SUFFICES ASSUME SessionsPart, [MCNext]_all, part = "sessions"
               PROVE  SM!MovesOn
    OBVIOUS
  <2>1. SessionsInv /\ [SM!Next]_(SM!vars)
    BY StepOfPart DEF SessionsPart
  <2>2. CASE SM!Next
    BY <2>1, <2>2, NextCommandMoves, PartsAssumption DEF SM!MovesOn
  <2>3. CASE UNCHANGED SM!vars
    BY <2>3 DEF SM!vars, SM!MovesOn
  <2> QED
    BY <2>1, <2>2, <2>3
<1> QED
  BY <1>1, SessionsHold, PTL DEF MCSpec, ReplayMovesOn
-----------------------------------------------------------------------------
(* Branches.  A branch that is not made yet has no parent, no layers and no    *)
(* frames; what a branch without children has cached agrees with its layers.   *)
BranchesFormed ==
  /\ v1 \subseteq 1..v2 /\ v2 \in 0..MaxBranches
  /\ v3 \in [TB!BranchIds -> 0..MaxBranches]
  /\ {v4, v5} \subseteq 0..MaxBranches
  /\ v6 \in 0..MaxLoads
  /\ \A b \in TB!BranchIds : b > v2 => v3[b] = 0 /\ DOMAIN v7[b] = {} /\ DOMAIN v8[b] = {}

LayersFormed ==
  /\ v7 = [b \in TB!BranchIds |-> v7[b]] /\ v8 = [b \in TB!BranchIds |-> v8[b]]
  /\ \A b \in TB!BranchIds :
       /\ DOMAIN v7[b] \subseteq FrameNumbers /\ \A n \in DOMAIN v7[b] : v7[b][n] \in Mods
       /\ DOMAIN v8[b] \subseteq FrameNumbers
       /\ \A n \in DOMAIN v8[b] : v8[b][n][1] \in 1..v6

BranchesInv == BranchesFormed /\ LayersFormed /\ TB!ParentsStay /\ TB!LeavesShowLayers
BranchesPart == part = "branches" => BranchesInv
LEMMA BranchesConstants ==
  ASSUME PartsAssumption
  PROVE  /\ FrameNumbers \subseteq Nat /\ MaxBranches \in Nat /\ MaxLoads \in Nat
         /\ TB!BranchIds = 1..MaxBranches /\ TB!NoBranch = 0
  BY PartsAssumption DEF PartsAssumption, TB!BranchesAssumption, TB!BranchIds, TB!NoBranch

LEMMA BranchesStart == ASSUME PartsAssumption, TB!Init PROVE BranchesInv
<1> USE BranchesConstants DEF TB!Init
<1>1. v7 = [b \in TB!BranchIds |-> v7[b]] /\ v8 = [b \in TB!BranchIds |-> v8[b]]
  OBVIOUS
<1>2. \A b \in TB!BranchIds : DOMAIN v7[b] = {} /\ DOMAIN v8[b] = {}
  OBVIOUS
<1>3. BranchesFormed
  BY <1>2 DEF BranchesFormed
<1>4. LayersFormed
  BY <1>1, <1>2 DEF LayersFormed
<1>5. TB!ParentsStay /\ TB!LeavesShowLayers
  BY DEF TB!ParentsStay, TB!LeavesShowLayers
<1> QED
  BY <1>3, <1>4, <1>5 DEF BranchesInv

(* A layer at a later frame does not change what the frames before it show.    *)
LEMMA LaterLayer ==
  ASSUME NEW f, NEW n \in Nat, NEW mod, NEW k \in Nat, k < n
  PROVE  TB!UpTo(TB!Updated(f, n, mod), k) = TB!UpTo(f, k)
<1> DEFINE g == TB!Updated(f, n, mod)
<1>1. DOMAIN g = DOMAIN f \cup {n} /\ \A j \in DOMAIN f : j # n => g[j] = f[j]
  BY DEF TB!Updated
<1> HIDE DEF g
<1>2. {j \in DOMAIN g : j <= k} = {j \in DOMAIN f : j <= k}
  BY <1>1
<1>3. \A j \in {i \in DOMAIN f : i <= k} : g[j] = f[j]
  BY <1>1
<1>4. TB!UpTo(g, k) = TB!UpTo(f, k)
  BY <1>2, <1>3 DEF TB!UpTo
<1> QED
  BY <1>4 DEF g

(* A branch is made: nobody has its number as a parent, and it is empty.       *)
LEMMA BranchMade ==
  ASSUME PartsAssumption, BranchesInv, v2 < MaxBranches, v2' = v2 + 1,
         v1' = v1 \cup {v2'}, NEW from \in v1 \cup {0}, v3' = [v3 EXCEPT ![v2'] = from],
         v4' = v4 \/ (v4 = 0 /\ v4' = v2'), v5' = v5, v6' \in {v6, v6 + 1}, v6' \in 0..MaxLoads,
         v7' = v7, v8' = v8
  PROVE  BranchesInv'
<1> USE BranchesConstants
<1>1. /\ v1 \subseteq 1..v2 /\ v2 \in 0..MaxBranches /\ v2' \in 1..MaxBranches
      /\ v3 \in [1..MaxBranches -> 0..MaxBranches] /\ v6 \in 0..MaxLoads
      /\ from \in 0..MaxBranches
      /\ v3[v2'] = 0 /\ DOMAIN v8[v2'] = {}
  <2>1. /\ v1 \subseteq 1..v2 /\ v2 \in 0..MaxBranches /\ v6 \in 0..MaxLoads
        /\ v3 \in [1..MaxBranches -> 0..MaxBranches]
    BY DEF BranchesInv, BranchesFormed
  <2>2. v2' \in 1..MaxBranches /\ v2' > v2 /\ from \in 0..MaxBranches
    BY <2>1
  <2>3. v3[v2'] = 0 /\ DOMAIN v8[v2'] = {}
    BY <2>2 DEF BranchesInv, BranchesFormed
  <2> QED
    BY <2>1, <2>2, <2>3
<1>2. \A b \in 1..MaxBranches : v3'[b] = IF b = v2' THEN from ELSE v3[b]
  BY <1>1
<1>3. v4' \in 0..MaxBranches /\ (v4' # 0 => v4' \in v1')
  BY <1>1 DEF BranchesInv, BranchesFormed, TB!ParentsStay
<1>4. BranchesFormed'
  <2>1. v1' \subseteq 1..v2' /\ v2' \in 0..MaxBranches
    BY <1>1
  <2>2. v3' \in [1..MaxBranches -> 0..MaxBranches]
    BY <1>1
  <2>3. \A b \in 1..MaxBranches : b > v2' => v3'[b] = 0 /\ DOMAIN v7[b] = {} /\ DOMAIN v8[b] = {}
    BY <1>1, <1>2 DEF BranchesInv, BranchesFormed
  <2>4. v5 \in 0..MaxBranches
    BY DEF BranchesInv, BranchesFormed
  <2> QED
    BY <1>3, <2>1, <2>2, <2>3, <2>4 DEF BranchesFormed
<1>5. LayersFormed'
  <2>1. \A b \in 1..MaxBranches : \A n \in DOMAIN v8[b] : v8[b][n][1] \in 1..v6'
    BY <1>1 DEF BranchesInv, LayersFormed
  <2> QED
    BY <2>1 DEF BranchesInv, LayersFormed
<1>6. TB!ParentsStay'
  <2>1. \A b \in v1 : b # v2' /\ b \in 1..MaxBranches
    BY <1>1
  <2>2. \A b \in v1 : v3[b] \in v1 \cup {0}
    BY DEF BranchesInv, TB!ParentsStay
  <2>3. \A b \in v1' : v3'[b] \in v1' \cup {0}
    BY <1>1, <1>2, <2>1, <2>2
  <2> QED
    BY <1>3, <2>3 DEF TB!ParentsStay
<1>7. TB!LeavesShowLayers'
  <2> SUFFICES ASSUME NEW b \in v1', \A c \in 1..MaxBranches : v3'[c] # b,
                      NEW n \in DOMAIN v8[b]
               PROVE  v8[b][n][2] = TB!UpTo(v7[b], n)
    BY DEF TB!LeavesShowLayers, TB!UpTo
  <2>1. b \in v1 /\ b # 0
    BY <1>1
  <2>2. \A c \in 1..MaxBranches : v3[c] # b
    BY <1>1, <1>2, <2>1
  <2> QED
    BY <2>1, <2>2 DEF BranchesInv, TB!LeavesShowLayers
<1> QED
  BY <1>4, <1>5, <1>6, <1>7 DEF BranchesInv

(* A branch goes, and with it at most the layers of its parent change.         *)
LEMMA BranchRemoved ==
  ASSUME PartsAssumption, BranchesInv, NEW b, v1' = TB!Removed(b),
         v2' = v2, v3' = v3, v4' = v4, v5' = v5, v6' = v6, v8' = v8, LayersFormed',
         \A c \in TB!BranchIds : v7'[c] # v7[c] =>
           c <= v2 /\ \E d \in TB!BranchIds : v3[d] = c
  PROVE  BranchesInv'
<1> USE BranchesConstants
<1>1. v1' \subseteq v1 /\ v1 \subseteq 1..v2 /\ v2 \in 0..MaxBranches
  BY DEF TB!Removed, BranchesInv, BranchesFormed
<1>2. BranchesFormed'
  <2>1. \A c \in 1..MaxBranches : c > v2 => v7'[c] = v7[c]
    BY <1>1
  <2> QED
    BY <1>1, <2>1 DEF BranchesInv, BranchesFormed
<1>3. TB!ParentsStay'
  BY DEF BranchesInv, TB!ParentsStay, TB!Removed, TB!Deletable, TB!HasChildren
<1>4. TB!LeavesShowLayers'
  <2> SUFFICES ASSUME NEW c \in v1', \A d \in 1..MaxBranches : v3[d] # c,
                      NEW n \in DOMAIN v8[c]
               PROVE  v8[c][n][2] = TB!UpTo(v7'[c], n)
    BY DEF TB!LeavesShowLayers, TB!UpTo
  <2>1. c \in v1 /\ c \in 1..MaxBranches
    <3>1. c \in v1 /\ c \in 1..v2
      BY <1>1
    <3> QED
      BY <1>1, <3>1
  <2>2. v7'[c] = v7[c]
    <3>1. c \in TB!BranchIds /\ ~\E d \in TB!BranchIds : v3[d] = c
      BY <2>1
    <3> QED
      BY Zenon, <3>1
  <2>3. v8[c][n][2] = TB!UpTo(v7[c], n)
    BY <2>1 DEF BranchesInv, TB!LeavesShowLayers
  <2> QED
    BY <2>2, <2>3
<1> QED
  BY <1>2, <1>3, <1>4 DEF BranchesInv
LEMMA StillShown ==
  ASSUME BranchesInv, UNCHANGED <<v1, v3, v4, v7, v8>>
  PROVE  TB!ParentsStay' /\ TB!LeavesShowLayers'
<1>1. TB!ParentsStay'
  BY DEF BranchesInv, TB!ParentsStay
<1>2. TB!LeavesShowLayers'
  BY DEF BranchesInv, TB!LeavesShowLayers, TB!UpTo
<1> QED
  BY <1>1, <1>2

LEMMA BranchesStep ==
  ASSUME PartsAssumption, BranchesInv, [TB!Next]_(TB!branchVars)
  PROVE  BranchesInv'
<1> USE BranchesConstants
<1>1. /\ v1 \subseteq 1..v2 /\ v2 \in 0..MaxBranches /\ v1 \subseteq 1..MaxBranches
      /\ v3 \in [1..MaxBranches -> 0..MaxBranches] /\ v6 \in 0..MaxLoads
      /\ v7 = [b \in 1..MaxBranches |-> v7[b]] /\ v8 = [b \in 1..MaxBranches |-> v8[b]]
  <2>1. v1 \subseteq 1..v2 /\ v2 \in 0..MaxBranches
    BY DEF BranchesInv, BranchesFormed
  <2> QED
    BY <2>1 DEF BranchesInv, BranchesFormed, LayersFormed
<1>2. CASE TB!set_base_recording
  <2>1. v6' = v6 + 1 /\ v6' \in 0..MaxLoads
    BY <1>1, <1>2 DEF TB!set_base_recording
  <2>2. CASE v4 # 0
    <3>1. UNCHANGED <<v1, v2, v3, v4, v5, v7, v8>>
      BY <1>2, <2>2 DEF TB!set_base_recording
    <3>2. LayersFormed'
      <4>1. \A b \in 1..MaxBranches : \A n \in DOMAIN v8[b] : v8[b][n][1] \in 1..v6'
        BY <1>1, <2>1 DEF BranchesInv, LayersFormed
      <4> QED
        BY <3>1, <4>1 DEF BranchesInv, LayersFormed
    <3>3. BranchesFormed'
      BY <2>1, <3>1 DEF BranchesInv, BranchesFormed
    <3> QED
      BY <3>1, <3>2, <3>3, StillShown DEF BranchesInv
  <2>3. CASE v4 = 0
    <3>1. v2 < MaxBranches /\ v2' = v2 + 1 /\ v4' = v2' /\ v1' = v1 \cup {v2'}
          /\ v3' = v3 /\ v5' = v5 /\ v7' = v7 /\ v8' = v8
      BY <1>2, <2>3 DEF TB!set_base_recording
    <3>2. v3[v2'] = 0
      BY <1>1, <3>1 DEF BranchesInv, BranchesFormed
    <3>3. v3' = [v3 EXCEPT ![v2'] = 0]
      BY <1>1, <3>1, <3>2
    <3>4. v6' \in {v6, v6 + 1} /\ 0 \in v1 \cup {0}
      BY <2>1
    <3> QED
      BY <2>1, <2>3, <3>1, <3>3, <3>4, BranchMade
  <2> QED
    BY <2>2, <2>3
<1>3. CASE TB!handle_create_branch
  <2>1. PICK from \in TB!BranchIds \cup {0} : TB!create_branch(from)
    BY <1>3 DEF TB!handle_create_branch
  <2>2. /\ v2 < MaxBranches /\ v2' = v2 + 1 /\ v1' = v1 \cup {v2'} /\ from \in v1 \cup {0}
        /\ v3' = [v3 EXCEPT ![v2'] = from] /\ v4' = v4 /\ v5' = v5 /\ v6' = v6
        /\ v7' = v7 /\ v8' = v8
    BY <2>1 DEF TB!create_branch
  <2>3. v6' \in {v6, v6 + 1} /\ v6' \in 0..MaxLoads
    BY <1>1, <2>2
  <2> QED
    BY <2>2, <2>3, BranchMade
<1>4. CASE TB!handle_switch_branch
  <2>1. PICK b \in TB!BranchIds : TB!set_active_branch(b)
    BY <1>4 DEF TB!handle_switch_branch
  <2>2. v5' \in 0..MaxBranches /\ UNCHANGED <<v1, v2, v3, v4, v6, v7, v8>>
    BY <2>1 DEF TB!set_active_branch
  <2>3. BranchesFormed'
    BY <2>2 DEF BranchesInv, BranchesFormed
  <2>4. LayersFormed'
    BY <2>2 DEF BranchesInv, LayersFormed
  <2> QED
    BY <2>2, <2>3, <2>4, StillShown DEF BranchesInv
<1>5. CASE TB!handle_add_modification
  <2>1. PICK b \in TB!BranchIds, n \in FrameNumbers, mod \in Mods :
               TB!add_modification_layer(b, n, mod)
    BY <1>5 DEF TB!handle_add_modification
  <2>2. b \in v1 /\ b <= v2 /\ n \in Nat /\ UNCHANGED <<v1, v2, v3, v4, v5, v6>>
    BY <1>1, <2>1 DEF TB!add_modification_layer
  <2> DEFINE f == TB!Updated(v7[b], n, mod)
             g == TB!Before(v8[b], n)
  <2>3. /\ v7' = [v7 EXCEPT ![b] = f] /\ v8' = [v8 EXCEPT ![b] = g]
    BY <2>1 DEF TB!add_modification_layer
  <2>4. /\ DOMAIN f = DOMAIN v7[b] \cup {n}
        /\ \A k \in DOMAIN f : f[k] = IF k = n THEN mod ELSE v7[b][k]
    BY DEF TB!Updated
  <2>5. /\ DOMAIN g = {k \in DOMAIN v8[b] : k < n}
        /\ \A k \in DOMAIN g : g[k] = v8[b][k]
    BY DEF TB!Before
  <2>6. \A k \in DOMAIN g : k \in Nat => TB!UpTo(f, k) = TB!UpTo(v7[b], k)
    BY <2>2, <2>5, LaterLayer
  <2> HIDE DEF f, g
  <2>7. /\ \A c \in 1..MaxBranches : v7'[c] = IF c = b THEN f ELSE v7[c]
        /\ \A c \in 1..MaxBranches : v8'[c] = IF c = b THEN g ELSE v8[c]
        /\ v7' = [c \in 1..MaxBranches |-> v7'[c]] /\ v8' = [c \in 1..MaxBranches |-> v8'[c]]
    BY <1>1, <2>3
  <2>8. LayersFormed'
    <3>1. DOMAIN f \subseteq FrameNumbers /\ \A k \in DOMAIN f : f[k] \in Mods
      BY <2>1, <2>4 DEF BranchesInv, LayersFormed
    <3>2. DOMAIN g \subseteq FrameNumbers /\ \A k \in DOMAIN g : g[k][1] \in 1..v6
      BY <2>5 DEF BranchesInv, LayersFormed
    <3>3. \A c \in 1..MaxBranches :
            /\ DOMAIN v7'[c] \subseteq FrameNumbers /\ \A k \in DOMAIN v7'[c] : v7'[c][k] \in Mods
            /\ DOMAIN v8'[c] \subseteq FrameNumbers
            /\ \A k \in DOMAIN v8'[c] : v8'[c][k][1] \in 1..v6
      BY <2>7, <3>1, <3>2 DEF BranchesInv, LayersFormed
    <3> QED
      BY <2>2, <2>7, <3>3 DEF LayersFormed
  <2>9. BranchesFormed'
    <3>1. \A c \in 1..MaxBranches : c > v2 => v7'[c] = v7[c] /\ v8'[c] = v8[c]
      BY <1>1, <2>2, <2>7
    <3> QED
      BY <2>2, <3>1 DEF BranchesInv, BranchesFormed
  <2>10. TB!ParentsStay'
    BY <2>2 DEF BranchesInv, TB!ParentsStay
  <2>11. TB!LeavesShowLayers'
    <3> SUFFICES ASSUME NEW c \in v1, \A d \in 1..MaxBranches : v3[d] # c,
                        NEW k \in DOMAIN v8'[c]
                 PROVE  v8'[c][k][2] = TB!UpTo(v7'[c], k)
      BY <2>2 DEF TB!LeavesShowLayers, TB!UpTo
    <3>1. CASE c # b
      <4>1. v7'[c] = v7[c] /\ v8'[c] = v8[c]
        BY <1>1, <2>7, <3>1
      <4>2. k \in DOMAIN v8[c] /\ \A d \in TB!BranchIds : v3[d] # c
        BY <4>1
      <4>3. v8[c][k][2] = TB!UpTo(v7[c], k)
        BY <4>2 DEF BranchesInv, TB!LeavesShowLayers
      <4> QED
        BY <4>1, <4>3
    <3>2. CASE c = b
      <4>1. k \in DOMAIN g /\ v8'[c] = g /\ v7'[c] = f
        BY <2>7, <3>2
      <4>2. k \in DOMAIN v8[b] /\ g[k] = v8[b][k] /\ k \in Nat
        BY <2>5, <4>1 DEF BranchesInv, LayersFormed
      <4>3. v8[b][k][2] = TB!UpTo(v7[b], k)
        BY <3>2, <4>2 DEF BranchesInv, TB!LeavesShowLayers
      <4>4. TB!UpTo(f, k) = TB!UpTo(v7[b], k)
        BY <2>6, <4>1, <4>2
      <4> QED
        BY <4>1, <4>2, <4>3, <4>4
    <3> QED
      BY <3>1, <3>2
  <2> QED
    BY <2>8, <2>9, <2>10, <2>11 DEF BranchesInv
<1>6. CASE TB!handle_merge_branch
  <2>1. PICK b \in TB!BranchIds : TB!merge_branch(b)
    BY <1>6 DEF TB!handle_merge_branch
  <2> DEFINE p == v3[b]
             f == [k \in DOMAIN v7[p] \cup DOMAIN v7[b] |->
                     IF k \in DOMAIN v7[b] THEN v7[b][k] ELSE v7[p][k]]
  <2>2. /\ b \in v1 /\ p # 0 /\ v1' = TB!Removed(b) /\ UNCHANGED <<v2, v3, v4, v5, v6, v8>>
        /\ v7' = [v7 EXCEPT ![p] = f]
    BY <2>1 DEF TB!merge_branch
  <2>3. p \in v1 /\ p \in 1..MaxBranches /\ p <= v2
    BY <1>1, <2>2 DEF BranchesInv, TB!ParentsStay
  <2>4. DOMAIN f \subseteq FrameNumbers /\ \A k \in DOMAIN f : f[k] \in Mods
    BY <2>3 DEF BranchesInv, LayersFormed
  <2> HIDE DEF p, f
  <2>5. /\ v7' = [c \in 1..MaxBranches |-> v7'[c]]
        /\ \A c \in 1..MaxBranches : v7'[c] = IF c = p THEN f ELSE v7[c]
    BY <1>1, <2>2, <2>3
  <2>6. LayersFormed'
    BY <2>2, <2>4, <2>5 DEF BranchesInv, LayersFormed
  <2>7. \A c \in TB!BranchIds : v7'[c] # v7[c] => c <= v2 /\ \E d \in TB!BranchIds : v3[d] = c
    BY <2>3, <2>5 DEF p
  <2> QED
    BY <2>2, <2>6, <2>7, BranchRemoved
<1>7. CASE TB!handle_compare_branches
  <2>1. PICK a \in TB!BranchIds, b \in TB!BranchIds, n \in FrameNumbers :
               TB!compare_branches(a, b, n)
    BY <1>7 DEF TB!handle_compare_branches
  <2> DEFINE Got(c) == TB!get_frame_from_branch(c, n)
  <2>2. /\ v6 # 0 /\ {a, b} \subseteq v1 /\ UNCHANGED <<v1, v2, v3, v4, v5, v6, v7>>
        /\ v8' = [c \in 1..MaxBranches |-> IF c \in {a, b} THEN Got(c) ELSE v8[c]]
    BY <2>1 DEF TB!compare_branches
  <2>3. ASSUME NEW c
        PROVE  /\ n \in DOMAIN v8[c] => Got(c) = v8[c]
               /\ n \notin DOMAIN v8[c] =>
                    /\ DOMAIN Got(c) = DOMAIN v8[c] \cup {n}
                    /\ \A k \in DOMAIN Got(c) :
                         Got(c)[k] = IF k = n THEN <<v6, TB!UpTo(v7[c], n)>> ELSE v8[c][k]
    BY DEF TB!get_frame_from_branch, TB!Updated, TB!Shown
  <2> HIDE DEF Got
  <2>4. /\ v8' = [c \in 1..MaxBranches |-> v8'[c]]
        /\ \A c \in 1..MaxBranches : v8'[c] = v8[c] \/ (v8'[c] = Got(c) /\ c \in v1)
    BY <2>2
  <2>5. ASSUME NEW c \in 1..MaxBranches
        PROVE  /\ DOMAIN v8'[c] \subseteq DOMAIN v8[c] \cup {n}
               /\ \A k \in DOMAIN v8'[c] : \/ k \in DOMAIN v8[c] /\ v8'[c][k] = v8[c][k]
                                           \/ v8'[c][k] = <<v6, TB!UpTo(v7[c], k)>>
               /\ c \in v1 \/ v8'[c] = v8[c]
    <3>1. CASE v8'[c] = v8[c]
      BY <3>1
    <3>2. CASE v8'[c] = Got(c) /\ n \in DOMAIN v8[c]
      BY <2>3, <3>2
    <3>3. CASE v8'[c] = Got(c) /\ n \notin DOMAIN v8[c] /\ c \in v1
      <4>1. /\ DOMAIN v8'[c] = DOMAIN v8[c] \cup {n}
            /\ \A k \in DOMAIN v8'[c] :
                 v8'[c][k] = IF k = n THEN <<v6, TB!UpTo(v7[c], n)>> ELSE v8[c][k]
        BY <2>3, <3>3
      <4> QED
        BY <3>3, <4>1
    <3> QED
      BY <2>4, <3>1, <3>2, <3>3
  <2>6. LayersFormed'
    <3>1. \A c \in 1..MaxBranches :
            /\ DOMAIN v8'[c] \subseteq FrameNumbers
            /\ \A k \in DOMAIN v8'[c] : v8'[c][k][1] \in 1..v6
      <4> SUFFICES ASSUME NEW c \in 1..MaxBranches, NEW k \in DOMAIN v8'[c]
                   PROVE  k \in FrameNumbers /\ v8'[c][k][1] \in 1..v6
        OBVIOUS
      <4>1. k \in FrameNumbers
        BY <2>5 DEF BranchesInv, LayersFormed
      <4>2. CASE k \in DOMAIN v8[c] /\ v8'[c][k] = v8[c][k]
        BY <4>1, <4>2 DEF BranchesInv, LayersFormed
      <4>3. CASE v8'[c][k] = <<v6, TB!UpTo(v7[c], k)>>
        BY <1>1, <2>2, <4>1, <4>3
      <4> QED
        BY <2>5, <4>2, <4>3
    <3> QED
      BY <2>2, <2>4, <3>1 DEF BranchesInv, LayersFormed
  <2>7. BranchesFormed'
    <3>1. \A c \in 1..MaxBranches : c > v2 => v8'[c] = v8[c]
      BY <1>1, <2>5
    <3> QED
      BY <2>2, <3>1 DEF BranchesInv, BranchesFormed
  <2>8. TB!ParentsStay'
    BY <2>2 DEF BranchesInv, TB!ParentsStay
  <2>9. TB!LeavesShowLayers'
    <3> SUFFICES ASSUME NEW c \in v1, \A d \in 1..MaxBranches : v3[d] # c,
                        NEW k \in DOMAIN v8'[c]
                 PROVE  v8'[c][k][2] = TB!UpTo(v7[c], k)
      BY <2>2 DEF TB!LeavesShowLayers, TB!UpTo
    <3>1. CASE k \in DOMAIN v8[c] /\ v8'[c][k] = v8[c][k]
      BY <3>1 DEF BranchesInv, TB!LeavesShowLayers
    <3>2. CASE v8'[c][k] = <<v6, TB!UpTo(v7[c], k)>>
      BY <3>2
    <3> QED
      BY <1>1, <2>5, <3>1, <3>2
  <2> QED
    BY <2>6, <2>7, <2>8, <2>9 DEF BranchesInv
<1>8. CASE TB!handle_delete_branch
  <2>1. PICK b \in v1 : TB!delete_branch(b)
    BY <1>8 DEF TB!handle_delete_branch
  <2>2. v1' = TB!Removed(b) /\ UNCHANGED <<v2, v3, v4, v5, v6, v7, v8>>
    BY <2>1 DEF TB!delete_branch
  <2>3. LayersFormed'
    BY <2>2 DEF BranchesInv, LayersFormed
  <2> QED
    BY <2>2, <2>3, BranchRemoved
<1>9. CASE UNCHANGED TB!branchVars
  <2>1. UNCHANGED <<v1, v2, v3, v4, v5, v6, v7, v8>>
    BY <1>9 DEF TB!branchVars
  <2>2. BranchesFormed'
    BY <2>1 DEF BranchesInv, BranchesFormed
  <2>3. LayersFormed'
    BY <2>1 DEF BranchesInv, LayersFormed
  <2> QED
    BY <2>1, <2>2, <2>3, StillShown DEF BranchesInv
<1> QED
  BY <1>2, <1>3, <1>4, <1>5, <1>6, <1>7, <1>8, <1>9 DEF TB!Next

LEMMA BranchesHold == MCSpec => []BranchesPart
<1>1. MCInit => BranchesPart
  BY StartOfPart, BranchesStart, PartsAssumption DEF BranchesPart
<1>2. BranchesPart /\ [MCNext]_all => BranchesPart'
  BY StepOfPart, BranchesStep, PartsAssumption DEF BranchesPart
<1> QED
  BY <1>1, <1>2, PTL DEF MCSpec
-----------------------------------------------------------------------------
(* What a session or a branch goes back to is its own past: the checkpoints a  *)
(* session lists are saved and list each other in order (create_checkpoint and *)
(* restore_checkpoint, session_manager.rs), a branch's parent is there, and a  *)
(* branch without children shows the layers it has (timeline_branching.rs).    *)
THEOREM PastsStayWhole == MCSpec => []PastsAreWhole
<1>1. SessionsPart => (part = "sessions" => SM!CheckpointsFormPast)
  <2> SUFFICES ASSUME SessionsInv, NEW s \in SM!Live, NEW i \in DOMAIN v1[s].checkpoints
               PROVE  LET list == v1[s].checkpoints
                      IN  /\ v2[list[i]] # None
                          /\ v2[list[i]].checkpoints = SubSeq(list, 1, i - 1)
    BY DEF SessionsPart, SM!CheckpointsFormPast
  <2>1. s \in Clients /\ v1[s] # None
    BY DEF SM!Live
  <2>2. v1[s].checkpoints \in Seq(Ids)
    BY <2>1 DEF SessionsInv, SessionsFormed, WellFormed, Session
  <2>3. DOMAIN v1[s].checkpoints = 1..Len(v1[s].checkpoints)
    BY <2>2, LenProperties
  <2>4. Past(v2, v1[s])
    BY <2>1 DEF SessionsInv, SessionsPast
  <2> QED
    BY <2>1, <2>3, <2>4 DEF Past
<1>2. BranchesPart => (part = "branches" => TB!ParentsStay /\ TB!LeavesShowLayers)
  BY DEF BranchesPart, BranchesInv
<1>3. SessionsPart /\ BranchesPart => PastsAreWhole
  BY <1>1, <1>2 DEF PastsAreWhole
<1> QED
  BY <1>3, SessionsHold, BranchesHold, PTL
-----------------------------------------------------------------------------
(* Recordings.  Every recording that is buffered, saved or shown is well       *)
(* formed.  Of the one that is being made it is known in which order its       *)
(* queues are: the deltas are of the last frames, one each, and a keyframe is  *)
(* at most Keyframe frames before the one behind it in the queue.              *)
RecordingType ==
  [id : Nat, size : Nat, frames : Seq(Nat), deltas : Seq(Nat), total : Nat,
   markers : SUBSET Nat]

AtLeastOne(n) == IF n >= 1 THEN n ELSE 1

RecordingOK(r) ==
  /\ r \in RecordingType
  /\ r.markers \subseteq 0..r.total
  /\ Len(r.deltas) <= AtLeastOne(r.size)
  /\ Len(r.frames) <= AtLeastOne(r.size \div Keyframe)

KeyframesApart(frames, total) ==
  LET last == frames[Len(frames)] IN
    /\ last % Keyframe = 0 /\ last < total /\ total <= last + Keyframe
    /\ \A i \in 1..Len(frames) : frames[i] >= last - (Len(frames) - i) * Keyframe

DeltasInOrder(deltas, size, total) ==
  /\ Len(deltas) < total /\ (Len(deltas) = total - 1 \/ Len(deltas) >= size)
  /\ \A i \in 1..Len(deltas) : deltas[i] = (total - 1) - (Len(deltas) - i)

QueuesInOrder(r) ==
  IF r.total = 0 THEN r.frames = << >> /\ r.deltas = << >>
  ELSE /\ r.frames # << >> /\ KeyframesApart(r.frames, r.total)
       /\ DeltasInOrder(r.deltas, r.size, r.total)

RecordingsFormed ==
  /\ RecordingOK(v2) /\ RecordingOK(v4) /\ RecordingOK(v5) /\ RecordingOK(v8) /\ RecordingOK(v9)
  /\ v3 \in 0..v2.id /\ v2.id <= MaxStarts
  /\ v6 \in 0..v5.total

CacheFormed ==
  /\ DOMAIN v7 \subseteq Nat /\ IsFiniteSet(DOMAIN v7)
  /\ Cardinality(DOMAIN v7) <= MaxCached

(* Who holds the timeline's lock has given its recording to those users of it  *)
(* that the stage says, and there is only one.                                 *)
HoldsTimeline(l) == v10[l][1] \in {"timeline", "controller"}

LoadsFormed ==
  /\ DOMAIN v10 = Clients
  /\ \A l \in Clients :
       /\ {1, 2} \subseteq DOMAIN v10[l] /\ RecordingOK(v10[l][2])
       /\ v10[l][1] \in {"idle", "read", "timeline", "controller"}
       /\ HoldsTimeline(l) => v5 = v10[l][2]
       /\ v10[l][1] = "controller" => v8 = v10[l][2]
  /\ \A l, k \in Clients : HoldsTimeline(l) /\ HoldsTimeline(k) => l = k

RecordingsInv ==
  /\ RecordingsFormed /\ QueuesInOrder(v2)
  /\ CacheFormed /\ RC!CacheIsOfRecording
  /\ LoadsFormed /\ RC!LoadsAgree
RecordingsPart == part = "recordings" => RecordingsInv
LEMMA RecordingConstants ==
  ASSUME PartsAssumption
  PROVE  /\ Keyframe \in Nat \ {0} /\ Sizes \subseteq Nat /\ MaxCached \in Nat \ {0}
         /\ MaxStarts \in Nat
  BY PartsAssumption DEF PartsAssumption, RC!RecordingAssumption

(* Every set of numbers has a least one, and a greatest one if it is bounded.  *)
LEMMA NatMin ==
  ASSUME NEW S, S \subseteq Nat, S # {}
  PROVE  RC!Min(S) \in S /\ \A y \in S : RC!Min(S) <= y
<1>1. PICK x \in S : \A y \in S : ~(<<y, x>> \in OpToRel(<, Nat))
  BY NatLessThanWellFounded, WFMin
<1>2. \A y \in S : ~(y < x)
  BY <1>1 DEF OpToRel
<1>3. \E z \in S : \A y \in S : z <= y
  BY <1>2
<1> QED
  BY <1>3 DEF RC!Min

LEMMA NatMax ==
  ASSUME NEW S, S \subseteq Nat, S # {}, NEW n \in Nat, \A y \in S : y <= n
  PROVE  RC!Max(S) \in S /\ \A y \in S : RC!Max(S) >= y
<1> DEFINE T == {n - y : y \in S}
<1>1. T \subseteq Nat /\ T # {}
  <2>1. \A y \in S : n - y \in Nat
    OBVIOUS
  <2>2. PICK y \in S : TRUE
    OBVIOUS
  <2>3. n - y \in T
    BY <2>2
  <2> QED
    BY <2>1, <2>3
<1>2. RC!Min(T) \in T /\ \A t \in T : RC!Min(T) <= t
  BY <1>1, NatMin
<1>3. PICK x \in S : RC!Min(T) = n - x
  BY <1>2
<1>4. ASSUME NEW y \in S PROVE x >= y
  <2>1. n - x <= n - y
    BY <1>2, <1>3
  <2> QED
    BY <2>1
<1>5. \E z \in S : \A y \in S : z >= y
  BY <1>4
<1> QED
  BY <1>5 DEF RC!Max

LEMMA MaxWithOne ==
  ASSUME NEW n \in Nat
  PROVE  RC!Max({n, 1}) = AtLeastOne(n)
<1>1. {n, 1} \subseteq Nat /\ {n, 1} # {} /\ \A y \in {n, 1} : y <= n + 1
  OBVIOUS
<1>2. RC!Max({n, 1}) \in {n, 1} /\ \A y \in {n, 1} : RC!Max({n, 1}) >= y
  BY <1>1, NatMax
<1> QED
  BY <1>2 DEF AtLeastOne

LEMMA WholeKeyframes ==
  ASSUME NEW K \in Nat \ {0}, NEW n \in Nat
  PROVE  n \div K \in Nat /\ (n \div K) * K <= n
  OBVIOUS

(* The number one keyframe after a keyframe's is a keyframe's.                 *)
LEMMA NextKeyframe ==
  ASSUME NEW K \in Nat \ {0}, NEW m \in Nat, m % K = 0
  PROVE  (m + K) % K = 0
<1> DEFINE q == m \div K
           p == (m + K) \div K
           r == (m + K) % K
<1>1. m = K * q + 0 /\ m + K = K * p + r /\ r \in 0..(K - 1) /\ q \in Nat /\ p \in Nat
  OBVIOUS
<1> HIDE DEF q, p, r
<1>2. r = K * (q + 1) - K * p
  BY <1>1
<1>3. r = K * (q + 1 - p)
  BY <1>1, <1>2
<1>4. \A z \in Int : (z <= -1 => K * z <= -K) /\ (z >= 1 => K * z >= K)
  OBVIOUS
<1>5. q + 1 - p = 0
  BY <1>1, <1>3, <1>4
<1> QED
  BY <1>1, <1>3, <1>5 DEF r

(* A bounded queue ends in what was added; before it is what it had, without   *)
(* the first if it was full.                                                   *)
LEMMA BoundedQueue ==
  ASSUME NEW queue \in Seq(Nat), NEW limit \in Nat, NEW item \in Nat
  PROVE  LET b == RC!Bounded(queue, limit, item) IN
           /\ b \in Seq(Nat) /\ Len(b) \in 1..(Len(queue) + 1) /\ b[Len(b)] = item
           /\ Len(b) >= Len(queue)
           /\ \A i \in 1..(Len(b) - 1) : b[i] = queue[i + ((Len(queue) + 1) - Len(b))]
           /\ Len(b) = Len(queue) + 1 \/ Len(b) >= limit
           /\ Len(queue) <= AtLeastOne(limit) => Len(b) <= AtLeastOne(limit)
<1> DEFINE full == Len(queue) >= limit /\ queue # << >>
           kept == IF full THEN Tail(queue) ELSE queue
           b == RC!Bounded(queue, limit, item)
<1>1. Len(queue) \in Nat /\ (queue # << >> => Len(queue) >= 1)
  BY LenProperties, EmptySeq
<1>2. queue # << >> =>
        /\ Tail(queue) \in Seq(Nat) /\ Len(Tail(queue)) = Len(queue) - 1
        /\ \A i \in 1..(Len(queue) - 1) : Tail(queue)[i] = queue[i + 1]
  BY HeadTailProperties
<1>3. queue = << >> => Len(queue) = 0
  OBVIOUS
<1>4. b = Append(kept, item)
  BY DEF RC!Bounded
<1>5. kept \in Seq(Nat) /\ Len(kept) = (IF full THEN Len(queue) - 1 ELSE Len(queue))
  BY <1>1, <1>2
<1>6. \A i \in 1..Len(kept) : kept[i] = queue[i + (Len(queue) - Len(kept))]
  <2>1. CASE full
    <3>1. kept = Tail(queue) /\ Len(kept) = Len(queue) - 1
      BY <1>5, <2>1
    <3>2. Len(queue) - Len(kept) = 1
      BY <1>1, <3>1
    <3> QED
      BY <1>2, <2>1, <3>1, <3>2
  <2>2. CASE ~full
    <3>1. kept = queue /\ Len(queue) - Len(kept) = 0
      BY <1>1, <2>2
    <3> HIDE DEF kept
    <3>2. \A i \in 1..Len(kept) : i + (Len(queue) - Len(kept)) = i
      BY <3>1
    <3> QED
      BY <3>1, <3>2
  <2> QED
    BY <2>1, <2>2
<1> HIDE DEF kept, b
<1>7. /\ b \in Seq(Nat) /\ Len(b) = Len(kept) + 1 /\ b[Len(b)] = item
      /\ \A i \in 1..Len(kept) : b[i] = kept[i]
  BY <1>4, <1>5, AppendProperties
<1>8. Len(kept) \in Nat
  BY <1>5, LenProperties
<1>9. \A i \in 1..(Len(b) - 1) : b[i] = queue[i + ((Len(queue) + 1) - Len(b))]
  <2> SUFFICES ASSUME NEW i \in 1..(Len(b) - 1)
               PROVE  b[i] = queue[i + ((Len(queue) + 1) - Len(b))]
    OBVIOUS
  <2>1. i \in 1..Len(kept) /\ (Len(queue) + 1) - Len(b) = Len(queue) - Len(kept)
    BY <1>1, <1>7, <1>8
  <2> QED
    BY <1>6, <1>7, <2>1
<1>10. /\ Len(b) \in 1..(Len(queue) + 1) /\ Len(b) >= Len(queue)
       /\ Len(b) = Len(queue) + 1 \/ Len(b) >= limit
  BY <1>1, <1>5, <1>7, <1>8
<1>11. Len(queue) <= AtLeastOne(limit) => Len(b) <= AtLeastOne(limit)
  BY <1>1, <1>3, <1>5, <1>7, <1>8 DEF AtLeastOne
<1> QED
  BY <1>7, <1>9, <1>10, <1>11 DEF b
(* What is queued twice in an empty queue is all there is in it.               *)
LEMMA QueuedAgain ==
  ASSUME NEW a \in Seq(Nat), Len(a) = 1, NEW q \in Nat, NEW n \in Nat, a[1] = n
  PROVE  LET b == RC!Bounded(a, q, n) IN
           /\ b \in Seq(Nat) /\ b # << >> /\ Len(b) <= AtLeastOne(q) /\ Len(b) \in Nat \ {0}
           /\ \A i \in 1..Len(b) : b[i] = n
<1> DEFINE b == RC!Bounded(a, q, n)
           L == Len(a)
           M == Len(b)
<1>1. /\ b \in Seq(Nat) /\ M \in 1..(L + 1) /\ b[M] = n
      /\ \A i \in 1..(M - 1) : b[i] = a[i + ((L + 1) - M)]
      /\ L <= AtLeastOne(q) => M <= AtLeastOne(q)
  <2>1. b \in Seq(Nat) /\ M \in 1..(L + 1) /\ b[M] = n
    BY BoundedQueue
  <2>2. \A i \in 1..(M - 1) : b[i] = a[i + ((L + 1) - M)]
    BY BoundedQueue
  <2>3. L <= AtLeastOne(q) => M <= AtLeastOne(q)
    BY BoundedQueue
  <2> QED
    BY <2>1, <2>2, <2>3
<1>2. L = 1 /\ a[1] = n
  OBVIOUS
<1> HIDE DEF b, L, M
<1>3. M \in 1..2
  BY <1>1, <1>2
<1>4. L <= AtLeastOne(q)
  BY <1>2 DEF AtLeastOne
<1>5. ASSUME NEW i \in 1..M PROVE b[i] = n
  <2>1. CASE i = M
    BY <1>1, <2>1
  <2>2. CASE i # M
    <3>1. i \in 1..(M - 1) /\ i + ((L + 1) - M) = 1
      BY <1>2, <1>3, <2>2
    <3> QED
      BY <1>1, <1>2, <3>1
  <2> QED
    BY <2>1, <2>2
<1>6. b # << >>
  BY <1>1, <1>3, EmptySeq DEF M
<1> QED
  BY <1>1, <1>3, <1>4, <1>5, <1>6 DEF b, M

LEMMA TwiceQueued ==
  ASSUME NEW size \in Nat, NEW q \in Nat, NEW n \in Nat,
         NEW none \in Seq(Nat), Len(none) = 0,
         NEW a, a = RC!Bounded(none, size, n), NEW b, b = RC!Bounded(a, q, n)
  PROVE  /\ b \in Seq(Nat) /\ b # << >> /\ Len(b) <= AtLeastOne(q) /\ Len(b) \in Nat \ {0}
         /\ \A i \in 1..Len(b) : b[i] = n
<1> DEFINE K == Len(a)
<1>1. a \in Seq(Nat) /\ K \in 1..(Len(none) + 1) /\ a[K] = n
  BY BoundedQueue
<1>2. K = 1
  BY <1>1
<1>3. a[1] = n /\ Len(a) = 1
  BY <1>1, <1>2
<1> QED
  BY <1>1, <1>3, QueuedAgain
(* The first frame is queued on its own account, and again as a keyframe.      *)
LEMMA FirstFrame ==
  ASSUME Keyframe \in Nat \ {0}, NEW frames \in Seq(Nat), Len(frames) \in Nat \ {0},
         \A i \in 1..Len(frames) : frames[i] = 0
  PROVE  KeyframesApart(frames, 1)
<1> DEFINE M == Len(frames)
<1>1. M \in Nat \ {0} /\ \A i \in 1..M : frames[i] = 0
  OBVIOUS
<1> HIDE DEF M
<1>2. \A i \in 1..M : frames[i] >= frames[M] - (M - i) * Keyframe
  <2> SUFFICES ASSUME NEW i \in 1..M PROVE frames[i] >= frames[M] - (M - i) * Keyframe
    OBVIOUS
  <2>1. \A z \in Nat : z * Keyframe >= 0 /\ z * Keyframe \in Int
    OBVIOUS
  <2>2. (M - i) * Keyframe >= 0 /\ (M - i) * Keyframe \in Int
    BY <1>1, <2>1
  <2> QED
    BY <1>1, <2>2
<1>3. 0 % Keyframe = 0 /\ 0 < 1 /\ 1 <= 0 + Keyframe
  OBVIOUS
<1> QED
  BY <1>1, <1>2, <1>3 DEF KeyframesApart, M

(* One more frame: it becomes a keyframe no later than Keyframe after the last *)
(* one, whatever is dropped from the front of the queue.                       *)
LEMMA KeyframeQueued ==
  ASSUME Keyframe \in Nat \ {0}, NEW frames \in Seq(Nat), frames # << >>,
         NEW n \in Nat, KeyframesApart(frames, n), NEW q \in Nat, n % Keyframe = 0
  PROVE  LET b == RC!Bounded(frames, q, n) IN b # << >> /\ KeyframesApart(b, n + 1)
<1> DEFINE b == RC!Bounded(frames, q, n)
           L == Len(frames)
           last == frames[L]
<1>1. L \in Nat \ {0}
  BY LenProperties, EmptySeq
<1>2. /\ last % Keyframe = 0 /\ last < n /\ n <= last + Keyframe
      /\ \A i \in 1..L : frames[i] >= last - (L - i) * Keyframe
  BY DEF KeyframesApart
<1>3. last \in Nat
  BY <1>1, ElementOfSeq
<1>4. \A i \in 1..L : frames[i] \in Nat
  BY ElementOfSeq
<1>5. /\ b \in Seq(Nat) /\ Len(b) \in 1..(L + 1) /\ b[Len(b)] = n
      /\ \A i \in 1..(Len(b) - 1) : b[i] = frames[i + ((L + 1) - Len(b))]
      /\ Len(b) >= L
  BY BoundedQueue
<1> HIDE DEF b, L, last
<1>6. \A z \in Nat : z * Keyframe \in Int /\ (z + 1) * Keyframe = z * Keyframe + Keyframe
  OBVIOUS
<1>7. ASSUME NEW i \in 1..Len(b)
      PROVE  b[i] >= n - (Len(b) - i) * Keyframe
  <2>1. CASE i = Len(b)
    <3>1. (Len(b) - i) = 0 /\ 0 * Keyframe = 0
      BY <1>5, <2>1
    <3> QED
      BY <1>5, <2>1, <3>1
  <2>2. CASE i # Len(b)
    <3> DEFINE j == i + ((L + 1) - Len(b))
               z == (Len(b) - 1) - i
    <3>1. j \in 1..L /\ z \in Nat /\ L - j = z /\ Len(b) - i = z + 1
      BY <1>1, <1>5, <2>2
    <3>2. b[i] = frames[j]
      BY <1>1, <1>5, <2>2
    <3> HIDE DEF j, z
    <3>3. frames[j] >= last - z * Keyframe
      BY <1>2, <3>1
    <3>4. (z + 1) * Keyframe = z * Keyframe + Keyframe /\ z * Keyframe \in Int
      BY <1>6, <3>1
    <3>5. last - z * Keyframe >= n - (z + 1) * Keyframe
      BY <1>2, <1>3, <3>4
    <3>6. frames[j] \in Nat
      BY <1>4, <3>1
    <3>7. frames[j] >= n - (z + 1) * Keyframe
      BY <1>3, <3>3, <3>4, <3>5, <3>6
    <3> QED
      BY <3>1, <3>2, <3>7
  <2> QED
    BY <2>1, <2>2
<1>8. b # << >>
  BY <1>5, EmptySeq
<1>9. KeyframesApart(b, n + 1)
  <2>1. n < n + 1 /\ n + 1 <= n + Keyframe
    OBVIOUS
  <2> QED
    BY <1>5, <1>7, <2>1 DEF KeyframesApart
<1> QED
  BY <1>8, <1>9 DEF b

LEMMA NoKeyframe ==
  ASSUME Keyframe \in Nat \ {0}, NEW frames \in Seq(Nat), frames # << >>,
         NEW n \in Nat, KeyframesApart(frames, n), n % Keyframe # 0
  PROVE  KeyframesApart(frames, n + 1)
<1> DEFINE last == frames[Len(frames)]
<1>1. last \in Nat
  <2>1. Len(frames) \in 1..Len(frames)
    BY LenProperties, EmptySeq
  <2> QED
    BY <2>1, ElementOfSeq
<1>2. last % Keyframe = 0 /\ last < n /\ n <= last + Keyframe
  BY DEF KeyframesApart
<1> HIDE DEF last
<1>3. n # last + Keyframe
  BY <1>1, <1>2, NextKeyframe
<1>4. last < n + 1 /\ n + 1 <= last + Keyframe
  BY <1>1, <1>2, <1>3
<1> QED
  BY <1>2, <1>4 DEF KeyframesApart, last

LEMMA DeltaQueued ==
  ASSUME NEW deltas \in Seq(Nat), NEW size \in Nat, NEW n \in Nat \ {0},
         DeltasInOrder(deltas, size, n)
  PROVE  DeltasInOrder(RC!Bounded(deltas, size, n), size, n + 1)
<1> DEFINE b == RC!Bounded(deltas, size, n)
           L == Len(deltas)
<1>1. L \in Nat
  BY LenProperties
<1>2. /\ L < n /\ (L = n - 1 \/ L >= size)
      /\ \A i \in 1..L : deltas[i] = (n - 1) - (L - i)
  BY DEF DeltasInOrder
<1>3. /\ b \in Seq(Nat) /\ Len(b) \in 1..(L + 1) /\ b[Len(b)] = n /\ Len(b) >= L
      /\ \A i \in 1..(Len(b) - 1) : b[i] = deltas[i + ((L + 1) - Len(b))]
      /\ Len(b) = L + 1 \/ Len(b) >= size
  BY BoundedQueue
<1> HIDE DEF b, L
<1>4. /\ Len(b) < n + 1 /\ (Len(b) = (n + 1) - 1 \/ Len(b) >= size)
  BY <1>1, <1>2, <1>3
<1>5. ASSUME NEW i \in 1..Len(b) PROVE b[i] = ((n + 1) - 1) - (Len(b) - i)
  <2>1. CASE i = Len(b)
    BY <1>3, <2>1
  <2>2. CASE i # Len(b)
    <3> DEFINE j == i + ((L + 1) - Len(b))
    <3>1. j \in 1..L /\ L - j = (Len(b) - 1) - i
      BY <1>1, <1>3, <2>2
    <3>2. b[i] = deltas[j]
      BY <1>3, <2>2
    <3> HIDE DEF j
    <3>3. deltas[j] = (n - 1) - (L - j)
      BY <1>2, <3>1
    <3> QED
      BY <1>3, <3>1, <3>2, <3>3
  <2> QED
    BY <2>1, <2>2
<1>6. DeltasInOrder(b, size, n + 1)
  BY <1>4, <1>5 DEF DeltasInOrder
<1> QED
  BY <1>6 DEF b
(* A queue's bound is Max(limit, 1) in the code of the model.                  *)
LEMMA FrameRecorded ==
  ASSUME PartsAssumption, RecordingOK(v2), QueuesInOrder(v2), RC!record_frame
  PROVE  /\ RecordingOK(v2') /\ QueuesInOrder(v2') /\ v2'.id = v2.id
<1> USE RecordingConstants
<1> DEFINE r == v2
           n == r.total
           q == r.size \div Keyframe
           full == IF n = 0 THEN RC!Bounded(r.frames, r.size, n) ELSE r.frames
           frames == RC!Keyframes(full, n)
           deltas == IF n = 0 THEN r.deltas ELSE RC!Deltas(r.deltas, n)
           y == [r EXCEPT !.frames = frames, !.deltas = deltas, !.total = n + 1]
<1>1. v2' = y
  BY DEF RC!record_frame
<1>2. /\ r \in RecordingType /\ r.size \in Nat /\ n \in Nat /\ r.markers \subseteq 0..n
      /\ r.frames \in Seq(Nat) /\ r.deltas \in Seq(Nat)
      /\ Len(r.deltas) <= AtLeastOne(r.size) /\ Len(r.frames) <= AtLeastOne(q)
  BY DEF RecordingOK, RecordingType
<1>3. q \in Nat
  BY <1>2, WholeKeyframes
<1>4. /\ frames = IF n % Keyframe = 0 THEN RC!Bounded(full, q, n) ELSE full
      /\ n # 0 => deltas = RC!Bounded(r.deltas, r.size, n)
  BY DEF RC!Keyframes, RC!Deltas
<1> HIDE DEF r, q
<1>5. /\ frames \in Seq(Nat) /\ frames # << >> /\ KeyframesApart(frames, n + 1)
      /\ Len(frames) <= AtLeastOne(q)
  <2>1. CASE n = 0
    <3>1. Len(r.frames) = 0 /\ n % Keyframe = 0
      BY <2>1, EmptySeq DEF QueuesInOrder, r
    <3>2. frames = RC!Bounded(RC!Bounded(r.frames, r.size, n), q, n)
      BY <1>4, <2>1, <3>1
    <3> HIDE DEF frames, n
    <3>3. /\ frames \in Seq(Nat) /\ frames # << >> /\ Len(frames) <= AtLeastOne(q)
          /\ Len(frames) \in Nat \ {0} /\ \A i \in 1..Len(frames) : frames[i] = n
      <4>1. r.size \in Nat /\ r.frames \in Seq(Nat) /\ n \in Nat /\ Len(r.frames) = 0
        BY <1>2, <3>1
      <4> DEFINE a == RC!Bounded(r.frames, r.size, n)
      <4>2. a = RC!Bounded(r.frames, r.size, n) /\ frames = RC!Bounded(a, q, n)
        BY <3>2
      <4> HIDE DEF a
      <4> DEFINE L == Len(a)
      <4>3. a \in Seq(Nat) /\ L \in 1..(Len(r.frames) + 1) /\ a[L] = n
        <5>1. a \in Seq(Nat)
          BY <4>1, <4>2, BoundedQueue
        <5>2. L \in 1..(Len(r.frames) + 1)
          BY <4>1, <4>2, BoundedQueue
        <5>3. a[L] = n
          BY <4>1, <4>2, BoundedQueue
        <5> QED
          BY <5>1, <5>2, <5>3
      <4>4. L = 1
        BY <4>1, <4>3
      <4>5. a \in Seq(Nat) /\ Len(a) = 1 /\ a[1] = n
        BY <4>3, <4>4
      <4> QED
        BY <1>3, <4>1, <4>2, <4>5, QueuedAgain
    <3>4. KeyframesApart(frames, 1)
      BY <2>1, <3>3, FirstFrame
    <3>5. n + 1 = 1
      BY <2>1
    <3> QED
      BY <3>3, <3>4, <3>5
  <2>2. CASE n # 0
    <3>1. r.frames # << >> /\ KeyframesApart(r.frames, n) /\ full = r.frames
      BY <2>2 DEF QueuesInOrder, r
    <3>2. CASE n % Keyframe = 0
      <4>1. frames = RC!Bounded(r.frames, q, n)
        BY <1>4, <3>1, <3>2
      <4> HIDE DEF frames, full, n
      <4>2. frames \in Seq(Nat) /\ Len(frames) <= AtLeastOne(q)
        BY <1>2, <1>3, <4>1, BoundedQueue
      <4>3. frames # << >> /\ KeyframesApart(frames, n + 1)
        BY <1>2, <1>3, <3>1, <3>2, <4>1, KeyframeQueued
      <4> QED
        BY <4>2, <4>3
    <3>3. CASE n % Keyframe # 0
      <4>1. frames = r.frames
        BY <1>4, <3>1, <3>3
      <4> HIDE DEF frames, full, n
      <4>2. KeyframesApart(r.frames, n + 1)
        BY <1>2, <3>1, <3>3, NoKeyframe
      <4> QED
        BY <1>2, <3>1, <4>1, <4>2
    <3> QED
      BY <3>2, <3>3
  <2> QED
    BY <2>1, <2>2
<1>6. /\ deltas \in Seq(Nat) /\ DeltasInOrder(deltas, r.size, n + 1)
      /\ Len(deltas) <= AtLeastOne(r.size)
  <2>1. CASE n = 0
    <3>1. r.deltas = << >> /\ deltas = r.deltas
      BY <2>1 DEF QueuesInOrder, r
    <3>2. Len(r.deltas) = 0
      BY <3>1
    <3>3. DeltasInOrder(r.deltas, r.size, n + 1)
      BY <2>1, <3>2 DEF DeltasInOrder
    <3> QED
      BY <1>2, <3>1, <3>3
  <2>2. CASE n # 0
    <3>1. DeltasInOrder(r.deltas, r.size, n)
      BY <2>2 DEF QueuesInOrder, r
    <3>2. deltas = RC!Bounded(r.deltas, r.size, n)
      BY <1>4, <2>2
    <3> HIDE DEF deltas, n
    <3>3. deltas \in Seq(Nat) /\ Len(deltas) <= AtLeastOne(r.size)
      BY <1>2, <3>2, BoundedQueue
    <3>4. DeltasInOrder(deltas, r.size, n + 1)
      BY <1>2, <2>2, <3>1, <3>2, DeltaQueued
    <3> QED
      BY <3>3, <3>4
  <2> QED
    BY <2>1, <2>2
<1> HIDE DEF frames, deltas, full, n
<1>7. n + 1 \in Nat /\ n + 1 # 0 /\ 0..n \subseteq 0..(n + 1)
  BY <1>2
<1>8. y \in RecordingType
  BY Zenon, <1>2, <1>5, <1>6, <1>7 DEF RecordingType
<1>9. y.id = r.id /\ y.size = r.size /\ y.markers = r.markers
  BY Zenon, <1>2 DEF RecordingType
<1>10. y.frames = frames
  BY Zenon, <1>2 DEF RecordingType
<1>11. y.deltas = deltas
  BY Zenon, <1>2 DEF RecordingType
<1>12. y.total = n + 1
  BY Zenon, <1>2 DEF RecordingType
<1> HIDE DEF y
<1>13. RecordingOK(y)
  BY <1>2, <1>5, <1>6, <1>7, <1>8, <1>9, <1>10, <1>11, <1>12 DEF RecordingOK, q
<1>14. QueuesInOrder(y)
  BY <1>5, <1>6, <1>7, <1>9, <1>10, <1>11, <1>12 DEF QueuesInOrder
<1> QED
  BY <1>1, <1>9, <1>13, <1>14 DEF r

LEMMA EmptyRecording ==
  ASSUME PartsAssumption
  PROVE  RecordingOK(RC!Empty) /\ QueuesInOrder(RC!Empty) /\ RC!Empty.id = 0
<1> USE RecordingConstants DEF RC!Empty
<1>1. << >> \in Seq(Nat) /\ Len(<< >>) = 0
  BY EmptySeq
<1>2. RC!Empty \in RecordingType
  BY <1>1 DEF RecordingType
<1>3. RecordingOK(RC!Empty)
  BY <1>1, <1>2 DEF RecordingOK, AtLeastOne
<1> QED
  BY <1>3 DEF QueuesInOrder

LEMMA RecordingStarted ==
  ASSUME PartsAssumption, RecordingOK(v2), NEW size \in Sizes
  PROVE  LET y == RC!start_recording(size)
         IN  RecordingOK(y) /\ QueuesInOrder(y) /\ y.id = v2.id + 1
<1> USE RecordingConstants
<1> DEFINE y == RC!start_recording(size)
<1>1. size \in Nat /\ v2.id + 1 \in Nat
  BY DEF RecordingOK, RecordingType
<1>2. << >> \in Seq(Nat) /\ Len(<< >>) = 0
  BY EmptySeq
<1>3. RC!Empty \in RecordingType
  BY EmptyRecording DEF RecordingOK
<1>4. y = [RC!Empty EXCEPT !.id = v2.id + 1, !.size = size]
  BY Zenon DEF RC!start_recording
<1> HIDE DEF y
<1>5. y \in RecordingType
  BY Zenon, <1>1, <1>3, <1>4 DEF RecordingType
<1>6. y.id = v2.id + 1
  BY Zenon, <1>3, <1>4 DEF RecordingType
<1>7. y.size = size
  BY Zenon, <1>3, <1>4 DEF RecordingType
<1>8. y.frames = RC!Empty.frames /\ y.deltas = RC!Empty.deltas
      /\ y.total = RC!Empty.total /\ y.markers = RC!Empty.markers
  BY Zenon, <1>3, <1>4 DEF RecordingType
<1>9. y.frames = << >> /\ y.deltas = << >> /\ y.total = 0 /\ y.markers = {}
  BY <1>8 DEF RC!Empty
<1>10. RecordingOK(y)
  <2>1. Len(y.frames) = 0 /\ Len(y.deltas) = 0
    BY <1>2, <1>9
  <2> QED
    BY <1>1, <1>5, <1>7, <1>9, <2>1, WholeKeyframes DEF RecordingOK, AtLeastOne
<1>11. QueuesInOrder(y)
  BY <1>9 DEF QueuesInOrder
<1> QED
  BY <1>6, <1>10, <1>11 DEF y

LEMMA MarkerAdded ==
  ASSUME RecordingOK(v2), QueuesInOrder(v2), RC!add_marker
  PROVE  RecordingOK(v2') /\ QueuesInOrder(v2') /\ v2'.id = v2.id
<1> DEFINE y == [v2 EXCEPT !.markers = @ \cup {v2.total}]
<1>1. v2' = y /\ v2 \in RecordingType /\ v2.total \in Nat /\ v2.markers \subseteq 0..v2.total
  BY DEF RC!add_marker, RecordingOK, RecordingType
<1>2. /\ y \in RecordingType /\ y.id = v2.id /\ y.size = v2.size /\ y.total = v2.total
      /\ y.frames = v2.frames /\ y.deltas = v2.deltas
      /\ y.markers = v2.markers \cup {v2.total}
  BY <1>1 DEF RecordingType
<1> HIDE DEF y
<1>3. RecordingOK(y)
  BY <1>1, <1>2 DEF RecordingOK
<1>4. QueuesInOrder(y)
  BY <1>2 DEF QueuesInOrder
<1> QED
  BY <1>1, <1>2, <1>3, <1>4

(* The recording that is made stays well formed, and recorders are no more     *)
(* than the recordings that were begun.                                        *)
LEMMA BufferStep ==
  ASSUME PartsAssumption, RecordingsInv, RC!Next
  PROVE  /\ RecordingOK(v2') /\ QueuesInOrder(v2')
         /\ v3' \in 0..v2'.id /\ v2'.id <= MaxStarts
<1> USE RecordingConstants
<1>1. /\ RecordingOK(v2) /\ QueuesInOrder(v2) /\ v3 \in 0..v2.id /\ v2.id <= MaxStarts
      /\ v2.id \in Nat
  BY DEF RecordingsInv, RecordingsFormed, RecordingOK, RecordingType
<1>2. ASSUME NEW size \in Sizes, RC!handle_record(size)
      PROVE  /\ RecordingOK(v2') /\ QueuesInOrder(v2')
             /\ v3' \in 0..v2'.id /\ v2'.id <= MaxStarts
  <2>1. v2' = RC!start_recording(size) /\ v3' = v3 + 1 /\ v2.id < MaxStarts
    BY <1>2 DEF RC!handle_record
  <2>2. RecordingOK(v2') /\ QueuesInOrder(v2') /\ v2'.id = v2.id + 1
    BY <1>1, <2>1, RecordingStarted
  <2> QED
    BY <1>1, <2>1, <2>2
<1>3. CASE RC!record_frame
  <2>1. v3' = v3
    BY <1>3 DEF RC!record_frame
  <2> QED
    BY <1>1, <1>3, <2>1, FrameRecorded
<1>4. CASE RC!handle_marker
  <2>1. v3' = v3 /\ RC!add_marker
    BY <1>4 DEF RC!handle_marker
  <2> QED
    BY <1>1, <2>1, MarkerAdded
<1>5. CASE RC!RecorderEnds
  BY <1>1, <1>5 DEF RC!RecorderEnds
<1>6. ASSUME v2' = v2, v3' = v3
      PROVE  /\ RecordingOK(v2') /\ QueuesInOrder(v2')
             /\ v3' \in 0..v2'.id /\ v2'.id <= MaxStarts
  BY <1>1, <1>6
<1>7. CASE RC!handle_stop \/ RC!handle_save
  BY <1>6, <1>7 DEF RC!handle_stop, RC!handle_save, RC!recorder
<1>8. CASE RC!seek \/ RC!seek_to_marker \/ RC!next \/ RC!previous
  BY <1>6, <1>8 DEF RC!seek, RC!seek_to_marker, RC!next, RC!previous, RC!GoTo, RC!recorder
<1>9. ASSUME NEW l \in Clients,
             RC!LoadReads(l) \/ RC!load_recording(l) \/ RC!LoadController(l) \/ RC!LoadBranches(l)
      PROVE  v2' = v2 /\ v3' = v3
  BY <1>9 DEF RC!LoadReads, RC!load_recording, RC!LoadController, RC!LoadBranches, RC!recorder
<1> QED
  BY <1>2, <1>3, <1>4, <1>5, <1>6, <1>7, <1>8, <1>9 DEF RC!Next
-----------------------------------------------------------------------------
LEMMA SameCardinality ==
  ASSUME NEW S
  PROVE  RC!Cardinality(S) = Cardinality(S)
  BY DEF RC!Cardinality, Cardinality

(* The cache makes room for one frame before it takes one.                     *)
LEMMA RoomInCache ==
  ASSUME PartsAssumption, CacheFormed
  PROVE  LET kept == IF Cardinality(DOMAIN v7) >= MaxCached
                     THEN RC!Without(v7, RC!Min(DOMAIN v7)) ELSE v7
         IN  /\ DOMAIN kept \subseteq DOMAIN v7 /\ \A y \in DOMAIN kept : kept[y] = v7[y]
             /\ IsFiniteSet(DOMAIN kept) /\ Cardinality(DOMAIN kept) < MaxCached
<1> USE RecordingConstants
<1> DEFINE D == DOMAIN v7
           least == RC!Min(D)
           less == RC!Without(v7, least)
           kept == IF Cardinality(D) >= MaxCached THEN less ELSE v7
<1>1. D \subseteq Nat /\ IsFiniteSet(D) /\ Cardinality(D) <= MaxCached
  BY DEF CacheFormed
<1>2. Cardinality(D) \in Nat
  BY <1>1, FS_CardinalityType
<1>3. CASE Cardinality(D) >= MaxCached
  <2>1. D # {}
    <3>1. Cardinality({}) = 0
      BY FS_EmptySet
    <3> QED
      BY <1>2, <1>3, <3>1
  <2>2. least \in D
    BY <1>1, <2>1, NatMin
  <2>3. DOMAIN less = D \ {least} /\ \A y \in D \ {least} : less[y] = v7[y]
    BY DEF RC!Without
  <2> HIDE DEF D, least, less
  <2>4. IsFiniteSet(D \ {least}) /\ Cardinality(D \ {least}) = Cardinality(D) - 1
    BY <1>1, <2>2, FS_RemoveElement
  <2>5. Cardinality(D \ {least}) < MaxCached
    BY <1>1, <1>2, <2>4
  <2>6. kept = less
    BY <1>3
  <2>7. /\ DOMAIN kept \subseteq D /\ \A y \in DOMAIN kept : kept[y] = v7[y]
        /\ IsFiniteSet(DOMAIN kept) /\ Cardinality(DOMAIN kept) < MaxCached
    BY <2>3, <2>4, <2>5, <2>6
  <2> QED
    BY <2>7 DEF D, least, less
<1>4. CASE ~(Cardinality(D) >= MaxCached)
  <2>1. kept = v7 /\ Cardinality(D) < MaxCached
    BY <1>2, <1>4
  <2> QED
    BY <1>1, <2>1
<1> QED
  BY <1>3, <1>4

(* A frame that is asked for is cached with the recording that is shown.       *)
LEMMA FrameCached ==
  ASSUME PartsAssumption, CacheFormed, RC!CacheIsOfRecording,
         NEW n \in Nat, RC!get_frame(n), v5' = v5
  PROVE  CacheFormed' /\ RC!CacheIsOfRecording'
<1> USE RecordingConstants
<1> DEFINE kept == IF Cardinality(DOMAIN v7) >= MaxCached
                   THEN RC!Without(v7, RC!Min(DOMAIN v7)) ELSE v7
           E == DOMAIN kept
           entry == <<v5.id, CHOOSE f \in RC!Rebuilt(v5, n) : TRUE>>
           next == [y \in E \cup {n} |-> IF y = n THEN entry ELSE kept[y]]
           none == n \in DOMAIN v7 \/ RC!Rebuilt(v5, n) = {}
<1>1. v7' = v7 \/ v7' = next
  <2>1. v7' = IF none THEN v7 ELSE next
    BY SameCardinality DEF RC!get_frame
  <2> QED
    BY Zenon, <2>1
<1>2. CASE v7' = v7
  BY <1>2 DEF CacheFormed, RC!CacheIsOfRecording
<1>3. CASE v7' = next
  <2>1. /\ E \subseteq DOMAIN v7 /\ \A y \in E : kept[y] = v7[y]
        /\ IsFiniteSet(E) /\ Cardinality(E) < MaxCached
    BY RoomInCache
  <2>2. E \subseteq Nat
    BY <2>1 DEF CacheFormed
  <2>3. \A y \in E : kept[y][1] = v5.id
    BY <2>1 DEF RC!CacheIsOfRecording
  <2>4. entry[1] = v5.id
    OBVIOUS
  <2> HIDE DEF E, kept, entry
  <2>5. DOMAIN v7' = E \cup {n} /\ \A y \in E \cup {n} : v7'[y] = IF y = n THEN entry ELSE kept[y]
    BY <1>3
  <2>6. IsFiniteSet(E \cup {n}) /\ Cardinality(E \cup {n}) \in {Cardinality(E), Cardinality(E) + 1}
    BY <2>1, FS_AddElement
  <2>7. Cardinality(E) \in Nat
    BY <2>1, FS_CardinalityType
  <2>8. Cardinality(E \cup {n}) <= MaxCached
    BY <2>1, <2>6, <2>7
  <2>9. E \cup {n} \subseteq Nat
    BY <2>2
  <2>10. CacheFormed'
    BY <2>5, <2>6, <2>8, <2>9 DEF CacheFormed
  <2>11. \A y \in DOMAIN v7' : v7'[y][1] = v5'.id
    BY <2>3, <2>4, <2>5
  <2> QED
    BY <2>10, <2>11 DEF RC!CacheIsOfRecording
<1> QED
  BY <1>1, <1>2, <1>3
(* A load that moves on changes its stage and keeps what it has read.          *)
LEMMA StageSet ==
  ASSUME LoadsFormed, NEW l \in Clients, NEW stage, v10' = [v10 EXCEPT ![l][1] = stage]
  PROVE  /\ DOMAIN v10' = Clients /\ {1, 2} \subseteq DOMAIN v10'[l]
         /\ v10'[l][1] = stage /\ v10'[l][2] = v10[l][2]
         /\ \A k \in Clients \ {l} : v10'[k] = v10[k]
<1> DEFINE y == [v10[l] EXCEPT ![1] = stage]
<1>1. DOMAIN v10 = Clients /\ 1 \in DOMAIN v10[l] /\ 2 \in DOMAIN v10[l]
  BY DEF LoadsFormed
<1>2. v10' = [v10 EXCEPT ![l] = y]
  OBVIOUS
<1>3. DOMAIN y = DOMAIN v10[l] /\ y[1] = stage /\ y[2] = v10[l][2]
  BY <1>1
<1> HIDE DEF y
<1>4. DOMAIN v10' = Clients /\ v10'[l] = y /\ \A k \in Clients \ {l} : v10'[k] = v10[k]
  BY <1>1, <1>2
<1> QED
  BY <1>1, <1>3, <1>4

LEMMA LoadSet ==
  ASSUME LoadsFormed, NEW l \in Clients, NEW stage, NEW r, v10' = [v10 EXCEPT ![l] = <<stage, r>>]
  PROVE  /\ DOMAIN v10' = Clients /\ {1, 2} \subseteq DOMAIN v10'[l]
         /\ v10'[l][1] = stage /\ v10'[l][2] = r
         /\ \A k \in Clients \ {l} : v10'[k] = v10[k]
<1>1. DOMAIN v10 = Clients
  BY DEF LoadsFormed
<1> DEFINE y == <<stage, r>>
<1>2. DOMAIN y = {1, 2} /\ y[1] = stage /\ y[2] = r
  OBVIOUS
<1> HIDE DEF y
<1>3. v10' = [v10 EXCEPT ![l] = y]
  BY DEF y
<1>4. DOMAIN v10' = Clients /\ v10'[l] = y /\ \A k \in Clients \ {l} : v10'[k] = v10[k]
  BY <1>1, <1>3
<1> QED
  BY <1>2, <1>4

(* What changes neither the viewer nor the loads disturbs none of its parts.   *)
LEMMA ViewerKept ==
  ASSUME CacheFormed, RC!CacheIsOfRecording, LoadsFormed, RC!LoadsAgree,
         UNCHANGED <<v5, v7, v8, v9, v10>>
  PROVE  CacheFormed' /\ RC!CacheIsOfRecording' /\ LoadsFormed' /\ RC!LoadsAgree'
<1>1. CacheFormed'
  BY DEF CacheFormed
<1>2. RC!CacheIsOfRecording'
  BY DEF RC!CacheIsOfRecording
<1>3. LoadsFormed'
  BY DEF LoadsFormed, HoldsTimeline
<1>4. RC!LoadsAgree'
  BY DEF RC!LoadsAgree
<1> QED
  BY <1>1, <1>2, <1>3, <1>4

(* Going through a recording: the frame that is shown is cached.               *)
LEMMA WentTo ==
  ASSUME PartsAssumption, CacheFormed, RC!CacheIsOfRecording, LoadsFormed, RC!LoadsAgree,
         NEW n \in Nat, RC!GoTo(n)
  PROVE  /\ v6' = n /\ UNCHANGED <<v4, v5, v8, v9>>
         /\ CacheFormed' /\ RC!CacheIsOfRecording' /\ LoadsFormed' /\ RC!LoadsAgree'
<1>1. v6' = n /\ UNCHANGED <<v4, v5, v8, v9, v10>> /\ RC!get_frame(n)
  BY DEF RC!GoTo
<1>2. CacheFormed' /\ RC!CacheIsOfRecording'
  BY <1>1, FrameCached
<1>3. LoadsFormed'
  BY <1>1 DEF LoadsFormed, HoldsTimeline
<1>4. RC!LoadsAgree'
  BY <1>1 DEF RC!LoadsAgree
<1> QED
  BY <1>1, <1>2, <1>3, <1>4
-----------------------------------------------------------------------------
(* A load reads what is saved, and holds nothing yet.                          *)
LEMMA FileRead ==
  ASSUME RecordingsInv, NEW l \in Clients, RC!LoadReads(l)
  PROVE  /\ UNCHANGED <<v4, v5, v6, v8, v9>>
         /\ CacheFormed' /\ RC!CacheIsOfRecording' /\ LoadsFormed' /\ RC!LoadsAgree'
<1>1. /\ v10[l][1] = "idle" /\ v10' = [v10 EXCEPT ![l] = <<"read", v4>>]
      /\ UNCHANGED <<v4, v5, v6, v7, v8, v9>>
  BY DEF RC!LoadReads, RC!load_from_file
<1>2. /\ RecordingOK(v4) /\ CacheFormed /\ RC!CacheIsOfRecording /\ LoadsFormed /\ RC!LoadsAgree
  BY DEF RecordingsInv, RecordingsFormed
<1>3. /\ DOMAIN v10' = Clients /\ {1, 2} \subseteq DOMAIN v10'[l]
      /\ v10'[l][1] = "read" /\ v10'[l][2] = v4
      /\ \A k \in Clients \ {l} : v10'[k] = v10[k]
  BY <1>1, <1>2, LoadSet
<1>4. LoadsFormed'
  <2>1. ~HoldsTimeline(l)' /\ v10'[l][1] # "controller"
    BY <1>3 DEF HoldsTimeline
  <2>2. \A k \in Clients \ {l} : HoldsTimeline(k)' <=> HoldsTimeline(k)
    BY <1>3 DEF HoldsTimeline
  <2>3. RecordingOK(v10'[l][2])
    BY <1>2, <1>3
  <2>4. \A k \in Clients :
          /\ {1, 2} \subseteq DOMAIN v10'[k] /\ RecordingOK(v10'[k][2])
          /\ v10'[k][1] \in {"idle", "read", "timeline", "controller"}
          /\ HoldsTimeline(k)' => v5' = v10'[k][2]
          /\ v10'[k][1] = "controller" => v8' = v10'[k][2]
    BY <1>1, <1>2, <1>3, <2>1, <2>2, <2>3 DEF LoadsFormed
  <2>5. \A j, k \in Clients : HoldsTimeline(j)' /\ HoldsTimeline(k)' => j = k
    BY <1>2, <2>1, <2>2 DEF LoadsFormed
  <2> QED
    BY <1>3, <2>4, <2>5 DEF LoadsFormed
<1>5. RC!LoadsAgree'
  <2>1. RC!LoadsAgree /\ UNCHANGED <<v5, v8, v9>>
    BY <1>1, <1>2
  <2>2. (\A k \in Clients : v10'[k][1] \in {"idle", "read"}) => \A k \in Clients : v10[k][1] \in {"idle", "read"}
    BY <1>1, <1>3
  <2> QED
    BY <2>1, <2>2 DEF RC!LoadsAgree
<1>6. CacheFormed' /\ RC!CacheIsOfRecording'
  BY <1>1, <1>2 DEF CacheFormed, RC!CacheIsOfRecording
<1> QED
  BY <1>1, <1>4, <1>5, <1>6

(* The timeline has its recording: nothing is cached, and who loaded it holds  *)
(* the timeline alone.                                                         *)
LEMMA TimelineLoaded ==
  ASSUME PartsAssumption, RecordingsInv, NEW l \in Clients, RC!load_recording(l)
  PROVE  /\ UNCHANGED <<v4, v8, v9>> /\ RecordingOK(v5') /\ v6' = 0
         /\ CacheFormed' /\ RC!CacheIsOfRecording' /\ LoadsFormed' /\ RC!LoadsAgree'
<1> USE RecordingConstants
<1>1. /\ v10' = [v10 EXCEPT ![l][1] = "timeline"] /\ v5' = v10[l][2] /\ v6' = 0 /\ v7' = << >>
      /\ UNCHANGED <<v4, v8, v9>> /\ RC!Free
  BY DEF RC!load_recording
<1>2. LoadsFormed
  BY DEF RecordingsInv
<1>3. /\ DOMAIN v10' = Clients /\ {1, 2} \subseteq DOMAIN v10'[l]
      /\ v10'[l][1] = "timeline" /\ v10'[l][2] = v10[l][2]
      /\ \A k \in Clients \ {l} : v10'[k] = v10[k]
  BY <1>1, <1>2, StageSet
<1>4. \A k \in Clients : v10[k][1] \in {"idle", "read"}
  BY <1>1 DEF RC!Free
<1>5. \A k \in Clients \ {l} : ~HoldsTimeline(k)' /\ v10'[k][1] # "controller"
  BY <1>3, <1>4 DEF HoldsTimeline
<1>6. LoadsFormed'
  <2>1. \A k \in Clients :
          /\ {1, 2} \subseteq DOMAIN v10'[k] /\ RecordingOK(v10'[k][2])
          /\ v10'[k][1] \in {"idle", "read", "timeline", "controller"}
          /\ HoldsTimeline(k)' => v5' = v10'[k][2]
          /\ v10'[k][1] = "controller" => v8' = v10'[k][2]
    BY <1>1, <1>2, <1>3, <1>5 DEF LoadsFormed
  <2>2. \A j, k \in Clients : HoldsTimeline(j)' /\ HoldsTimeline(k)' => j = k
    BY <1>5
  <2> QED
    BY <1>3, <2>1, <2>2 DEF LoadsFormed
<1>7. RC!LoadsAgree'
  BY <1>3 DEF RC!LoadsAgree
<1>8. DOMAIN v7' = {}
  BY <1>1
<1>9. CacheFormed'
  <2>1. IsFiniteSet({}) /\ Cardinality({}) = 0
    BY FS_EmptySet
  <2> QED
    BY <1>8, <2>1 DEF CacheFormed
<1>10. RC!CacheIsOfRecording'
  BY <1>8 DEF RC!CacheIsOfRecording
<1>11. RecordingOK(v5')
  BY <1>1, <1>2 DEF LoadsFormed
<1> QED
  BY <1>1, <1>6, <1>7, <1>9, <1>10, <1>11

LEMMA ControllerLoaded ==
  ASSUME RecordingsInv, NEW l \in Clients, RC!LoadController(l)
  PROVE  /\ UNCHANGED <<v4, v5, v6, v9>> /\ RecordingOK(v8')
         /\ CacheFormed' /\ RC!CacheIsOfRecording' /\ LoadsFormed' /\ RC!LoadsAgree'
<1>1. /\ v10[l][1] = "timeline" /\ v10' = [v10 EXCEPT ![l][1] = "controller"]
      /\ v8' = v10[l][2] /\ UNCHANGED <<v4, v5, v6, v7, v9>>
  BY DEF RC!LoadController
<1>2. CacheFormed /\ RC!CacheIsOfRecording /\ LoadsFormed
  BY DEF RecordingsInv
<1>3. /\ DOMAIN v10' = Clients /\ {1, 2} \subseteq DOMAIN v10'[l]
      /\ v10'[l][1] = "controller" /\ v10'[l][2] = v10[l][2]
      /\ \A k \in Clients \ {l} : v10'[k] = v10[k]
  BY <1>1, <1>2, StageSet
<1>4. HoldsTimeline(l) /\ v5 = v10[l][2] /\ \A k \in Clients : HoldsTimeline(k) => k = l
  BY <1>1, <1>2 DEF LoadsFormed, HoldsTimeline
<1>5. \A k \in Clients \ {l} : ~HoldsTimeline(k)' /\ v10'[k][1] # "controller"
  BY <1>3, <1>4 DEF HoldsTimeline
<1>6. LoadsFormed'
  <2>1. \A k \in Clients :
          /\ {1, 2} \subseteq DOMAIN v10'[k] /\ RecordingOK(v10'[k][2])
          /\ v10'[k][1] \in {"idle", "read", "timeline", "controller"}
          /\ HoldsTimeline(k)' => v5' = v10'[k][2]
          /\ v10'[k][1] = "controller" => v8' = v10'[k][2]
    BY <1>1, <1>2, <1>3, <1>4, <1>5 DEF LoadsFormed
  <2>2. \A j, k \in Clients : HoldsTimeline(j)' /\ HoldsTimeline(k)' => j = k
    BY <1>5
  <2> QED
    BY <1>3, <2>1, <2>2 DEF LoadsFormed
<1>7. RC!LoadsAgree'
  BY <1>3 DEF RC!LoadsAgree
<1>8. CacheFormed' /\ RC!CacheIsOfRecording'
  BY <1>1, <1>2 DEF CacheFormed, RC!CacheIsOfRecording
<1>9. RecordingOK(v8')
  BY <1>1, <1>2 DEF LoadsFormed
<1> QED
  BY <1>1, <1>6, <1>7, <1>8, <1>9

(* The branches have it last, and then all three show the same.                *)
LEMMA BranchesLoaded ==
  ASSUME PartsAssumption, RecordingsInv, NEW l \in Clients, RC!LoadBranches(l)
  PROVE  /\ UNCHANGED <<v4, v5, v6, v8>> /\ RecordingOK(v9')
         /\ CacheFormed' /\ RC!CacheIsOfRecording' /\ LoadsFormed' /\ RC!LoadsAgree'
<1>1. /\ v10[l][1] = "controller" /\ v10' = [v10 EXCEPT ![l] = <<"idle", RC!Empty>>]
      /\ v9' = v10[l][2] /\ UNCHANGED <<v4, v5, v6, v7, v8>>
  BY DEF RC!LoadBranches, RC!Idle
<1>2. CacheFormed /\ RC!CacheIsOfRecording /\ LoadsFormed
  BY DEF RecordingsInv
<1>3. /\ DOMAIN v10' = Clients /\ {1, 2} \subseteq DOMAIN v10'[l]
      /\ v10'[l][1] = "idle" /\ v10'[l][2] = RC!Empty
      /\ \A k \in Clients \ {l} : v10'[k] = v10[k]
  BY <1>1, <1>2, LoadSet
<1>4. /\ v5 = v10[l][2] /\ v8 = v10[l][2]
      /\ \A k \in Clients : HoldsTimeline(k) => k = l
  BY <1>1, <1>2 DEF LoadsFormed, HoldsTimeline
<1>5. \A k \in Clients : ~HoldsTimeline(k)' /\ v10'[k][1] # "controller"
  BY <1>3, <1>4 DEF HoldsTimeline
<1>6. RecordingOK(RC!Empty)
  BY EmptyRecording
<1>7. LoadsFormed'
  <2>1. \A k \in Clients :
          /\ {1, 2} \subseteq DOMAIN v10'[k] /\ RecordingOK(v10'[k][2])
          /\ v10'[k][1] \in {"idle", "read", "timeline", "controller"}
          /\ HoldsTimeline(k)' => v5' = v10'[k][2]
          /\ v10'[k][1] = "controller" => v8' = v10'[k][2]
    BY <1>1, <1>2, <1>3, <1>5, <1>6 DEF LoadsFormed
  <2>2. \A j, k \in Clients : HoldsTimeline(j)' /\ HoldsTimeline(k)' => j = k
    BY <1>5
  <2> QED
    BY <1>3, <2>1, <2>2 DEF LoadsFormed
<1>8. RC!LoadsAgree'
  BY <1>1, <1>4 DEF RC!LoadsAgree
<1>9. CacheFormed' /\ RC!CacheIsOfRecording'
  BY <1>1, <1>2 DEF CacheFormed, RC!CacheIsOfRecording
<1>10. RecordingOK(v9')
  BY <1>1, <1>2 DEF LoadsFormed
<1> QED
  BY <1>1, <1>7, <1>8, <1>9, <1>10
(* What each step has to show of the invariant beside BufferStep.              *)
LEMMA StillFormed ==
  ASSUME PartsAssumption, RecordingsInv, RC!Next,
         RecordingOK(v4'), RecordingOK(v5'), RecordingOK(v8'), RecordingOK(v9'), v6' \in 0..v5'.total,
         CacheFormed', RC!CacheIsOfRecording', LoadsFormed', RC!LoadsAgree'
  PROVE  RecordingsInv'
<1>1. /\ RecordingOK(v2)' /\ QueuesInOrder(v2)'
      /\ v3' \in 0..v2'.id /\ v2'.id <= MaxStarts
  BY BufferStep
<1>2. RecordingsFormed'
  BY <1>1 DEF RecordingsFormed
<1> QED
  BY <1>1, <1>2 DEF RecordingsInv

LEMMA RecordingsStep ==
  ASSUME PartsAssumption, RecordingsInv, [RC!Next]_(RC!recordingVars)
  PROVE  RecordingsInv'
<1> USE RecordingConstants
<1>1. /\ RecordingOK(v2) /\ RecordingOK(v4) /\ RecordingOK(v5) /\ RecordingOK(v8) /\ RecordingOK(v9)
      /\ v6 \in 0..v5.total /\ v5.total \in Nat /\ v5.markers \subseteq 0..v5.total
      /\ CacheFormed /\ RC!CacheIsOfRecording /\ LoadsFormed /\ RC!LoadsAgree
  BY DEF RecordingsInv, RecordingsFormed, RecordingOK, RecordingType
<1>2. ASSUME RC!Next, UNCHANGED <<v5, v6, v7, v8, v9, v10>>, v4' = v4 \/ v4' = v2
      PROVE  RecordingsInv'
  <2>1. CacheFormed' /\ RC!CacheIsOfRecording' /\ LoadsFormed' /\ RC!LoadsAgree'
    BY <1>1, <1>2, ViewerKept
  <2>2. /\ RecordingOK(v4') /\ RecordingOK(v5') /\ RecordingOK(v8') /\ RecordingOK(v9')
        /\ v6' \in 0..v5'.total
    BY <1>1, <1>2
  <2> QED
    BY <1>2, <2>1, <2>2, StillFormed
<1>3. ASSUME NEW size \in Sizes, RC!handle_record(size)
      PROVE  RecordingsInv'
  <2>1. RC!Next
    BY <1>3 DEF RC!Next
  <2> QED
    BY <1>2, <1>3, <2>1 DEF RC!handle_record, RC!viewer
<1>4. CASE RC!handle_stop
  BY <1>2, <1>4 DEF RC!Next, RC!handle_stop, RC!viewer
<1>5. CASE RC!record_frame
  BY <1>2, <1>5 DEF RC!Next, RC!record_frame, RC!viewer
<1>6. CASE RC!RecorderEnds
  BY <1>2, <1>6 DEF RC!Next, RC!RecorderEnds, RC!viewer
<1>7. CASE RC!handle_marker
  BY <1>2, <1>7 DEF RC!Next, RC!handle_marker, RC!viewer
<1>8. CASE RC!handle_save
  BY <1>2, <1>8 DEF RC!Next, RC!handle_save, RC!save_to_file, RC!viewer
<1>9. ASSUME RC!Next, NEW n \in 0..v5.total, RC!GoTo(n)
      PROVE  RecordingsInv'
  <2>1. n \in Nat
    BY <1>1
  <2>2. /\ v6' = n /\ UNCHANGED <<v4, v5, v8, v9>>
        /\ CacheFormed' /\ RC!CacheIsOfRecording' /\ LoadsFormed' /\ RC!LoadsAgree'
    BY <1>1, <1>9, <2>1, WentTo
  <2>3. /\ RecordingOK(v4') /\ RecordingOK(v5') /\ RecordingOK(v8') /\ RecordingOK(v9')
        /\ v6' \in 0..v5'.total
    BY <1>1, <1>9, <2>2
  <2> QED
    BY <1>9, <2>2, <2>3, StillFormed
<1>10. CASE RC!seek
  <2>1. PICK n \in 0..(v5.total - 1) : RC!GoTo(n)
    BY <1>10 DEF RC!seek
  <2>2. RC!Next /\ n \in 0..v5.total
    BY <1>1, <1>10 DEF RC!Next
  <2> QED
    BY <1>9, <2>1, <2>2
<1>11. CASE RC!seek_to_marker
  <2>1. PICK n \in v5.markers : RC!GoTo(n)
    BY <1>11 DEF RC!seek_to_marker
  <2>2. RC!Next /\ n \in 0..v5.total
    BY <1>1, <1>11 DEF RC!Next
  <2> QED
    BY <1>9, <2>1, <2>2
<1>12. CASE RC!next
  <2>1. RC!GoTo(v6 + 1) /\ v6 + 1 < v5.total
    BY <1>12 DEF RC!next
  <2>2. RC!Next /\ v6 + 1 \in 0..v5.total
    BY <1>1, <1>12, <2>1 DEF RC!Next
  <2> QED
    BY <1>9, <2>1, <2>2
<1>13. CASE RC!previous
  <2>1. RC!GoTo(v6 - 1) /\ v6 > 0
    BY <1>13 DEF RC!previous
  <2>2. RC!Next /\ v6 - 1 \in 0..v5.total
    BY <1>1, <1>13, <2>1 DEF RC!Next
  <2> QED
    BY <1>9, <2>1, <2>2
<1>14. ASSUME NEW l \in Clients,
              RC!LoadReads(l) \/ RC!load_recording(l) \/ RC!LoadController(l) \/ RC!LoadBranches(l)
       PROVE  RecordingsInv'
  <2>1. RC!Next
    BY <1>14 DEF RC!Next
  <2>2. /\ CacheFormed' /\ RC!CacheIsOfRecording' /\ LoadsFormed' /\ RC!LoadsAgree'
        /\ RecordingOK(v4') /\ RecordingOK(v5') /\ RecordingOK(v8') /\ RecordingOK(v9')
        /\ v6' \in 0..v5'.total
    <3>1. CASE RC!LoadReads(l)
      BY <1>1, <3>1, FileRead
    <3>2. CASE RC!load_recording(l)
      <4>1. /\ UNCHANGED <<v4, v8, v9>> /\ RecordingOK(v5') /\ v6' = 0
            /\ CacheFormed' /\ RC!CacheIsOfRecording' /\ LoadsFormed' /\ RC!LoadsAgree'
        BY <3>2, TimelineLoaded
      <4>2. v5'.total \in Nat
        BY <4>1 DEF RecordingOK, RecordingType
      <4> QED
        BY <1>1, <4>1, <4>2
    <3>3. CASE RC!LoadController(l)
      BY <1>1, <3>3, ControllerLoaded
    <3>4. CASE RC!LoadBranches(l)
      BY <1>1, <3>4, BranchesLoaded
    <3> QED
      BY <1>14, <3>1, <3>2, <3>3, <3>4
  <2> QED
    BY <2>1, <2>2, StillFormed
<1>15. CASE UNCHANGED RC!recordingVars
  <2>1. UNCHANGED <<v2, v3, v4, v5, v6, v7, v8, v9, v10>>
    BY <1>15 DEF RC!recordingVars
  <2>2. CacheFormed' /\ RC!CacheIsOfRecording' /\ LoadsFormed' /\ RC!LoadsAgree'
    BY <1>1, <2>1, ViewerKept
  <2>3. RecordingsFormed' /\ QueuesInOrder(v2)'
    BY <2>1 DEF RecordingsInv, RecordingsFormed
  <2> QED
    BY <2>2, <2>3 DEF RecordingsInv
<1> QED
  BY <1>3, <1>4, <1>5, <1>6, <1>7, <1>8, <1>10, <1>11, <1>12, <1>13, <1>14, <1>15 DEF RC!Next

LEMMA RecordingsStart ==
  ASSUME PartsAssumption, RC!Init
  PROVE  RecordingsInv
<1> USE RecordingConstants
<1>1. /\ v2 = RC!Empty /\ v3 = 0 /\ v4 = RC!Empty /\ v5 = RC!Empty /\ v6 = 0 /\ v7 = << >>
      /\ v8 = RC!Empty /\ v9 = RC!Empty /\ v10 = [l \in Clients |-> <<"idle", RC!Empty>>]
  BY DEF RC!Init, RC!Idle
<1>2. RecordingOK(RC!Empty) /\ QueuesInOrder(RC!Empty) /\ RC!Empty.id = 0
  BY EmptyRecording
<1>3. RC!Empty.total \in Nat
  BY <1>2 DEF RecordingOK, RecordingType
<1>4. RecordingsFormed
  BY <1>1, <1>2, <1>3 DEF RecordingsFormed
<1>5. DOMAIN v7 = {}
  BY <1>1
<1>6. CacheFormed
  <2>1. IsFiniteSet({}) /\ Cardinality({}) = 0
    BY FS_EmptySet
  <2> QED
    BY <1>5, <2>1 DEF CacheFormed
<1>7. RC!CacheIsOfRecording
  BY <1>5 DEF RC!CacheIsOfRecording
<1>8. LoadsFormed
  <2>1. \A l \in Clients : {1, 2} \subseteq DOMAIN v10[l] /\ v10[l][1] = "idle" /\ v10[l][2] = RC!Empty
    BY <1>1
  <2> QED
    BY <1>1, <1>2, <2>1 DEF LoadsFormed, HoldsTimeline
<1>9. RC!LoadsAgree
  BY <1>1 DEF RC!LoadsAgree
<1> QED
  BY <1>1, <1>2, <1>4, <1>6, <1>7, <1>8, <1>9 DEF RecordingsInv

LEMMA RecordingsHold == MCSpec => []RecordingsPart
<1>1. MCInit => RecordingsPart
  BY StartOfPart, RecordingsStart, PartsAssumption DEF RecordingsPart
<1>2. RecordingsPart /\ [MCNext]_all => RecordingsPart'
  BY StepOfPart, RecordingsStep, PartsAssumption DEF RecordingsPart
<1> QED
  BY <1>1, <1>2, PTL DEF MCSpec
-----------------------------------------------------------------------------
(* The deltas that are left are the last frames' ones, so a frame's is there   *)
(* unless it has fallen out of a full queue.                                   *)
LEMMA DeltaIsKept ==
  ASSUME NEW deltas \in Seq(Nat), NEW size \in Nat, NEW total \in Nat \ {0},
         DeltasInOrder(deltas, size, total),
         NEW d \in 1..(total - 1), d >= total - size
  PROVE  d \in RC!ToSet(deltas)
<1> DEFINE D == Len(deltas)
           j == d - ((total - 1) - D)
<1>1. D \in Nat /\ DOMAIN deltas = 1..D
  BY LenProperties
<1>2. /\ D < total /\ (D = total - 1 \/ D >= size)
      /\ \A i \in 1..D : deltas[i] = (total - 1) - (D - i)
  BY DEF DeltasInOrder
<1> HIDE DEF D
<1>3. j \in 1..D /\ (total - 1) - (D - j) = d
  BY <1>1, <1>2
<1>4. deltas[j] = d /\ j \in DOMAIN deltas
  BY <1>1, <1>2, <1>3
<1> QED
  BY <1>4 DEF RC!ToSet

(* What the keyframes of a full queue reach back is less than the deltas do.   *)
LEMMA OldestKeyframe ==
  ASSUME NEW K \in Nat \ {0}, NEW size \in Nat, NEW L \in Nat \ {0}, NEW q \in Nat,
         q * K <= size, L <= AtLeastOne(q), L # 1, NEW i \in 1..L
  PROVE  (L - i) * K \in Nat /\ (L - i) * K + K <= size
<1>1. L <= q
  BY DEF AtLeastOne
<1>2. \A a, b \in Nat : a <= b => a * K <= b * K /\ a * K \in Nat /\ b * K \in Nat
  OBVIOUS
<1>3. L - i \in Nat /\ q - 1 \in Nat /\ L - i <= q - 1
  BY <1>1
<1>4. (L - i) * K <= (q - 1) * K /\ (L - i) * K \in Nat /\ (q - 1) * K \in Nat
  BY <1>2, <1>3
<1>5. (q - 1) * K = q * K - K /\ q * K \in Nat
  OBVIOUS
<1> DEFINE a == (L - i) * K
           b == q * K
<1>6. a <= b - K /\ a \in Nat /\ b \in Nat /\ b <= size
  BY <1>4, <1>5
<1> HIDE DEF a, b
<1>7. a + K <= size
  BY <1>6
<1> QED
  BY <1>6, <1>7 DEF a

LEMMA TailIsWhole ==
  ASSUME PartsAssumption, RecordingOK(v2), QueuesInOrder(v2)
  PROVE  RC!TailCanBeRebuilt
<1> USE RecordingConstants
<1> DEFINE frames == v2.frames
           total == v2.total
           size == v2.size
           L == Len(frames)
           last == frames[L]
           q == size \div Keyframe
<1>1. /\ frames \in Seq(Nat) /\ v2.deltas \in Seq(Nat) /\ size \in Nat /\ total \in Nat
      /\ L <= AtLeastOne(q)
  BY DEF RecordingOK, RecordingType
<1>2. q \in Nat /\ q * Keyframe <= size
  BY <1>1, WholeKeyframes
<1> HIDE DEF q
<1>3. SUFFICES ASSUME NEW n \in 0..(total - 1), size >= Keyframe - 1, RC!Rebuilt(v2, n) # {}
               PROVE  RC!Complete(v2, n)
  BY DEF RC!TailCanBeRebuilt
<1> DEFINE fulls == {f \in RC!ToSet(frames) : f <= n}
<1>4. fulls # {}
  BY <1>3 DEF RC!Rebuilt
<1>5. total # 0 /\ n \in Nat
  BY <1>1
<1>6. /\ frames # << >> /\ KeyframesApart(frames, total)
      /\ DeltasInOrder(v2.deltas, size, total)
  BY <1>5 DEF QueuesInOrder
<1>7. L \in Nat \ {0} /\ DOMAIN frames = 1..L
  BY <1>1, <1>6, LenProperties, EmptySeq
<1>8. /\ last < total /\ total <= last + Keyframe
      /\ \A i \in 1..L : frames[i] >= last - (L - i) * Keyframe
  BY <1>6 DEF KeyframesApart
<1>9. \A i \in 1..L : frames[i] \in Nat
  BY <1>1, ElementOfSeq
<1>10. RC!ToSet(frames) = {frames[i] : i \in 1..L}
  BY <1>7 DEF RC!ToSet
<1>11. fulls \subseteq Nat /\ \A y \in fulls : y <= n
  BY <1>9, <1>10
<1> DEFINE f == RC!Max(fulls)
<1>12. f \in fulls /\ \A y \in fulls : f >= y
  BY <1>4, <1>5, <1>11, NatMax
<1>13. PICK i \in 1..L : f = frames[i]
  BY <1>10, <1>12
<1>14. last <= n => f >= last
  <2>1. last \in RC!ToSet(frames)
    BY <1>7, <1>10
  <2> QED
    BY <1>12, <2>1
<1>15. f \in Nat /\ f <= n /\ last \in Nat
  BY <1>7, <1>9, <1>11, <1>12
<1> HIDE DEF f
<1>16. f + 1 >= total - size
  <2>1. CASE last <= n
    <3>1. Keyframe \in Nat /\ size >= Keyframe - 1
      BY <1>3
    <3> HIDE DEF last, total, size
    <3> QED
      BY <1>1, <1>8, <1>14, <1>15, <2>1, <3>1
  <2>2. CASE ~(last <= n)
    <3>1. L # 1
      <4> SUFFICES ASSUME L = 1 PROVE FALSE
        OBVIOUS
      <4>1. i = L
        OBVIOUS
      <4>2. f = last
        BY <1>13, <4>1
      <4> QED
        BY <1>15, <2>2, <4>2
    <3>2. f >= last - (L - i) * Keyframe
      BY <1>8, <1>13
    <3>3. total <= last + Keyframe /\ Keyframe \in Nat \ {0}
      BY <1>8
    <3> DEFINE a == (L - i) * Keyframe
    <3> HIDE DEF last, L, total, size, frames
    <3>4. a \in Nat /\ a + Keyframe <= size
      BY <1>1, <1>2, <1>7, <3>1, <3>3, OldestKeyframe
    <3>5. f >= last - a
      BY <3>2
    <3> HIDE DEF a
    <3> QED
      BY <1>1, <1>15, <3>3, <3>4, <3>5
  <2> QED
    BY <2>1, <2>2
<1>17. ASSUME NEW d \in (f + 1)..n PROVE d \in RC!ToSet(v2.deltas)
  <2> HIDE DEF last, L, total, size, frames
  <2>1. d \in 1..(total - 1) /\ d >= total - size
    BY <1>1, <1>5, <1>15, <1>16
  <2> QED
    BY <1>1, <1>5, <1>6, <2>1, DeltaIsKept
<1> QED
  BY <1>17 DEF RC!Complete, f

(* From the oldest keyframe that is left on, every frame of a recording can be *)
(* rebuilt, what is cached is of the recording that is shown, and who shows a  *)
(* recording shows the same one when no load is under way (recording_system.rs *)
(* and tools/replay.rs), for queues, caches and recordings of any size.        *)
THEOREM RecordingsAreWhole == MCSpec => []RecordingsWhole
<1>1. RecordingsPart => RecordingsWhole
  BY TailIsWhole, PartsAssumption
     DEF RecordingsPart, RecordingsInv, RecordingsFormed, RecordingsWhole
<1> QED
  BY <1>1, RecordingsHold, PTL
-----------------------------------------------------------------------------
(* Every part keeps its types: its queues, its cache and its lists are no      *)
(* longer than the code lets them be, and what one part names of another is    *)
(* there to be named.                                                          *)
THEOREM TypesKept == MCSpec => []TypesOK
<1>1. IInv => TypeOK
  BY DEF IInv
<1>2. SessionsPart => (part = "sessions" => SM!TypeOK)
  BY DEF SessionsPart, SessionsInv, SessionsFormed, WellFormed, SM!TypeOK, SM!Live
<1>3. RecordingsPart => (part = "recordings" => RC!TypeOK)
  <2> SUFFICES ASSUME RecordingsInv PROVE RC!TypeOK
    BY DEF RecordingsPart
  <2> USE RecordingConstants, PartsAssumption
  <2>1. ASSUME NEW r, RecordingOK(r) PROVE RC!WithinBounds(r)
    <3>1. r.size \in Nat /\ r.size \div Keyframe \in Nat
      BY <2>1, WholeKeyframes DEF RecordingOK, RecordingType
    <3>2. RC!Max({r.size, 1}) = AtLeastOne(r.size)
      BY <3>1, MaxWithOne
    <3>3. RC!Max({r.size \div Keyframe, 1}) = AtLeastOne(r.size \div Keyframe)
      BY <3>1, MaxWithOne
    <3> QED
      BY <2>1, <3>2, <3>3 DEF RecordingOK, RC!WithinBounds
  <2>2. \A r \in {v2, v4, v5, v8, v9} : RC!WithinBounds(r)
    BY <2>1 DEF RecordingsInv, RecordingsFormed
  <2>3. v6 <= v5.total
    BY DEF RecordingsInv, RecordingsFormed, RecordingOK, RecordingType
  <2>4. RC!Cardinality(DOMAIN v7) <= MaxCached
    BY SameCardinality DEF RecordingsInv, CacheFormed
  <2>5. v3 <= MaxStarts
    <3>1. v3 \in 0..v2.id /\ v2.id <= MaxStarts /\ v2.id \in Nat /\ MaxStarts \in Nat
      BY DEF RecordingsInv, RecordingsFormed, RecordingOK, RecordingType
    <3> QED
      BY <3>1
  <2> QED
    BY <2>2, <2>3, <2>4, <2>5 DEF RC!TypeOK
<1>4. PlaybackPart => (part = "playback" => PB!TypeOK)
  BY PlaybackTypes, PartsAssumption DEF PlaybackPart, PartsAssumption
<1>5. BranchesPart => (part = "branches" => TB!TypeOK)
  <2> SUFFICES ASSUME BranchesInv PROVE TB!TypeOK
    BY DEF BranchesPart
  <2>1. MaxLoads \in Nat
    BY PartsAssumption DEF PartsAssumption, TB!BranchesAssumption
  <2>2. v1 \subseteq 1..v2 /\ {v4, v5} \subseteq TB!BranchIds \cup {TB!NoBranch} /\ v6 <= MaxLoads
    BY <2>1, PartsAssumption
       DEF BranchesInv, BranchesFormed, TB!BranchIds, TB!NoBranch, PartsAssumption, TB!BranchesAssumption
  <2>3. ASSUME NEW b \in TB!BranchIds PROVE [parent_id |-> v3[b]] \in TB!BranchMetadata
    <3>1. v3[b] \in TB!BranchIds \cup {TB!NoBranch}
      BY PartsAssumption
         DEF BranchesInv, BranchesFormed, TB!BranchIds, TB!NoBranch, PartsAssumption, TB!BranchesAssumption
    <3> QED
      BY <3>1 DEF TB!BranchMetadata
  <2>4. \A b \in TB!BranchIds : TB!TimelineBranch(b)
    BY DEF BranchesInv, LayersFormed, TB!TimelineBranch, TB!ModificationLayers
  <2> QED
    BY <2>2, <2>3, <2>4 DEF TB!TypeOK
<1>6. IInv /\ SessionsPart /\ RecordingsPart /\ PlaybackPart /\ BranchesPart => TypesOK
  BY <1>1, <1>2, <1>3, <1>4, <1>5 DEF TypesOK
<1> QED
  BY <1>6, CheckpointsHold, SessionsHold, RecordingsHold, PlaybackHolds, BranchesHold, PTL
=============================================================================
