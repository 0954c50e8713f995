----------------------------- MODULE HotReload ------------------------------
(* The HotReloadSystem of hot_reload.rs: a watcher reports writes below the    *)
(* directory of the models, a task for each report debounces it, and one task  *)
(* reloads what was reported, after a backup of what is loaded; a request can  *)
(* have everything reloaded while the task does the same.  The backups         *)
(* are written below the same directory, under a name that holds the second.   *)
(* A model and what is loaded are a version number; 0 is what was learned.  The *)
(* files of templates, workflows and settings are read and then not applied:   *)
(* they are left out.                                                          *)
EXTENDS Naturals, Sequences

CONSTANTS
  MaxBackups,   \* max_backups
  MaxWrites,    \* bound on the versions that are written
  MaxTime,      \* bound on the seconds
  MaxForced,    \* bound on the requests to reload everything
  None

HotReloadAssumption == {MaxBackups, MaxWrites, MaxTime, MaxForced} \subseteq Nat

Seconds == 0..MaxTime
Backup(t) == <<"patterns_backup", t>>
Model == <<"patterns">>
Paths == {Model} \cup {Backup(t) : t \in Seconds}

VARIABLES
  now,          \* the second
  files,        \* [path -> version], for the files there are
  writes,       \* how many versions were written
  order,        \* the backups from the oldest to the newest
  running,      \* whether the watcher is there
  reports,      \* [path -> tasks that handle a report of a write to it]
  last_reload,  \* [path -> the second it was last passed on]
  queue,        \* the event channel
  asked,        \* how many requests to reload everything there were
  step,         \* [reloader -> [at, path, backup, content, newer]]
  loaded,       \* the version of the patterns in memory
  model_version \* the version model_versions names

fileVars == <<files, writes, order>>
reloadVars == <<now, fileVars, running, reports, last_reload, queue, asked, step, loaded,
                model_version>>

(* newer is history: the backups another reloader made since this one made its *)
(* own, up to as many as are kept.                                             *)
Reloaders == {"task", "request"}
Idle == [at |-> "idle", path |-> None, backup |-> None, content |-> None, newer |-> 0]

Init ==
  /\ now = 0 /\ files = << >> /\ writes = 0 /\ order = << >> /\ running = TRUE
  /\ reports = [p \in Paths |-> 0] /\ last_reload = << >> /\ queue = << >>
  /\ asked = 0 /\ step = [r \in Reloaders |-> Idle]
  /\ loaded = 0 /\ model_version = None

Put(f, k, v) == [x \in DOMAIN f \cup {k} |-> IF x = k THEN v ELSE f[x]]
Reported(p) == IF running THEN [reports EXCEPT ![p] = @ + 1] ELSE reports

-----------------------------------------------------------------------------
(* The user writes a file; a task is spawned for the report.                   *)
Written(p) ==
  /\ writes < MaxWrites /\ writes' = writes + 1
  /\ files' = Put(files, p, writes') /\ reports' = Reported(p)
  /\ UNCHANGED <<now, order, running, last_reload, queue, asked, step, loaded, model_version>>

Tick ==
  /\ now < MaxTime /\ now' = now + 1
  /\ UNCHANGED <<fileVars, running, reports, last_reload, queue, asked, step, loaded, model_version>>

(* A second has passed since: for certain two seconds on, perhaps one on.      *)
Debounced(p) == p \in DOMAIN last_reload /\ now <= last_reload[p] + 1
MayPass(p) == p \in DOMAIN last_reload => now > last_reload[p]

(* The first write of a burst is passed on, the others are dropped.  When the  *)
(* channel is gone the event is lost.                                          *)
handle_file_event(p) ==
  /\ reports[p] > 0 /\ reports' = [reports EXCEPT ![p] = @ - 1]
  /\ \/ Debounced(p) /\ UNCHANGED <<last_reload, queue>>
     \/ MayPass(p) /\ last_reload' = Put(last_reload, p, now) /\ queue' = Append(queue, p)
  /\ UNCHANGED <<now, fileVars, running, asked, step, loaded, model_version>>

-----------------------------------------------------------------------------
(* A reload is a backup, the reading of the file, the import and the version,  *)
(* by the reloading task or by a request: they share no lock.                  *)
process_reload_event(r, p) ==
  step' = [step EXCEPT ![r] = [at |-> "backup", path |-> p, backup |-> Backup(now),
                               content |-> loaded, newer |-> 0]]

(* The reloading task takes one event after the other.                         *)
ProcessStarts ==
  /\ step["task"].at = "idle" /\ queue # << >> /\ queue' = Tail(queue)
  /\ process_reload_event("task", Head(queue))
  /\ UNCHANGED <<now, fileVars, running, reports, last_reload, asked, loaded, model_version>>

(* A request reloads the model if it is there; what is below the directory of  *)
(* the backups is not looked at.                                               *)
force_reload_all ==
  /\ step["request"].at = "idle" /\ asked < MaxForced /\ asked' = asked + 1
  /\ Model \in DOMAIN files /\ process_reload_event("request", Model)
  /\ UNCHANGED <<now, fileVars, running, reports, last_reload, queue, loaded, model_version>>

(* A backup is in the order once.                                              *)
Without(seq, x) ==
  IF \A i \in DOMAIN seq : seq[i] # x THEN seq
  ELSE LET i == CHOOSE i \in DOMAIN seq : seq[i] = x
       IN SubSeq(seq, 1, i - 1) \o SubSeq(seq, i + 1, Len(seq))

(* From the backup of the patterns until they are loaded.                      *)
BackedUp(r) == step[r].at \in {"cleanup", "read", "import"}

(* What was exported when the reload began, under the name of that second.     *)
create_backup(r) ==
  /\ step[r].at = "backup"
  /\ step' = [q \in Reloaders |->
       IF q = r THEN [step[q] EXCEPT !.at = "cleanup", !.content = None]
       ELSE [step[q] EXCEPT !.newer = IF BackedUp(q) /\ @ < MaxBackups THEN @ + 1 ELSE @]]
  /\ files' = Put(files, step[r].backup, step[r].content) /\ reports' = Reported(step[r].backup)
  /\ order' = Append(Without(order, step[r].backup), step[r].backup)
  /\ UNCHANGED <<now, writes, running, last_reload, queue, asked, loaded, model_version>>

(* Mutant: the newest backups are removed, not the oldest.                     *)
Kept_oldest(backups) == SubSeq(backups, 1, IF Len(backups) < MaxBackups THEN Len(backups)
                                           ELSE MaxBackups)
Kept(backups) == IF Len(backups) <= MaxBackups THEN backups
                 ELSE SubSeq(backups, Len(backups) - MaxBackups + 1, Len(backups))

cleanup_old_backups(r) ==
  /\ step[r].at = "cleanup" /\ step' = [step EXCEPT ![r].at = "read"]
  /\ order' = Kept(order)
  /\ files' = [p \in {p \in DOMAIN files : p = Model \/ \E i \in DOMAIN order' : order'[i] = p}
                 |-> files[p]]
  /\ UNCHANGED <<now, writes, running, reports, last_reload, queue, asked, loaded, model_version>>

(* A file that is gone by now ends the reload with an error.                   *)
reload_reads(r) ==
  /\ step[r].at = "read"
  /\ step' = IF step[r].path \in DOMAIN files
             THEN [step EXCEPT ![r].at = "import", ![r].content = files[step[r].path]]
             ELSE [step EXCEPT ![r] = Idle]
  /\ UNCHANGED <<now, fileVars, running, reports, last_reload, queue, asked, loaded, model_version>>

import_patterns(r) ==
  /\ step[r].at = "import" /\ step' = [step EXCEPT ![r] = [Idle EXCEPT !.at = "version", !.path = step[r].path]]
  /\ loaded' = step[r].content
  /\ UNCHANGED <<now, fileVars, running, reports, last_reload, queue, asked, model_version>>

(* The checksum is of the file as it is now, which is read again.              *)
update_model_version(r) ==
  /\ step[r].at = "version" /\ step' = [step EXCEPT ![r] = Idle]
  /\ model_version' = IF step[r].path \in DOMAIN files THEN files[step[r].path] ELSE model_version
  /\ UNCHANGED <<now, fileVars, running, reports, last_reload, queue, asked, loaded>>

(* Stopping drops the watcher: what it has reported is still handled.  Nothing *)
(* starts it again.                                                            *)
stop ==
  /\ running /\ running' = FALSE
  /\ UNCHANGED <<now, fileVars, reports, last_reload, queue, asked, step, loaded, model_version>>

Reloads(r) ==
  \/ create_backup(r) \/ cleanup_old_backups(r) \/ reload_reads(r) \/ import_patterns(r)
  \/ update_model_version(r)

(* hot_reload of the server; its other actions only tell of the versions.      *)
handle_hot_reload == force_reload_all \/ stop

Next ==
  \/ Tick \/ Written(Model) \/ handle_hot_reload \/ ProcessStarts
  \/ (\E r \in Reloaders : Reloads(r)) \/ (\E p \in Paths : handle_file_event(p))

Spec == Init /\ [][Next]_reloadVars
FairSpec ==
  /\ Spec /\ WF_reloadVars(ProcessStarts)
  /\ \A r \in Reloaders : WF_reloadVars(Reloads(r))
  /\ \A p \in Paths : WF_reloadVars(handle_file_event(p))

-----------------------------------------------------------------------------
TypeOK ==
  /\ DOMAIN files \subseteq Paths /\ loaded \in 0..MaxWrites
  /\ model_version \in 0..MaxWrites \cup {None} /\ Len(order) <= MaxBackups + 2
  /\ asked \in 0..MaxForced
  /\ \A r \in Reloaders : /\ step[r].newer \in 0..MaxBackups
                         /\ step[r].at \in {"idle", "backup", "cleanup", "read", "import", "version"}

(* Making room for a backup never costs the one it is made for: from when the  *)
(* backup is written until the models are loaded it is on the disk, unless the *)
(* other reloader has since made as many as are kept.                          *)
BackupBeforeLoad ==
  \A r \in Reloaders :
    BackedUp(r) /\ step[r].newer < MaxBackups => step[r].backup \in DOMAIN files

(* hot_reload.rs:126: updates of the models are loaded: when the files have    *)
(* been left alone for long enough, what is loaded is what the model file says.*)
LastWriteLoaded ==
  [](writes = MaxWrites => <>(Model \in DOMAIN files => loaded = files[Model]))

(* mcp_server.rs:1239: "All models force reloaded successfully": when the      *)
(* request has loaded a model, no older version of it is loaded afterwards.    *)
ForcedIsNewest ==
  [][import_patterns("task") /\ step["task"].path = Model => loaded' >= loaded]_reloadVars

(* hot_reload.rs:347: "Create backup before reloading": a backup is to keep    *)
(* what is loaded, it is not to be loaded itself over a model that is newer.   *)
BackupsAreNotLoaded ==
  [][\A r \in Reloaders : loaded' # loaded /\ import_patterns(r) => step[r].path = Model]_reloadVars
=============================================================================
