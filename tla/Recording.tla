----------------------------- MODULE Recording ------------------------------
(* Recording a game and going through what was recorded: recording_system.rs   *)
(* and the recording half of tools/replay.rs.  Every frame but the first is    *)
(* kept as the delta to the one before; every Keyframe-th frame is kept in     *)
(* full as well, so that later frames can be rebuilt from it.  Both queues are *)
(* bounded.  The states of the entities are left out: fetch_entities finds     *)
(* none.  What remains of a frame is its number.                               *)
EXTENDS Integers, Sequences, SequencesExt, FiniteSets, FiniteSetsExt

CONSTANTS
  Keyframe,     \* 30 in the code
  Sizes,        \* max_buffer_size, chosen with each recording
  MaxCached,    \* max_cache_size
  MaxFrames,    \* bound on the frames of a recording
  MaxStarts,    \* bound on the recordings
  Loaders       \* requests that load a recording

RecordingAssumption ==
  Keyframe \in Nat \ {0} /\ Sizes \subseteq Nat /\ MaxCached \in Nat \ {0}
  /\ MaxStarts \in Nat

Empty == [id |-> 0, size |-> 0, frames |-> << >>, deltas |-> << >>, total |-> 0, markers |-> {}]

VARIABLES
  recording,    \* is_recording
  buffer,       \* the RecordingBuffer: frames and deltas as their numbers
  recorders,    \* background tasks that have not seen the end of a recording
  file,         \* the saved recording, Empty before
  timeline,     \* the Timeline's recording
  cursor, cache,\* its current_frame, and cached_frames: [number -> rebuilt frame]
  controller,   \* the recording of the playback controller
  branches,     \* the base recording of the branch manager
  loading       \* [loader -> <<stage, recording read>>]

recordingVars == <<recording, buffer, recorders, file, timeline, cursor, cache,
                   controller, branches, loading>>

Idle == <<"idle", Empty>>

Init ==
  /\ recording = FALSE /\ buffer = Empty /\ recorders = 0 /\ file = Empty
  /\ timeline = Empty /\ cursor = 0 /\ cache = << >>
  /\ controller = Empty /\ branches = Empty
  /\ loading = [l \in Loaders |-> Idle]

start_recording(size) == [Empty EXCEPT !.id = buffer.id + 1, !.size = size]

recorder == <<recording, buffer, recorders>>
viewer == <<timeline, cursor, cache, controller, branches, loading>>

-----------------------------------------------------------------------------
(* handle_record replaces the buffer and spawns one more task; a task of the   *)
(* recording before that still sleeps will record into the new buffer too.     *)
handle_record(size) ==
  /\ ~recording /\ buffer.id < MaxStarts
  /\ recording' = TRUE
  /\ buffer' = start_recording(size)
  /\ recorders' = recorders + 1
  /\ UNCHANGED <<file, viewer>>

handle_stop ==
  /\ recording /\ recording' = FALSE
  /\ UNCHANGED <<buffer, recorders, file, viewer>>

(* A bounded queue makes room before it takes one more.                        *)
Bounded(queue, limit, item) ==
  Append(IF Len(queue) >= limit /\ queue # << >> THEN Tail(queue) ELSE queue, item)

(* Mutant: room is made for a keyframe only above the limit.                   *)
Keyframes_off_by_one(frames, n) ==
  IF n % Keyframe = 0 THEN Bounded(frames, (buffer.size \div Keyframe) + 1, n) ELSE frames
Keyframes(frames, n) ==
  IF n % Keyframe = 0 THEN Bounded(frames, buffer.size \div Keyframe, n) ELSE frames

(* Mutant: there are as many deltas kept as keyframes.                         *)
Deltas_as_keyframes(deltas, n) == Bounded(deltas, buffer.size \div Keyframe, n)
Deltas(deltas, n) == Bounded(deltas, buffer.size, n)

(* A task records when the sample rate lets it; the first frame is kept in     *)
(* full on its own account and again as a keyframe.                            *)
record_frame ==
  /\ recording /\ recorders > 0 /\ buffer.total < MaxFrames
  /\ LET n == buffer.total
         first == n = 0
         full == IF first THEN Bounded(buffer.frames, buffer.size, n) ELSE buffer.frames
         delta == IF first THEN buffer.deltas ELSE Deltas(buffer.deltas, n)
     IN buffer' = [buffer EXCEPT !.frames = Keyframes(full, n), !.deltas = delta, !.total = n + 1]
  /\ UNCHANGED <<recording, recorders, file, viewer>>

RecorderEnds ==
  /\ ~recording /\ recorders > 0 /\ recorders' = recorders - 1
  /\ UNCHANGED <<recording, buffer, file, viewer>>

(* A marker names the frame that will be recorded next.                        *)
add_marker ==
  /\ recording
  /\ buffer' = [buffer EXCEPT !.markers = @ \cup {buffer.total}]

handle_marker ==
  /\ buffer.markers = {} /\ add_marker     \* bound: one marker in a recording
  /\ UNCHANGED <<recording, recorders, file, viewer>>

(* What is saved is the buffer as it is, with what has left its queues gone.   *)
save_to_file == file' = buffer

handle_save ==
  /\ ~recording /\ save_to_file
  /\ UNCHANGED <<recorder, viewer>>

-----------------------------------------------------------------------------
(* The frame a Timeline rebuilds for a number, in a set: the nearest keyframe, *)
(* then every kept delta after it up to the number, the last one deciding.     *)
Rebuilt(r, n) ==
  LET fulls == {f \in ToSet(r.frames) : f <= n}
      applied == {d \in ToSet(r.deltas) : d <= n /\ d > Max(fulls)}
  IN IF fulls = {} THEN {} ELSE {Max(applied \cup {Max(fulls)})}

(* Every delta between the keyframe and the frame is there to be applied.      *)
Complete(r, n) ==
  \A f \in {Max({f \in ToSet(r.frames) : f <= n})} : (f + 1)..n \subseteq ToSet(r.deltas)

Without(f, x) == [y \in DOMAIN f \ {x} |-> f[y]]

(* A frame that is asked for is cached; the lowest number makes room.          *)
get_frame(n) ==
  cache' = IF n \in DOMAIN cache \/ Rebuilt(timeline, n) = {} THEN cache
           ELSE LET kept == IF Cardinality(DOMAIN cache) >= MaxCached
                            THEN Without(cache, Min(DOMAIN cache)) ELSE cache
                IN [y \in DOMAIN kept \cup {n} |->
                      IF y = n THEN <<timeline.id, CHOOSE f \in Rebuilt(timeline, n) : TRUE>>
                      ELSE kept[y]]

GoTo(n) ==
  /\ cursor' = n /\ get_frame(n)
  /\ UNCHANGED <<recorder, file, timeline, controller, branches, loading>>

(* Mutant: the lock is given back once the timeline has its recording.         *)
Free_early == TRUE
(* While a load holds the timeline nobody moves in it.                         *)
Free == \A l \in Loaders : loading[l][1] \in {"idle", "read"}

seek == Free /\ \E n \in 0..(timeline.total - 1) : GoTo(n)
seek_to_marker == Free /\ \E n \in timeline.markers : GoTo(n)
next == Free /\ cursor + 1 < timeline.total /\ GoTo(cursor + 1)
previous == Free /\ cursor > 0 /\ GoTo(cursor - 1)

-----------------------------------------------------------------------------
(* handle_load reads the file, takes the timeline's lock and keeps it while it *)
(* gives the recording to the timeline, the controller and the branches.       *)
load_from_file(l) == file # Empty /\ loading' = [loading EXCEPT ![l] = <<"read", file>>]

LoadReads(l) ==
  /\ loading[l][1] = "idle" /\ load_from_file(l)
  /\ UNCHANGED <<recorder, file, timeline, cursor, cache, controller, branches>>

(* Mutant: loading leaves the frames of the recording before in the cache.     *)
load_recording_keeps_cache(l) ==
  /\ loading[l][1] = "read" /\ Free
  /\ timeline' = loading[l][2] /\ cursor' = 0 /\ cache' = cache
  /\ loading' = [loading EXCEPT ![l][1] = "timeline"]
  /\ UNCHANGED <<recorder, file, controller, branches>>

load_recording(l) ==
  /\ loading[l][1] = "read" /\ Free
  /\ timeline' = loading[l][2] /\ cursor' = 0 /\ cache' = << >>
  /\ loading' = [loading EXCEPT ![l][1] = "timeline"]
  /\ UNCHANGED <<recorder, file, controller, branches>>

LoadController(l) ==
  /\ loading[l][1] = "timeline" /\ controller' = loading[l][2]
  /\ loading' = [loading EXCEPT ![l][1] = "controller"]
  /\ UNCHANGED <<recorder, file, timeline, cursor, cache, branches>>

LoadBranches(l) ==
  /\ loading[l][1] = "controller" /\ branches' = loading[l][2]
  /\ loading' = [loading EXCEPT ![l] = Idle]
  /\ UNCHANGED <<recorder, file, timeline, cursor, cache, controller>>

Next ==
  \/ (\E size \in Sizes : handle_record(size)) \/ handle_stop \/ record_frame \/ RecorderEnds
  \/ handle_marker \/ handle_save \/ seek \/ seek_to_marker \/ next \/ previous
  \/ \E l \in Loaders : LoadReads(l) \/ load_recording(l) \/ LoadController(l) \/ LoadBranches(l)

Spec == Init /\ [][Next]_recordingVars

-----------------------------------------------------------------------------
(* The queues stay within their bounds, and the cursor within the recording or *)
(* on a marker set after its last frame.                                       *)
WithinBounds(r) ==
  Len(r.deltas) <= Max({r.size, 1}) /\ Len(r.frames) <= Max({r.size \div Keyframe, 1})

TypeOK ==
  /\ \A r \in {buffer, file, timeline, controller, branches} : WithinBounds(r)
  /\ cursor <= timeline.total /\ Cardinality(DOMAIN cache) <= MaxCached
  /\ recorders <= MaxStarts

(* From the oldest keyframe that is left on, every frame of a recording can be *)
(* rebuilt from deltas that are still there, when the queue of deltas holds    *)
(* the frames between two keyframes.                                           *)
TailCanBeRebuilt ==
  \A n \in 0..(buffer.total - 1) :
    buffer.size >= Keyframe - 1 /\ Rebuilt(buffer, n) # {} => Complete(buffer, n)

(* A cached frame is one of the recording the timeline shows.                  *)
CacheIsOfRecording == \A n \in DOMAIN cache : cache[n][1] = timeline.id

(* When no load is under way the three users of a recording show the same one. *)
LoadsAgree ==
  (\A l \in Loaders : loading[l][1] \in {"idle", "read"}) =>
    timeline = controller /\ controller = branches
=============================================================================
