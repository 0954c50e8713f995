--------------------------- MODULE SystemProfiler ---------------------------
(* The system profiler (system_profiler.rs) behind the command ProfileSystem   *)
(* (system_profiler_processor.rs): sessions by system, a history of frames,    *)
(* and a moving average of the times of all the systems.  A clock tick is      *)
(* longer than a frame.                                                        *)
EXTENDS Naturals, Sequences, FiniteSets, SequencesExt

CONSTANTS
  Systems,
  Callers,      \* tasks that handle a command ProfileSystem
  Durations,    \* the durations asked for, and None
  Default,      \* DEFAULT_PROFILE_DURATION_MS
  LongestWait,  \* a command waits for its profile up to this duration
  MaxConcurrent,\* MAX_CONCURRENT_SYSTEMS
  Times,        \* execution times
  Window,       \* window_size of the moving average
  MaxFrames,    \* MAX_FRAME_HISTORY
  MaxTime, MaxSessions, MaxSamples, \* bounds on the clock, the sessions, the samples
  None

ProfilerAssumption == Window > 0 /\ MaxFrames > 0 /\ Durations \subseteq Nat \cup {None}

VARIABLES
  now,
  sessions,     \* [system -> [id, started, duration, samples]]
  made,         \* how many sessions were started
  command,      \* [caller -> [at, system, due, id]]
  timers,       \* the auto-stops that are scheduled: [system, due, id]
  frames,       \* [number, start, times], the oldest first
  current_frame,
  window, sum,  \* the moving average
  anomalies,    \* how many anomalies there are
  samples       \* how many samples were collected

averageVars == <<window, sum, anomalies>>
frameVars == <<frames, current_frame, samples>>
profilerVars == <<now, sessions, made, command, timers, frameVars, averageVars>>

NoCommand == [at |-> "idle", system |-> None, due |-> 0, id |-> 0]

Init ==
  /\ now = 0 /\ sessions = << >> /\ made = 0 /\ command = [c \in Callers |-> NoCommand]
  /\ timers = {} /\ frames = << >> /\ current_frame = 0 /\ window = << >> /\ sum = 0
  /\ anomalies = 0 /\ samples = 0

Without(f, k) == [x \in DOMAIN f \ {k} |-> f[x]]

-----------------------------------------------------------------------------
MayStart(s) == s \notin DOMAIN sessions /\ Cardinality(DOMAIN sessions) < MaxConcurrent

start_profiling(s, d) ==
  /\ MayStart(s) /\ made < MaxSessions /\ made' = made + 1
  /\ sessions' = [x \in DOMAIN sessions \cup {s} |->
       IF x # s THEN sessions[x]
       ELSE [id |-> made', started |-> now, duration |-> IF d = None THEN Default ELSE d,
             samples |-> << >>]]

(* The command: a short profile is waited for and answered; a longer one, and  *)
(* one without a duration, is started and left.                                *)
ProfileSystem(c, s, d) ==
  /\ command[c].at = "idle" /\ start_profiling(s, d)
  /\ command' = IF d # None /\ d <= LongestWait
                THEN [command EXCEPT ![c] = [at |-> "waits", system |-> s, due |-> now + d,
                                             id |-> made']]
                ELSE command
  /\ UNCHANGED <<now, timers, frameVars, averageVars>>

(* A command that waits stops whatever session its system has by then.         *)
stop_profiling(s) == s \in DOMAIN sessions /\ sessions' = Without(sessions, s)

Answers(c) ==
  /\ command[c].at = "waits" /\ now >= command[c].due /\ command' = [command EXCEPT ![c] = NoCommand]
  /\ \/ stop_profiling(command[c].system)
     \/ command[c].system \notin DOMAIN sessions /\ UNCHANGED sessions
  /\ UNCHANGED <<now, made, timers, frameVars, averageVars>>

(* The task of a command is dropped while it waits.                            *)
Dropped(c) ==
  /\ command[c].at = "waits" /\ command' = [command EXCEPT ![c] = NoCommand]
  /\ UNCHANGED <<now, sessions, made, timers, frameVars, averageVars>>

(* The profiler's own command schedules a stop for every duration.             *)
process_command(s, d) ==
  /\ d # None /\ start_profiling(s, d)
  /\ timers' = timers \cup {[system |-> s, due |-> now + d, id |-> made']}
  /\ UNCHANGED <<now, command, frameVars, averageVars>>

TimerFires(t) ==
  /\ t \in timers /\ now >= t.due /\ timers' = timers \ {t}
  /\ \/ stop_profiling(t.system)
     \/ t.system \notin DOMAIN sessions /\ UNCHANGED sessions
  /\ UNCHANGED <<now, made, command, frameVars, averageVars>>

StopCommand(s) ==
  /\ stop_profiling(s) /\ UNCHANGED <<now, made, command, timers, frameVars, averageVars>>

-----------------------------------------------------------------------------
(* A sample of a session is compared with the average before it is part of it. *)
check_anomaly(time) ==
  anomalies' = IF window # << >> /\ 2 * time * Len(window) > 3 * sum /\ sum > 0
               THEN anomalies + 1 ELSE anomalies

(* Mutant: a value that leaves the window stays in the sum.                    *)
add_value_only_adds(time) ==
  LET full == Len(window) = Window
  IN  /\ window' = IF full THEN Append(Tail(window), time) ELSE Append(window, time)
      /\ sum' = sum + time
add_value(time) ==
  LET full == Len(window) = Window
  IN  /\ window' = IF full THEN Append(Tail(window), time) ELSE Append(window, time)
      /\ sum' = sum + time - IF full THEN Head(window) ELSE 0

(* The frame that is current, or a new one when that is older than a frame.    *)
(* Mutant: a full history refuses the new frame and the times go to the last.  *)
update_frame_history_full(s, time) ==
  LET fresh == frames = << >> \/ now > frames[Len(frames)].start
      new == [number |-> current_frame + 1, start |-> now, times |-> << >>]
      grown == IF ~fresh \/ Len(frames) = MaxFrames THEN frames ELSE Append(frames, new)
      last == grown[Len(grown)]
      times == [x \in DOMAIN last.times \cup {s} |-> IF x = s THEN time ELSE last.times[x]]
  IN  /\ frames' = [grown EXCEPT ![Len(grown)].times = times]
      /\ current_frame' = IF fresh THEN current_frame + 1 ELSE current_frame
update_frame_history(s, time) ==
  LET fresh == frames = << >> \/ now > frames[Len(frames)].start
      new == [number |-> current_frame + 1, start |-> now, times |-> << >>]
      grown == IF ~fresh THEN frames ELSE IF Len(frames) = MaxFrames
               THEN Append(Tail(frames), new) ELSE Append(frames, new)
      last == grown[Len(grown)]
      times == [x \in DOMAIN last.times \cup {s} |-> IF x = s THEN time ELSE last.times[x]]
  IN  /\ frames' = [grown EXCEPT ![Len(grown)].times = times]
      /\ current_frame' = IF fresh THEN current_frame + 1 ELSE current_frame

(* A sample after the end of its session is ignored, one without a session is  *)
(* only entered in the frame.                                                  *)
collect_sample(s, time) ==
  /\ samples < MaxSamples /\ samples' = samples + 1
  /\ \/ /\ s \notin DOMAIN sessions
        /\ update_frame_history(s, time) /\ UNCHANGED <<sessions, averageVars>>
     \/ /\ s \in DOMAIN sessions /\ now - sessions[s].started > sessions[s].duration
        /\ UNCHANGED <<frames, current_frame, sessions, averageVars>>
     \/ /\ s \in DOMAIN sessions /\ now - sessions[s].started <= sessions[s].duration
        /\ sessions' = [sessions EXCEPT ![s].samples = Append(@, time)]
        /\ check_anomaly(time) /\ add_value(time) /\ update_frame_history(s, time)
  /\ UNCHANGED <<now, made, command, timers>>

(* The average outlives the data it is of.                                     *)
clear_profiling_data ==
  /\ sessions' = << >> /\ frames' = << >> /\ current_frame' = 0 /\ anomalies' = 0
  /\ UNCHANGED <<now, made, command, timers, samples, window, sum>>

Tick ==
  /\ now < MaxTime /\ now' = now + 1
  /\ UNCHANGED <<sessions, made, command, timers, frameVars, averageVars>>

Next ==
  \/ Tick \/ clear_profiling_data
  \/ \E s \in Systems :
       \/ StopCommand(s) \/ \E time \in Times : collect_sample(s, time)
       \/ \E d \in Durations : process_command(s, d) \/ \E c \in Callers : ProfileSystem(c, s, d)
  \/ \E c \in Callers : Answers(c) \/ Dropped(c)
  \/ \E t \in timers : TimerFires(t)

Spec == Init /\ [][Next]_profilerVars
FairSpec ==
  /\ Spec /\ WF_profilerVars(Tick) /\ WF_profilerVars(\E t \in timers : TimerFires(t))
  /\ WF_profilerVars(\E c \in Callers : Answers(c))

-----------------------------------------------------------------------------
TypeOK ==
  /\ DOMAIN sessions \subseteq Systems /\ Cardinality(DOMAIN sessions) <= MaxConcurrent
  /\ Len(frames) <= MaxFrames /\ Len(window) <= Window /\ sum \in Nat
  /\ \A c \in Callers : command[c].at \in {"idle", "waits"}

(* The average is of the latest times: its sum is kept as the window moves.    *)
SumOfWindow == sum = FoldSeq(LAMBDA x, y : x + y, 0, window)

(* The frames that are kept are numbered in the order they were made, without  *)
(* a gap, up to the current one, through every trimming and clearing.          *)
FramesAreConsecutive ==
  \A i \in DOMAIN frames : frames[i].number + Len(frames) = current_frame + i

(* tests/system_profiler_integration_tests.rs:572: when its duration is over a *)
(* "Profile should have been auto-stopped".                                    *)
AutoStopped ==
  \A s \in Systems, i \in 1..MaxSessions :
    (s \in DOMAIN sessions /\ sessions[s].id = i) ~> ~(s \in DOMAIN sessions /\ sessions[s].id = i)
=============================================================================
