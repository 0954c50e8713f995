----------------------------- MODULE Anomalies ------------------------------
(* Anomaly detection (tools/anomaly.rs, anomaly_detector.rs): a request lists  *)
(* the entities of the game and runs the detectors on the list: velocities     *)
(* that are outliers of their entity's history, a count of entities that       *)
(* grows, and entities that are alive without health.                          *)
EXTENDS Integers, Sequences, FiniteSets, FiniteSetsExt

CONSTANTS
  Callers,
  Entities,
  Speeds,       \* velocity magnitudes
  Windows, MinSamples, \* values of window_size and min_samples
  ZScore,       \* z_score_threshold
  Growth,       \* entity_growth_threshold
  MaxChanges, MaxDetects, MaxConfigures \* bounds on the steps of the game and of the tool

AnomalyAssumption == Windows \cup MinSamples \subseteq Nat \ {0} /\ ZScore \in Nat /\ Growth \in Nat

AnomalyConfig == [window : Windows, min : MinSamples]

VARIABLES
  game,         \* [entity -> speed] of the entities there are
  dead,         \* the entities whose health is used up and that are alive
  config,       \* [window, min]
  listed,       \* [caller -> the list its request got, or << >>]
  speeds,       \* velocity_history: [entity -> [cap, data]]
  counts,       \* entity_counts: [cap, data], data of [count, order of the list]
  found,        \* the anomalies of the latest detection
  monitoring,
  changes, detects, configures

anomalyVars == <<game, dead, config, listed, speeds, counts, found, monitoring,
                 changes, detects, configures>>

Default == [window |-> CHOOSE w \in Windows : \A x \in Windows : w >= x,
            min |-> CHOOSE m \in MinSamples : \A x \in MinSamples : m >= x]

Init ==
  /\ game = << >> /\ dead = {} /\ config = Default /\ listed = [c \in Callers |-> {}]
  /\ speeds = << >> /\ counts = [cap |-> Default.window, data |-> << >>] /\ found = {}
  /\ monitoring = FALSE /\ changes = 0 /\ detects = 0 /\ configures = 0

push(buffer, v) ==
  [buffer EXCEPT !.data = Append(IF Len(@) >= buffer.cap THEN Tail(@) ELSE @, v)]

Total(data) == FoldSet(LAMBDA i, acc : acc + data[i], 0, DOMAIN data)

(* |v - mean| > ZScore * the sample's standard deviation, multiplied out.      *)
is_outlier(data, v) ==
  LET n == Len(data)
      off(x) == (n * x - Total(data)) * (n * x - Total(data))
      spread == FoldSet(LAMBDA i, acc : acc + off(data[i]), 0, DOMAIN data)
  IN  n >= 2 /\ spread > 0 /\ off(v) * (n - 1) > ZScore * ZScore * spread

-----------------------------------------------------------------------------
(* The game: entities come, move and go.                                       *)
GameChanges(entities) ==
  /\ changes < MaxChanges /\ changes' = changes + 1
  /\ game' \in [entities -> Speeds] /\ dead' \in SUBSET entities
  /\ UNCHANGED <<config, listed, speeds, counts, found, monitoring, detects, configures>>

(* The list is read under the client's lock, which is dropped before the       *)
(* detectors' lock is taken.                                                   *)
ListEntities(c) ==
  /\ listed[c] = {} /\ detects < MaxDetects /\ detects' = detects + 1
  /\ listed' = [listed EXCEPT ![c] = {[speed |-> game, dead |-> dead, order |-> detects']}]
  /\ UNCHANGED <<game, dead, config, speeds, counts, found, monitoring, changes, configures>>

PhysicsAnomalies(histories, entities) ==
  {e \in entities : LET d == histories[e].data
                    IN  Len(d) >= config.min /\ is_outlier(d, d[Len(d)])}

(* Mutant: a count that changes by much in either direction is a spike.        *)
EntityCountSpike_any(data) ==
  LET d == data[Len(data)].count - data[1].count
  IN  Len(data) >= config.min /\ (d > Growth * config.window \/ -d > Growth * config.window)
(* The growth is divided by the configured window, however many samples there  *)
(* are.                                                                        *)
EntityCountSpike(data) ==
  Len(data) >= config.min /\ data[Len(data)].count - data[1].count > Growth * config.window

(* An entity that has no health left and is not marked as dead.                *)
check_health_alive_consistency(list) == {"inconsistent"} \X list.dead

detect_anomalies(c) ==
  \E list \in listed[c] :
    LET present == DOMAIN list.speed
        history(e) == IF e \in DOMAIN speeds THEN speeds[e] ELSE [cap |-> config.window, data |-> << >>]
    IN  /\ speeds' = [e \in DOMAIN speeds \cup present |->
              IF e \in present THEN push(history(e), list.speed[e]) ELSE speeds[e]]
        /\ counts' = push(counts, [count |-> Cardinality(present), order |-> list.order])
        /\ found' = ({"physics"} \X PhysicsAnomalies(speeds', present))
                    \cup {<<"spike", 0>> : x \in {y \in {1} : EntityCountSpike(counts'.data)}}
                    \cup check_health_alive_consistency(list)
        /\ listed' = [listed EXCEPT ![c] = {}]
        /\ UNCHANGED <<game, dead, config, monitoring, changes, detects, configures>>

handle_detect == \E c \in Callers : ListEntities(c) \/ detect_anomalies(c)

(* What is not given is set back to its default; the buffers that are there    *)
(* keep the window they were made with.                                        *)
handle_configure(w, m) ==
  /\ configures < MaxConfigures /\ configures' = configures + 1
  /\ config' = [window |-> w, min |-> m]
  /\ UNCHANGED <<game, dead, listed, speeds, counts, found, monitoring, changes, detects>>

(* Monitoring is a flag and nothing else.                                      *)
handle_start_monitoring ==
  /\ ~monitoring /\ monitoring' = TRUE
  /\ UNCHANGED <<game, dead, config, listed, speeds, counts, found, changes, detects, configures>>
handle_stop_monitoring ==
  /\ monitoring /\ monitoring' = FALSE
  /\ UNCHANGED <<game, dead, config, listed, speeds, counts, found, changes, detects, configures>>

handle ==
  \/ handle_detect
  \/ \E w \in Windows, m \in MinSamples :
       (w = Default.window \/ m = Default.min) /\ handle_configure(w, m)
  \/ handle_start_monitoring \/ handle_stop_monitoring

Next == handle \/ \E entities \in SUBSET Entities : GameChanges(entities)

Spec == Init /\ [][Next]_anomalyVars

-----------------------------------------------------------------------------
TypeOK ==
  /\ config \in AnomalyConfig
  /\ Len(counts.data) <= counts.cap /\ \A e \in DOMAIN speeds : Len(speeds[e].data) <= speeds[e].cap

(* anomaly_detector.rs:23, "Entity count growing abnormally": a spike is       *)
(* reported only when the newest of the lists in the window has more entities  *)
(* than one that was made before it.                                           *)
SpikeIsGrowth ==
  LET d == counts.data
      older(i, j) == d[i].order < d[j].order
  IN  <<"spike", 0>> \in found =>
        \E j \in DOMAIN d : /\ \A i \in DOMAIN d : i = j \/ older(i, j)
                            /\ \E i \in DOMAIN d : older(i, j) /\ d[i].count < d[j].count
=============================================================================
