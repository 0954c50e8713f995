------------------------------- MODULE Issues -------------------------------
(* The issue detector (issue_detector.rs) and the task of its processor that   *)
(* looks for issues (issue_detector_processor.rs).  What a check of the game   *)
(* shows is a choice: the memory grows or not, a frame is slow or not.  A      *)
(* detection can also be triggered by hand, while the task makes its own.      *)
EXTENDS Naturals, Sequences

CONSTANTS
  Patterns,     \* issues, by their pattern_id
  Checks,       \* <<pattern, ..>>: what perform_detection_checks looks for
  Triggers,     \* tasks that call trigger_detection
  MaxStarts,    \* bound on the starts: each has a task of its own
  Throttle,     \* default_throttle_duration
  MaxHistory,   \* max_alert_history
  MaxTime, MaxAlerts, \* bounds on the clock and the alerts
  None

IssuesAssumption ==
  /\ MaxHistory \in Nat \ {0} /\ Throttle \in Nat \ {0} /\ MaxStarts \in Nat
  /\ Checks \in Seq(Patterns) /\ None \notin Nat

Tasks == 1..MaxStarts
Detectors == Tasks \cup Triggers

IssueAlert == [id : 1..MaxAlerts, pattern : Patterns, at : Nat, from : Nat,
               throttled : Nat \cup {None}, acknowledged : BOOLEAN]

VARIABLES
  now,
  rules,        \* [pattern -> enabled, with a sensitivity above zero]
  alert_history, throttle_map,
  stats,        \* stats: how many issues were detected
  detect,       \* [detector -> its detect_issue: [at, pattern, from, id]]
  alerts,       \* how many alerts there were
  starts,       \* how many tasks were started
  handle,       \* the task of monitoring_handle, or None
  stopping,     \* the task that stop waits for under the lock of the handle
  signalled,    \* tasks that were told to end
  task,         \* [task -> "none", "tick", "check", "done"]
  checking,     \* who holds detection_state for its checks, or None
  position,     \* the check that it is at
  monitoring_active

detectorVars == <<rules, alert_history, throttle_map, stats, detect, alerts>>
taskVars == <<starts, handle, stopping, signalled, task, checking, position,
              monitoring_active>>
issueVars == <<now, detectorVars, taskVars>>

NoDetection == [at |-> "idle", pattern |-> None, from |-> 0, id |-> 0]

Init ==
  /\ now = 0 /\ rules \in [Patterns -> BOOLEAN] /\ alert_history = << >> /\ throttle_map = << >>
  /\ stats = 0
  /\ detect = [d \in Detectors |-> NoDetection] /\ alerts = 0
  /\ starts = 0 /\ handle = None /\ stopping = None /\ signalled = {}
  /\ task = [t \in Tasks |-> "none"] /\ checking = None /\ position = 1 /\ monitoring_active = FALSE

Tick == now < MaxTime /\ now' = now + 1 /\ UNCHANGED <<detectorVars, taskVars>>

-----------------------------------------------------------------------------
(* detect_issue, one step for each lock it takes.                              *)
Throttled(p) == p \in DOMAIN throttle_map /\ now - throttle_map[p] < Throttle

Detects(d, p) ==
  /\ detect[d].at = "idle" /\ ~Throttled(p)
  /\ detect' = [detect EXCEPT ![d] = [at |-> "criteria", pattern |-> p, from |-> now, id |-> 0]]

check_detection_criteria(d) ==
  /\ detect[d].at = "criteria"
  /\ detect' = [detect EXCEPT ![d].at = IF rules[detect[d].pattern] THEN "record" ELSE "idle"]
  /\ UNCHANGED <<now, rules, alert_history, throttle_map, stats, alerts, taskVars>>

Latest(seq) == IF Len(seq) <= MaxHistory THEN seq ELSE Tail(seq)

record_alert(d) ==
  /\ detect[d].at = "record" /\ alerts < MaxAlerts /\ alerts' = alerts + 1
  /\ alert_history' = Latest(Append(alert_history,
       [id |-> alerts', pattern |-> detect[d].pattern, at |-> now, from |-> detect[d].from,
        throttled |-> None, acknowledged |-> FALSE]))
  /\ detect' = [detect EXCEPT ![d].at = "throttle", ![d].id = alerts']
  /\ UNCHANGED <<now, rules, throttle_map, stats, taskVars>>

(* (`throttled` in an alert is kept for the properties.)                       *)
(* Mutant: only the time of an issue that is known is updated.                 *)
UpdateThrottle_known(d) ==
  /\ detect[d].at = "throttle" /\ detect' = [detect EXCEPT ![d].at = "count"]
  /\ throttle_map' = [p \in DOMAIN throttle_map |->
                        IF p = detect[d].pattern THEN now ELSE throttle_map[p]]
  /\ alert_history' = [i \in DOMAIN alert_history |->
       IF alert_history[i].id = detect[d].id THEN [alert_history[i] EXCEPT !.throttled = now]
       ELSE alert_history[i]]
  /\ UNCHANGED <<now, rules, stats, alerts, taskVars>>
UpdateThrottle(d) ==
  /\ detect[d].at = "throttle" /\ detect' = [detect EXCEPT ![d].at = "count"]
  /\ throttle_map' = [p \in DOMAIN throttle_map \cup {detect[d].pattern} |->
                        IF p = detect[d].pattern THEN now ELSE throttle_map[p]]
  /\ alert_history' = [i \in DOMAIN alert_history |->
       IF alert_history[i].id = detect[d].id THEN [alert_history[i] EXCEPT !.throttled = now]
       ELSE alert_history[i]]
  /\ UNCHANGED <<now, rules, stats, alerts, taskVars>>

CountDetected(d) ==
  /\ detect[d].at = "count" /\ detect' = [detect EXCEPT ![d] = NoDetection]
  /\ stats' = stats + 1
  /\ UNCHANGED <<now, rules, alert_history, throttle_map, alerts, taskVars>>

detect_issue(d) ==
  check_detection_criteria(d) \/ record_alert(d) \/ UpdateThrottle(d) \/ CountDetected(d)

trigger_detection(d, p) == Detects(d, p) /\ UNCHANGED <<now, rules, alert_history, throttle_map,
                                                        stats, alerts, taskVars>>

-----------------------------------------------------------------------------
(* The other commands.  A report of a false positive also counts it, which     *)
(* nothing depends on; clearing the history leaves the throttling.             *)
update_rule(p) ==
  /\ rules' = [rules EXCEPT ![p] = ~@]
  /\ UNCHANGED <<now, alert_history, throttle_map, stats, detect, alerts, taskVars>>

Acknowledged(id) ==
  alert_history' = [i \in DOMAIN alert_history |->
    IF alert_history[i].id = id THEN [alert_history[i] EXCEPT !.acknowledged = TRUE]
    ELSE alert_history[i]]

acknowledge_alert(id) ==
  /\ Acknowledged(id)
  /\ UNCHANGED <<now, rules, throttle_map, stats, detect, alerts, taskVars>>

report_false_positive(id) ==
  /\ Acknowledged(id)
  /\ UNCHANGED <<now, rules, throttle_map, stats, detect, alerts, taskVars>>

clear_history ==
  /\ alert_history' = << >>
  /\ UNCHANGED <<now, rules, throttle_map, stats, detect, alerts, taskVars>>

-----------------------------------------------------------------------------
(* Starting and stopping are made under the lock of the handle.  Stopping      *)
(* tells the task to end and waits for it, for five seconds at most.           *)
start_monitoring ==
  /\ stopping = None /\ handle = None /\ starts < MaxStarts
  /\ starts' = starts + 1 /\ handle' = starts' /\ task' = [task EXCEPT ![starts'] = "tick"]
  /\ monitoring_active' = TRUE
  /\ UNCHANGED <<now, detectorVars, stopping, signalled, checking, position>>

(* Mutant: the task is not told, only forgotten.                               *)
StopSignals_not ==
  /\ stopping = None /\ handle # None /\ stopping' = handle /\ handle' = None
  /\ UNCHANGED <<now, detectorVars, starts, signalled, task, checking, position,
                 monitoring_active>>
StopSignals ==
  /\ stopping = None /\ handle # None /\ stopping' = handle /\ handle' = None
  /\ signalled' = signalled \cup {stopping'}
  /\ UNCHANGED <<now, detectorVars, starts, task, checking, position, monitoring_active>>

StopReturns ==
  /\ stopping # None /\ stopping' = None /\ monitoring_active' = FALSE
  /\ UNCHANGED <<now, detectorVars, starts, handle, signalled, task, checking, position>>

(* The task: at each tick it takes detection_state and makes one check after   *)
(* the other, each of which may call detect_issue; it ends between two ticks.  *)
CheckStarts(t) ==
  /\ task[t] = "tick" /\ checking = None /\ checking' = t /\ position' = 1
  /\ task' = [task EXCEPT ![t] = "check"]
  /\ UNCHANGED <<now, detectorVars, starts, handle, stopping, signalled, monitoring_active>>

perform_detection_check(t) ==
  /\ checking = t /\ position \in DOMAIN Checks /\ detect[t].at = "idle"
  /\ position' = position + 1 /\ (UNCHANGED detect \/ Detects(t, Checks[position]))
  /\ UNCHANGED <<now, rules, alert_history, throttle_map, stats, alerts, starts, handle,
                 stopping, signalled, task, checking, monitoring_active>>

CheckEnds(t) ==
  /\ checking = t /\ position = Len(Checks) + 1 /\ detect[t].at = "idle"
  /\ checking' = None /\ task' = [task EXCEPT ![t] = "tick"]
  /\ UNCHANGED <<now, detectorVars, starts, handle, stopping, signalled, position,
                 monitoring_active>>

TaskEnds(t) ==
  /\ task[t] = "tick" /\ t \in signalled /\ task' = [task EXCEPT ![t] = "done"]
  /\ UNCHANGED <<now, detectorVars, starts, handle, stopping, signalled, checking,
                 position, monitoring_active>>

process ==
  \/ start_monitoring \/ StopSignals \/ StopReturns \/ clear_history
  \/ \E p \in Patterns : update_rule(p)
  \/ \E id \in 1..MaxAlerts : acknowledge_alert(id) \/ report_false_positive(id)

Next ==
  \/ Tick \/ process
  \/ \E d \in Triggers, p \in Patterns : trigger_detection(d, p)
  \/ \E d \in Detectors : detect_issue(d)
  \/ \E t \in Tasks : \/ CheckStarts(t) \/ perform_detection_check(t) \/ CheckEnds(t)
                      \/ TaskEnds(t)

Spec == Init /\ [][Next]_issueVars

-----------------------------------------------------------------------------
TypeOK ==
  /\ Len(alert_history) <= MaxHistory /\ stats <= alerts
  /\ \A i \in DOMAIN alert_history : alert_history[i] \in IssueAlert
  /\ DOMAIN throttle_map \subseteq Patterns /\ handle \in Tasks \cup {None}
  /\ \A d \in Detectors : detect[d].at \in {"idle", "criteria", "record", "throttle", "count"}

(* Two alerts of one issue are apart by the throttling, whoever detected it,   *)
(* unless the second detection was already past its look at the throttling     *)
(* when the first was entered there.                                           *)
ApartUnlessOverlapping ==
  \A i, j \in DOMAIN alert_history :
    LET a == alert_history[i]
        b == alert_history[j]
    IN  i < j /\ a.pattern = b.pattern /\ a.throttled # None =>
          b.from >= a.throttled + Throttle \/ b.from <= a.throttled

(* Once stop has returned nothing is left that looks for issues on and on: a   *)
(* task that is not the current one was told to end, though it may not have    *)
(* got there.                                                                  *)
OthersWereTold ==
  /\ stopping = None => (monitoring_active <=> handle # None)
  /\ \A t \in Tasks : task[t] \notin {"none", "done"} => t = handle \/ t \in signalled

(* tests/issue_detection_integration_tests.rs:214: "Immediate second detection *)
(* should be throttled".                                                       *)
SecondIsThrottled ==
  \A i, j \in DOMAIN alert_history :
    i < j /\ alert_history[i].pattern = alert_history[j].pattern =>
      alert_history[j].at >= alert_history[i].at + Throttle
=============================================================================
