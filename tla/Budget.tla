------------------------------- MODULE Budget -------------------------------
(* The performance budget monitor (performance_budget.rs) and the processor    *)
(* that checks it every 100 ms (performance_budget_processor.rs).  "frame"     *)
(* stands for the built-in metrics, which a platform may override; the other   *)
(* metrics are the times of systems.  Metrics are what the game happens to do. *)
EXTENDS Integers, Sequences, FiniteSets, SequencesExt

CONSTANTS
  Systems,      \* the systems that have a budget
  Limit,        \* values of a metric are in 0..Limit, budgets too
  Override,     \* the platform's budget for the frame, or None
  MaxViolations,\* MAX_VIOLATION_HISTORY
  MaxSamples,   \* MAX_COMPLIANCE_SAMPLES
  MaxTime, MaxChecks, \* bounds on the clock and on the checks
  None

BudgetAssumption ==
  MaxViolations > 0 /\ MaxSamples > 0 /\ Limit \in Nat /\ IsFiniteSet(Systems)

Metrics == {"frame"} \cup Systems

BudgetConfig == [Metrics -> 0..Limit]
BudgetViolation == [metric : Metrics, actual : 0..Limit, at : Nat, duration : Nat,
                    severity : {"warning", "minor", "major", "critical"}]
MonitoringState == [continuous : BOOLEAN, recent : Nat, consecutive : Nat]

VARIABLES
  now,
  config,             \* [metric -> budget]
  monitoring_active, active_violations, violation_history, compliance_samples, stats,
  task,               \* the checking task: "none", "tick", "handle"
  found,              \* what its last check found
  state,              \* MonitoringState: [continuous, recent, consecutive]
  report              \* the last compliance report: [compliant, violations]

monitorVars == <<config, monitoring_active, active_violations, violation_history,
                 compliance_samples, stats>>
budgetVars == <<now, monitorVars, task, found, state, report>>

Init ==
  /\ now = 0 /\ config \in BudgetConfig /\ monitoring_active = FALSE
  /\ active_violations = << >> /\ violation_history = << >> /\ compliance_samples = << >>
  /\ stats = [violations |-> 0, samples |-> 0] /\ task = "none" /\ found = {}
  /\ state = [continuous |-> FALSE, recent |-> 0, consecutive |-> 0] /\ report = None

-----------------------------------------------------------------------------
apply_platform_overrides(c) ==
  IF Override = None THEN c ELSE [c EXCEPT !["frame"] = Override]

(* All the systems have one key: it is the variant of the metric.              *)
Key(m) == IF m \in Systems THEN "system" ELSE m

(* How far over: a budget of nothing is exceeded without limit.                *)
from_violation_percent(actual, budget) ==
  CASE 4 * (actual - budget) <= budget -> "warning"
    [] 2 * (actual - budget) <= budget -> "minor"
    [] actual - budget <= budget -> "major"
    [] OTHER -> "critical"

create_violation(m, values, budgets) ==
  [metric |-> m, actual |-> values[m], severity |-> from_violation_percent(values[m], budgets[m]),
   at |-> now, duration |-> IF Key(m) \in DOMAIN active_violations
                            THEN now - active_violations[Key(m)] ELSE 0]

Violations(values) ==
  LET budgets == apply_platform_overrides(config)
  IN  {create_violation(m, values, budgets) : m \in {m \in Metrics : values[m] > budgets[m]}}

Latest(seq, n) == IF Len(seq) <= n THEN seq ELSE SubSeq(seq, Len(seq) - n + 1, Len(seq))

update_statistics(found_now) ==
  stats' = [violations |-> stats.violations + found_now, samples |-> stats.samples + 1]

(* The whole check is made under the lock (`over` is only kept for properties).*)
(* What began is never ended: a metric that is back within its budget stays    *)
(* among the active violations.                                                *)
check_violations(values) ==
  LET new == Violations(values)
      keys == {Key(v.metric) : v \in new}
  IN  /\ compliance_samples' = Latest(Append(compliance_samples,
                                             [at |-> now, values |-> values, over |-> {v.metric : v \in new}]),
                                      MaxSamples)
      /\ violation_history' = Latest(violation_history \o SetToSeq(new), MaxViolations)
      /\ active_violations' = [k \in keys \cup DOMAIN active_violations |->
           IF k \in DOMAIN active_violations THEN active_violations[k] ELSE now]
      /\ update_statistics(Cardinality(new))
      /\ UNCHANGED <<config, monitoring_active>>

Samples == [Metrics -> 0..Limit]

-----------------------------------------------------------------------------
Tick ==
  /\ now < MaxTime /\ now' = now + 1
  /\ UNCHANGED <<monitorVars, task, found, state, report>>

(* Both start and stop are made under the lock of the handle; a task that is   *)
(* there makes a start do nothing, and without one the monitor refuses to stop.*)
start_continuous_monitoring ==
  /\ task = "none" /\ task' = "tick" /\ monitoring_active' = TRUE
  /\ state' = [state EXCEPT !.continuous = TRUE]
  /\ UNCHANGED <<now, config, active_violations, violation_history, compliance_samples, stats,
                 found, report>>

stop_continuous_monitoring ==
  /\ task # "none" /\ task' = "none" /\ found' = {} /\ monitoring_active' = FALSE
  /\ state' = [state EXCEPT !.continuous = FALSE]
  /\ UNCHANGED <<now, config, active_violations, violation_history, compliance_samples, stats,
                 report>>

TaskChecks ==
  /\ task = "tick" /\ task' = "handle" /\ stats.samples < MaxChecks
  /\ \E values \in Samples : check_violations(values) /\ found' = Violations(values)
  /\ UNCHANGED <<now, state, report>>

(* Mutant: the number of all violations so far is added, not of the new ones.  *)
handle_violations_adds_total ==
  /\ task = "handle" /\ task' = "tick" /\ found' = {}
  /\ state' = [state EXCEPT !.recent = @ + stats.violations,
                            !.consecutive = IF found = {} THEN 0 ELSE @ + 1]
  /\ UNCHANGED <<now, monitorVars, report>>
handle_violations ==
  /\ task = "handle" /\ task' = "tick" /\ found' = {}
  /\ state' = [state EXCEPT !.recent = @ + Cardinality(found),
                            !.consecutive = IF found = {} THEN 0 ELSE @ + 1]
  /\ UNCHANGED <<now, monitorVars, report>>

(* The command CheckBudgetViolations; without monitoring it finds nothing.     *)
CheckCommand ==
  /\ monitoring_active /\ stats.samples < MaxChecks
  /\ \E values \in Samples : check_violations(values)
  /\ UNCHANGED <<now, task, found, state, report>>

update_config ==
  /\ config' \in BudgetConfig
  /\ UNCHANGED <<now, monitoring_active, active_violations, violation_history,
                 compliance_samples, stats, task, found, state, report>>

clear_violation_history ==
  /\ violation_history' = << >> /\ active_violations' = << >>
  /\ UNCHANGED <<now, config, monitoring_active, compliance_samples, stats, task, found,
                 state, report>>

(* The report is of the built-in metrics, and against the budgets as they were *)
(* set, without the platform's.                                                *)
generate_compliance_report ==
  /\ compliance_samples # << >>
  /\ LET over == {i \in DOMAIN compliance_samples :
                    compliance_samples[i].values["frame"] > config["frame"]}
     IN  report' = [compliant |-> Len(compliance_samples) - Cardinality(over),
                    violations |-> Cardinality(over)]
  /\ UNCHANGED <<now, monitorVars, task, found, state>>

(* The commands that change something; a request for recommendations makes a   *)
(* report as well.                                                             *)
process ==
  \/ start_continuous_monitoring \/ stop_continuous_monitoring \/ CheckCommand
  \/ update_config \/ clear_violation_history \/ generate_compliance_report

Next == Tick \/ TaskChecks \/ handle_violations \/ process

Spec == Init /\ [][Next]_budgetVars

-----------------------------------------------------------------------------
TypeOK ==
  /\ Len(violation_history) <= MaxViolations /\ Len(compliance_samples) <= MaxSamples
  /\ task \in {"none", "tick", "handle"} /\ (task = "none" <=> ~monitoring_active)
  /\ state \in MonitoringState /\ state.continuous = monitoring_active
  /\ \A i \in DOMAIN violation_history : violation_history[i] \in BudgetViolation

(* The task that counts violations can be stopped after a check and before it  *)
(* counts, and commands check as well: what it has counted, with what its      *)
(* check has found, is at most what the monitor has detected.                  *)
RecentWithinTotal == state.recent + Cardinality(found) <= stats.violations

(* performance_budget.rs:201 and 337: a violation has the "Duration of         *)
(* violation" from the "violation start time" of its metric: the metric was    *)
(* over its budget for as long.                                                *)
DurationIsOfViolation ==
  \A i \in DOMAIN violation_history, j \in DOMAIN compliance_samples :
    LET v == violation_history[i] IN
      (compliance_samples[j].at < v.at /\ compliance_samples[j].at >= v.at - v.duration)
        => v.metric \in compliance_samples[j].over
=============================================================================
