----------------------------- MODULE Hypotheses -----------------------------
(* The TestRunner of hypothesis_system.rs, as tools/hypothesis.rs calls it:    *)
(* the variations of a list of actions are run one after the other, a success  *)
(* condition is evaluated after each, and the counts decide a verdict.  A rate *)
(* is a percentage.                                                            *)
EXTENDS Naturals, Sequences, SequencesExt, FiniteSets, FiniteSetsExt

CONSTANTS
  Iterations,   \* the numbers of iterations a request may ask for
  Thresholds,   \* the thresholds of a confirmation, in percent
  MaxExamples,  \* how many failures are kept as examples
  MaxEntities   \* bound on the entities that are spawned

HypothesesAssumption ==
  /\ Iterations \cup Thresholds \cup {MaxExamples, MaxEntities} \subseteq Nat
  /\ Iterations # {} /\ IsFiniteSet(Iterations)

(* What the success condition may be: the checks of entities and components    *)
(* are not implemented and hold always; a measurement compares a constant of   *)
(* the program with the bound in the request.                                  *)
Assertions ==
  LET leaf == {[type |-> "entity_exists"], [type |-> "action_succeeds"]}
                \cup [type : {"performance_within"}, holds : BOOLEAN]
  IN leaf \cup [type : {"not"}, of : leaf]
          \cup [type : {"all", "any"}, of : UNION {[1..n -> leaf] : n \in 0..2}]

(* The outcomes an evaluation can have, "error" being one.  The next of a list *)
(* is evaluated only while it matters.                                         *)
Outcomes[a \in Assertions] ==
  CASE a.type = "entity_exists" -> {TRUE}
    [] a.type = "performance_within" -> {a.holds}
    [] a.type = "action_succeeds" -> {TRUE, FALSE}
    [] a.type = "not" -> {~x : x \in Outcomes[a.of]}
    [] a.type = "all" /\ a.of # << >> ->
         LET first == Outcomes[Head(a.of)]
         IN (first \cap {FALSE}) \cup
            IF TRUE \in first THEN Outcomes[[a EXCEPT !.of = Tail(@)]] ELSE {}
    [] a.type = "any" /\ a.of # << >> ->
         LET first == Outcomes[Head(a.of)]
         IN (first \cap {TRUE}) \cup
            IF FALSE \in first THEN Outcomes[[a EXCEPT !.of = Tail(@)]] ELSE {}
    [] OTHER -> {a.type = "all"}

HasAction[a \in Assertions] ==
  \/ a.type = "action_succeeds"
  \/ a.type = "not" /\ HasAction[a.of]
  \/ a.type \in {"all", "any"} /\ \E i \in DOMAIN a.of : HasAction[a.of[i]]

-----------------------------------------------------------------------------
(* A grid is as large as its three lists make it, and one of them may be       *)
(* empty; the boundary values come in three optional groups and a fixed one.   *)
VariationStrategy ==
  [type : {"none", "random"}] \cup [type : {"grid"}, numbers : 0..1, strings : 0..1, bools : 0..2]
  \cup [type : {"boundary"}, zero : BOOLEAN, negative : BOOLEAN, max : BOOLEAN]
  \cup [type : {"fuzz"}, max_mutations : 0..1]

(* What a request is parsed to: some lists of a grid are never empty.          *)
Strategies ==
  {s \in VariationStrategy : s.type = "grid" => s.strings # 0 /\ s.bools # 0}

get_boundary_values(s) ==
  4 + (IF s.zero THEN 3 ELSE 0) + (IF s.negative THEN 4 ELSE 0) + (IF s.max THEN 3 ELSE 0)

generate_variations(s, count) ==
  CASE s.type = "none" -> 1
    [] s.type = "grid" -> Min({count, s.numbers * s.strings * s.bools})
    [] s.type = "boundary" -> Min({count, get_boundary_values(s)})
    [] OTHER -> count

(* Drawing from an empty range panics.                                         *)
Panics(s, count) == s.type = "fuzz" /\ s.max_mutations = 0 /\ count > 0

(* The entity an action is about after it is varied: fuzzing changes the one a *)
(* delete names to any.                                                        *)
Entities == 1..MaxEntities
Named(s, entity) == IF s.type = "fuzz" THEN Entities ELSE {entity}

-----------------------------------------------------------------------------
VARIABLES
  test,         \* {} or {the hypothesis that is tested}
  outcomes,     \* what came of each variation so far: "failed", "met" or "unmet"
  successes,
  failures,
  examples,     \* failure_examples, as their iterations
  edge_cases,
  verdict,      \* what the last request was answered
  alive,        \* the entities of the game
  made

hypothesisVars ==
  <<test, outcomes, successes, failures, examples, edge_cases, verdict, alive, made>>

Init ==
  /\ test = {} /\ outcomes = << >> /\ successes = 0 /\ failures = 0 /\ examples = << >>
  /\ edge_cases = << >> /\ verdict = "none" /\ alive = {} /\ made = 0

Hypothesis(s, n, condition, threshold) ==
  [strategy |-> s, condition |-> condition, threshold |-> threshold,
   count |-> generate_variations(s, n), panics |-> Panics(s, n)]

(* A request that cannot be parsed, or a client that is not connected, ends    *)
(* without a test.                                                             *)
Tests(strategies, iterations) ==
  /\ test = {}
  /\ \E s \in strategies, n \in iterations, condition \in Assertions, t \in Thresholds :
       test' = {Hypothesis(s, n, condition, t)}
  /\ outcomes' = << >> /\ successes' = 0 /\ failures' = 0 /\ examples' = << >>
  /\ edge_cases' = << >> /\ verdict' = "none" /\ UNCHANGED <<alive, made>>

handle_test == Tests(Strategies, Iterations)

(* Few iterations, and many that fuzz at least once.                           *)
handle_quick_test == Tests(Strategies, {Min(Iterations)})
handle_stress_test ==
  Tests([type : {"fuzz"}, max_mutations : {1}], {Max(Iterations)})

Panicked ==
  /\ \E t \in test : t.panics
  /\ test' = {} /\ verdict' = "panic"
  /\ UNCHANGED <<outcomes, successes, failures, examples, edge_cases, alive, made>>

Remaining(t) == ~t.panics /\ Len(outcomes) < t.count

(* What a variation's actions do to the game: they may spawn, also when the    *)
(* answer is late and counts as a failure, and delete; nothing is undone.      *)
Acts(t) ==
  \/ UNCHANGED <<alive, made>>
  \/ made < MaxEntities /\ made' = made + 1 /\ alive' = alive \cup {made'}
  \/ \E e \in Named(t.strategy, 1) : alive' = alive \ {e} /\ UNCHANGED made

Example(i) == IF Len(examples) < MaxExamples THEN Append(examples, i) ELSE examples

(* Mutant: a failed variation is counted and then evaluated as well.           *)
VariationFails_goes_on ==
  /\ \E t \in test : Remaining(t) /\ Acts(t)
  /\ outcomes' = Append(outcomes, "failed")
  /\ failures' = failures + 1 /\ examples' = Example(Len(outcomes))
  /\ successes' = successes + 1
  /\ UNCHANGED <<test, edge_cases, verdict>>

(* An action fails, is an error or takes too long: the condition is not asked. *)
VariationFails ==
  /\ \E t \in test : Remaining(t) /\ Acts(t)
  /\ outcomes' = Append(outcomes, "failed")
  /\ failures' = failures + 1 /\ examples' = Example(Len(outcomes))
  /\ UNCHANGED <<test, successes, edge_cases, verdict>>

(* A variation whose condition is not met, or that took more than a second, is *)
(* an edge case.                                                               *)
VariationEvaluated ==
  /\ \E t \in test, met, slow \in BOOLEAN :
       /\ Remaining(t) /\ Acts(t)
       /\ met \in Outcomes[t.condition]
       /\ outcomes' = Append(outcomes, IF met THEN "met" ELSE "unmet")
       /\ IF met THEN successes' = successes + 1 /\ UNCHANGED <<failures, examples>>
          ELSE /\ failures' = failures + 1 /\ examples' = Example(Len(outcomes))
               /\ UNCHANGED successes
       /\ edge_cases' = IF slow \/ ~met THEN Append(edge_cases, Len(outcomes)) ELSE edge_cases
  /\ UNCHANGED <<test, verdict>>

(* An error in the condition ends the test: what was counted is lost.          *)
ConditionErrs ==
  /\ \E t \in test : Remaining(t) /\ HasAction[t.condition] /\ Acts(t)
  /\ test' = {} /\ verdict' = "error"
  /\ UNCHANGED <<outcomes, successes, failures, examples, edge_cases>>

Total == successes + failures
AtLeast(percent) == 100 * successes >= percent * Total

(* The rate of a test without variations is 0.                                 *)
Verdict(threshold) ==
  IF Total = 0 THEN IF threshold = 0 THEN "CONFIRMED" ELSE "REJECTED"
  ELSE IF AtLeast(threshold) THEN "CONFIRMED"
  ELSE IF ~AtLeast(5) THEN "REJECTED" ELSE "INCONCLUSIVE"

TestEnds ==
  /\ \E t \in test : ~t.panics /\ ~Remaining(t) /\ verdict' = Verdict(t.threshold)
  /\ test' = {}
  /\ UNCHANGED <<outcomes, successes, failures, examples, edge_cases, alive, made>>

Next ==
  \/ handle_test \/ handle_quick_test \/ handle_stress_test \/ Panicked \/ VariationFails \/ VariationEvaluated
  \/ ConditionErrs \/ TestEnds

Spec == Init /\ [][Next]_hypothesisVars

-----------------------------------------------------------------------------
TypeOK ==
  /\ Cardinality(test) <= 1 /\ successes \in Nat /\ failures \in Nat
  /\ outcomes \in Seq({"failed", "met", "unmet"}) /\ alive \subseteq 1..made
  /\ \A t \in test : Len(outcomes) <= t.count

(* The counts, the examples and the edge cases all tell of the same run: each  *)
(* variation is counted once, as what came of it, the examples are the first   *)
(* that failed, in order, and every variation whose condition was evaluated    *)
(* and not met is an edge case.                                                *)
CountsTellTheRun ==
  LET At(what) == {i \in DOMAIN outcomes : outcomes[i] \in what} IN
  /\ successes = Cardinality(At({"met"}))
  /\ failures = Cardinality(At({"failed", "unmet"}))
  /\ LET failed == At({"failed", "unmet"})
     IN /\ IsInjective(examples)
        /\ {x + 1 : x \in Range(examples)}
             = {i \in failed : Cardinality({j \in failed : j < i}) < MaxExamples}
  /\ \A i \in At({"unmet"}) : i - 1 \in Range(edge_cases)
=============================================================================
