---------------------------- MODULE Suggestions -----------------------------
(* The SuggestionEngine of suggestion_engine.rs for what the state of the game *)
(* calls for; what learned patterns add is in Patterns.  Its templates are     *)
(* filled in by a task of their own, after the engine can be asked.            *)
EXTENDS Naturals, Sequences, SequencesExt, FiniteSetsExt

CONSTANTS
  MaxSuggestions, \* suggestions that are shown
  MaxAnswers      \* bound on the suggestions that are tracked

SuggestionsAssumption == {MaxSuggestions, MaxAnswers} \subseteq Nat

State == [low_fps : BOOLEAN, high_memory : BOOLEAN, many_entities : BOOLEAN, errors : BOOLEAN]

VARIABLES
  state,             \* {} or {the state of the game of the last request}
  templates,         \* whether the templates are there
  suggested,         \* the last suggestions
  suggestion_history \* {} or {[suggested, accepted, successes]} of a suggestion

suggestVars == <<state, templates, suggested, suggestion_history>>

Init == state = {} /\ templates = FALSE /\ suggested = << >> /\ suggestion_history = {}

(* Suggestions are [command, priority, confidence].  The template for what to  *)
(* do after "observe" never applies: no command has that type.                 *)
If(condition, suggestions) == IF condition THEN suggestions ELSE {}
generate_template_suggestions(s) ==
  IF ~templates THEN {}
  ELSE If(s.low_fps, {<<"profile_system --duration 5", 10, 80>>})
       \cup If(s.high_memory, {<<"profile_memory --detect-leaks", 9, 80>>})
generate_context_suggestions(s) ==
  If(s.low_fps, {<<"profile_system", 10, 90>>})
  \cup If(s.high_memory, {<<"profile_memory", 9, 85>>})
  \cup If(s.many_entities, {<<"observe entities --limit 100", 8, 75>>})
  \cup If(s.errors, {<<"detect_issues", 15, 95>>})

Before(a, b) == a[2] > b[2] \/ (a[2] = b[2] /\ a[3] >= b[3])
All(s) == generate_template_suggestions(s) \cup generate_context_suggestions(s)

(* Mutant: they are sorted the other way round.                                *)
Shown_ascending(s) ==
  LET sorted == SetToSortSeq(All(s), LAMBDA a, b : Before(b, a))
  IN SubSeq(sorted, 1, Min({MaxSuggestions, Len(sorted)}))

(* The confidence of each is above the least one that is shown.                *)
Shown(s) ==
  LET sorted == SetToSortSeq(All(s), Before)
  IN SubSeq(sorted, 1, Min({MaxSuggestions, Len(sorted)}))

generate_suggestions ==
  /\ \E s \in State : state' = {s} /\ suggested' = Shown(s)
  /\ UNCHANGED <<templates, suggestion_history>>

TemplatesCreated ==
  /\ ~templates /\ templates' = TRUE
  /\ UNCHANGED <<state, suggested, suggestion_history>>

track_suggestion_acceptance(accepted, success) ==
  /\ suggestion_history' =
       IF suggestion_history = {}
       THEN {[suggested |-> 1, accepted |-> IF accepted THEN 1 ELSE 0,
              successes |-> IF accepted /\ success THEN 1 ELSE 0]}
       ELSE {[suggested |-> h.suggested + 1, accepted |-> h.accepted + IF accepted THEN 1 ELSE 0,
              successes |-> h.successes + IF accepted /\ success THEN 1 ELSE 0] :
               h \in suggestion_history}
  /\ \A h \in suggestion_history : h.suggested < MaxAnswers
  /\ UNCHANGED <<state, templates, suggested>>

(* The requests of the server: the state of the game comes with the first.     *)
handle_get_suggestions == generate_suggestions
handle_track_suggestion ==
  \E accepted, success \in BOOLEAN : track_suggestion_acceptance(accepted, success)

Next == TemplatesCreated \/ handle_get_suggestions \/ handle_track_suggestion

Spec == Init /\ [][Next]_suggestVars

-----------------------------------------------------------------------------
TypeOK ==
  /\ state \subseteq State /\ Len(suggested) <= MaxSuggestions
  /\ \A h \in suggestion_history : h.successes <= h.accepted /\ h.accepted <= h.suggested

(* What is cut off is never more urgent than what is shown: a game with errors *)
(* is first of all told to look for them.                                      *)
MostUrgentShown ==
  \A s \in state :
    /\ \A i \in DOMAIN suggested : \A x \in generate_context_suggestions(s) :
         x \in Range(suggested) \/ Before(suggested[i], x)
    /\ s.errors => suggested[1][1] = "detect_issues"
=============================================================================
