------------------------------ MODULE Patterns ------------------------------
(* The PatternLearningSystem of pattern_learning.rs, and what the             *)
(* SuggestionEngine makes of its patterns.  A command is what is left of it    *)
(* when it has been anonymised.  end_session keeps the sessions locked while   *)
(* it mines, so each operation is one action.                                  *)
EXTENDS Naturals, Sequences, SequencesExt, FiniteSets, FiniteSetsExt

CONSTANTS
  Commands,     \* the anonymised commands
  Sessions,     \* the ids of debug sessions
  KAnonymity,   \* sessions that are mined together
  MinFrequency, \* min_support of the miner
  MaxLength,    \* commands that are kept of a session, and of a pattern
  MaxPatterns,  \* patterns that are kept
  MaxBatches    \* bound on how often the sessions are mined

PatternsAssumption ==
  /\ {KAnonymity, MinFrequency, MaxLength} \subseteq Nat \ {0} /\ MaxPatterns \in Nat

VARIABLES
  active_sessions,    \* [id -> its commands], for the ids that are active
  session_buffer,     \* the sessions that wait to be mined
  patterns,           \* [sequence -> [frequency, successes]]
  mined,              \* history: the sessions that were mined, batch by batch
  exported            \* {} or {what export_patterns gave last}

patternVars == <<active_sessions, session_buffer, patterns, mined, exported>>

Init ==
  /\ active_sessions = << >> /\ session_buffer = << >> /\ patterns = << >> /\ mined = << >>
  /\ exported = {}

-----------------------------------------------------------------------------
(* The miner.  A command is frequent if it occurs often enough in all sessions *)
(* together, also when one of them repeats it; a pattern grows by the commands *)
(* that follow its first occurrence in enough sessions.                        *)
Occurrences(cmd, seqs) ==
  Cardinality({p \in (DOMAIN seqs) \X (1..MaxLength) :
                 p[2] <= Len(seqs[p[1]]) /\ seqs[p[1]][p[2]] = cmd})

StartsWithAt(prefix, seq, i) ==
  i + Len(prefix) - 1 <= Len(seq) /\ SubSeq(seq, i, i + Len(prefix) - 1) = prefix

find_prefix_position(prefix, seq) ==
  {i \in 1..Len(seq) : /\ StartsWithAt(prefix, seq, i)
                       /\ \A j \in 1..(i - 1) : ~StartsWithAt(prefix, seq, j)}

(* Mutant: whatever follows the prefix counts.                                 *)
Projected_any_next(prefix, cmd, seqs) ==
  {s \in DOMAIN seqs : \E i \in find_prefix_position(prefix, seqs[s]) :
     i + Len(prefix) <= Len(seqs[s])}

(* The sessions in which the prefix is followed by the command.                *)
Projected(prefix, cmd, seqs) ==
  {s \in DOMAIN seqs : \E i \in find_prefix_position(prefix, seqs[s]) :
     i + Len(prefix) <= Len(seqs[s]) /\ (cmd = {} \/ cmd = {seqs[s][i + Len(prefix)]})}

(* Each command that is frequent there extends the pattern, and so on.         *)
Extended(prefix, seqs) ==
  {Append(prefix, cmd) : cmd \in {cmd \in Commands :
                                    /\ Len(prefix) < MaxLength
                                    /\ Cardinality(Projected(prefix, {}, seqs)) >= MinFrequency
                                    /\ Cardinality(Projected(prefix, {cmd}, seqs)) >= MinFrequency}}

grow_pattern(prefix, seqs) ==
  LET longer[n \in 0..MaxLength] ==
        IF n = 0 THEN {prefix} ELSE UNION {Extended(p, seqs) : p \in longer[n - 1]}
  IN UNION {longer[n] : n \in 1..MaxLength}

mine_patterns(seqs) ==
  LET frequent == {<<cmd>> : cmd \in {c \in Commands : Occurrences(c, seqs) >= MinFrequency}}
  IN frequent \cup UNION {grow_pattern(p, seqs) : p \in frequent}

-----------------------------------------------------------------------------
(* The confidence in thousandths: a pattern that is seen again weighs its      *)
(* frequency, up to a hundred, and its success rate.                           *)
calculate_confidence(p) ==
  IF p.frequency = 1 THEN 100
  ELSE (3 * Min({p.frequency, 100})) + ((700 * p.successes) \div p.frequency)

Updated(p, success) ==
  LET old == IF p \in DOMAIN patterns THEN patterns[p] ELSE [frequency |-> 0, successes |-> 0]
  IN [frequency |-> old.frequency + 1, successes |-> old.successes + (IF success THEN 1 ELSE 0)]

(* What prune_patterns may leave: ties are broken by the order of a hash map.  *)
Prunings(all) ==
  {kept \in SUBSET DOMAIN all :
     /\ Cardinality(kept) = Min({Cardinality(DOMAIN all), MaxPatterns})
     /\ \A p \in kept, q \in DOMAIN all \ kept :
          calculate_confidence(all[p]) >= calculate_confidence(all[q])}

Restricted(f, s) == [x \in s |-> f[x]]

start_session(id) ==
  /\ active_sessions' = [i \in DOMAIN active_sessions \cup {id} |->
                           IF i = id THEN << >> ELSE active_sessions[i]]
  /\ UNCHANGED <<session_buffer, patterns, mined, exported>>

record_command(id, cmd) ==
  /\ id \in DOMAIN active_sessions
  /\ active_sessions' = [active_sessions EXCEPT ![id] =
       IF Len(@) < MaxLength THEN Append(@, cmd) ELSE Append(Tail(@), cmd)]
  /\ UNCHANGED <<session_buffer, patterns, mined, exported>>

(* The last session to end decides whether all that were mined with it         *)
(* succeeded.                                                                  *)
Mines(seqs, success) ==
  LET found == mine_patterns(seqs)
      all == [p \in DOMAIN patterns \cup found |->
                IF p \in found THEN Updated(p, success) ELSE patterns[p]]
  IN /\ \E kept \in Prunings(all) : patterns' = Restricted(all, kept)
     /\ mined' = Append(mined, seqs) /\ session_buffer' = << >>

end_session(id, success) ==
  /\ id \in DOMAIN active_sessions
  /\ active_sessions' = Restricted(active_sessions, DOMAIN active_sessions \ {id})
  /\ LET seq == active_sessions[id] IN
       IF seq = << >> THEN UNCHANGED <<session_buffer, patterns, mined>>
       ELSE IF Len(session_buffer) + 1 < KAnonymity
       THEN session_buffer' = Append(session_buffer, seq) /\ UNCHANGED <<patterns, mined>>
       ELSE Len(mined) < MaxBatches /\ Mines(Append(session_buffer, seq), success)
  /\ UNCHANGED <<exported>>

export_patterns ==
  /\ exported' = {patterns}
  /\ UNCHANGED <<active_sessions, session_buffer, patterns, mined>>

(* What is imported replaces the patterns of the same sequences, and nothing   *)
(* is pruned.                                                                  *)
import_patterns ==
  /\ \E e \in exported : patterns' = [p \in DOMAIN patterns \cup DOMAIN e |->
                                        IF p \in DOMAIN e THEN e[p] ELSE patterns[p]]
  /\ UNCHANGED <<active_sessions, session_buffer, mined, exported>>

-----------------------------------------------------------------------------
(* A pattern matches when it occurs in what was done, or agrees with it in     *)
(* four commands of five; one that is longer never does.                       *)
Agreeing(p, q) == Cardinality({i \in DOMAIN p \cap DOMAIN q : p[i] = q[i]})
is_pattern_match(p, seq) ==
  /\ Len(p) <= Len(seq)
  /\ \/ \E i \in 1..Len(seq) : StartsWithAt(p, seq, i)
     \/ 5 * Agreeing(p, seq) >= 4 * Max({Len(p), Len(seq)})

find_matching_patterns(seq) == {p \in DOMAIN patterns : is_pattern_match(p, seq)}

(* A matching pattern suggests its command at the place the user is at.        *)
PatternSuggestions(recent) ==
  {p[Len(recent) + 1] : p \in {p \in find_matching_patterns(recent) : Len(recent) < Len(p)}}

(* The request of the server; its listing asks for what matches nothing done,  *)
(* which is no pattern.                                                        *)
handle_get_patterns == export_patterns \/ import_patterns

Next ==
  \/ \E id \in Sessions :
       \/ start_session(id) \/ \E cmd \in Commands : record_command(id, cmd)
       \/ \E success \in BOOLEAN : end_session(id, success)
  \/ handle_get_patterns

Spec == Init /\ [][Next]_patternVars

-----------------------------------------------------------------------------
TypeOK ==
  /\ DOMAIN active_sessions \subseteq Sessions /\ Len(session_buffer) < KAnonymity
  /\ \A p \in DOMAIN patterns :
       /\ Len(p) \in 1..MaxLength
       /\ patterns[p].frequency \in 1..MaxBatches /\ patterns[p].successes <= patterns[p].frequency

(* A pattern of more than one command is never learned from few sessions: each *)
(* time it was counted, enough of the sessions mined together contain it.      *)
LearnedFromMany ==
  \A p \in DOMAIN patterns : Len(p) > 1 =>
    patterns[p].frequency <=
      Cardinality({b \in DOMAIN mined :
        Cardinality({s \in DOMAIN mined[b] : \E i \in 1..MaxLength : StartsWithAt(p, mined[b][s], i)})
          >= MinFrequency})

(* README.md:662: the suggestions are "Based on learned patterns": who has     *)
(* done what a pattern begins with is told how it goes on.                     *)
ContinuationSuggested ==
  \A p \in DOMAIN patterns : Len(p) > 1 => PatternSuggestions(Front(p)) # {}
=============================================================================
