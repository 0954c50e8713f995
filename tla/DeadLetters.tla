---------------------------- MODULE DeadLetters ----------------------------
(* The DeadLetterQueue of dead_letter_queue.rs: a bounded queue of failed      *)
(* operations behind a RwLock, copied to a file when persisting is configured. *)
(* An operation is the moment it was made, which is when it failed; between    *)
(* that and its turn at the lock others may come first.                        *)
(*                                                                             *)
(* add_failed_operation persists while it holds the write guard, and           *)
(* persisting asks for a read guard of the same lock: with a configured path   *)
(* it never returns and nobody else gets the lock again.                       *)
EXTENDS Naturals, Sequences, SequencesExt

CONSTANTS
  MaxSize,      \* config.max_size
  MaxMade       \* bound on the operations that fail

DeadLettersAssumption ==
  /\ MaxSize \in Nat \ {0}     \* with 0, add_failed_operation loops for ever
  /\ MaxMade \in Nat

VARIABLES
  persisting, \* persist_to_disk, with a persistence_path
  dlq,        \* the queue
  made,       \* how many operations have failed so far
  adding,     \* the operations that wait to be added
  stuck,      \* an add holds the write guard and waits for a read guard
  file,       \* the file: a queue, or << >> when it was never written
  loaded      \* the queue load_from_disk has read and not stored yet, in a set

dlvars == <<persisting, dlq, made, adding, stuck, file, loaded>>

Init ==
  /\ persisting \in BOOLEAN
  /\ dlq = << >> /\ made = 0 /\ adding = {} /\ stuck = FALSE
  /\ file \in {<< >>, <<0>>} /\ loaded = {}

Fails ==
  /\ made < MaxMade /\ made' = made + 1
  /\ adding' = adding \cup {made'}
  /\ UNCHANGED <<persisting, dlq, stuck, file, loaded>>

(* The newest MaxSize - 1 stay, and the operation goes behind them.           *)
Pushed(op) ==
  SubSeq(dlq, IF Len(dlq) < MaxSize THEN 1 ELSE Len(dlq) - MaxSize + 2, Len(dlq)) \o <<op>>

(* Mutant: the operation is persisted whatever the configuration says.        *)
add_failed_operation_persists(op) ==
  /\ op \in adding /\ ~stuck
  /\ dlq' = Pushed(op)
  /\ stuck' = TRUE
  /\ UNCHANGED <<persisting, made, adding, file, loaded>>

add_failed_operation(op) ==
  /\ op \in adding /\ ~stuck
  /\ dlq' = Pushed(op)
  /\ stuck' = persisting
  /\ adding' = IF persisting THEN adding ELSE adding \ {op}
  /\ UNCHANGED <<persisting, made, file, loaded>>

remove_failed_operation(op) ==
  /\ ~stuck /\ Contains(dlq, op)
  /\ dlq' = Remove(dlq, op)
  /\ UNCHANGED <<persisting, made, adding, stuck, file, loaded>>

(* What failed up to the cutoff goes, wherever it is in the queue.            *)
cleanup_expired(cutoff) ==
  /\ ~stuck
  /\ dlq' = SelectSeq(dlq, LAMBDA op : op > cutoff)
  /\ UNCHANGED <<persisting, made, adding, stuck, file, loaded>>

(* The file is read before the lock is asked for.                             *)
LoadRead ==
  /\ persisting /\ file # << >> /\ loaded = {}
  /\ loaded' = {file}
  /\ UNCHANGED <<persisting, dlq, made, adding, stuck, file>>

LoadStore ==
  /\ ~stuck
  /\ \E q \in loaded : dlq' = q /\ loaded' = {}
  /\ UNCHANGED <<persisting, made, adding, stuck, file>>

shutdown ==
  /\ persisting /\ ~stuck
  /\ file' = dlq
  /\ UNCHANGED <<persisting, dlq, made, adding, stuck, loaded>>

(* The request of the server; its others list what is there.                   *)
handle_dead_letter_queue == \E op \in 0..MaxMade : remove_failed_operation(op)

Next ==
  \/ handle_dead_letter_queue \/ Fails \/ LoadRead \/ LoadStore \/ shutdown
  \/ \E op \in 0..MaxMade : add_failed_operation(op)
  \/ \E cutoff \in 0..MaxMade : cleanup_expired(cutoff)

Fairness == \A op \in 0..MaxMade : WF_dlvars(add_failed_operation(op))

Spec == Init /\ [][Next]_dlvars /\ Fairness

-----------------------------------------------------------------------------
TypeOK ==
  /\ Len(dlq) <= MaxSize /\ ToSet(dlq) \subseteq 0..made /\ IsInjective(dlq)
  /\ adding \subseteq 1..made
  /\ stuck => persisting

Adds(op) == op \in adding /\ ~persisting

(* dead_letter_queue.rs:74: "Whether to persist to disk" - an operation that  *)
(* is added is added, and its caller goes on, whether the queue persists or   *)
(* not.                                                                       *)
AddReturns == \A op \in 1..MaxMade : op \in adding ~> op \notin adding

(* It holds of a queue in memory: an add waits for the guards of the others,  *)
(* each of which ends.                                                        *)
AddReturnsInMemory == \A op \in 1..MaxMade : Adds(op) ~> ~Adds(op)
=============================================================================
