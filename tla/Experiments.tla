---------------------------- MODULE Experiments -----------------------------
(* The ActionExecutor of experiment_system.rs behind the one lock of           *)
(* tools/experiment.rs: actions that change the game, batches of them, atomic  *)
(* or not, and the two stacks of undo and redo.  Requests do not overlap, but  *)
(* one that takes too long is dropped where it stands.                         *)
EXTENDS Naturals, Sequences, FiniteSets, Functions

CONSTANTS
  MaxHistory,   \* max_history_size
  MaxEntities,  \* bound on the entities that are spawned
  MaxBatch      \* bound on the actions of a batch

ExperimentsAssumption == {MaxHistory, MaxEntities, MaxBatch} \subseteq Nat

Entities == 1..MaxEntities
NoEntity == 0

VARIABLES
  alive,        \* the entities of the game
  made,         \* how many were ever spawned
  undo_stack,   \* HistoryEntry: [action, entity it is about, what undo deletes]
  redo_stack,
  transactions, \* the length of transaction_stack
  batch         \* the batch that runs, in a set: [atomic, results so far]

experimentVars == <<alive, made, undo_stack, redo_stack, transactions, batch>>

Init ==
  /\ alive = {} /\ made = 0 /\ undo_stack = << >> /\ redo_stack = << >>
  /\ transactions = 0 /\ batch = {}

-----------------------------------------------------------------------------
(* What an action does to the game and what the executor is told.  A spawn     *)
(* whose answer is lost leaves an entity nobody knows; an action that does not *)
(* validate, or is answered with something else, is an error.                  *)
Result(action, entity, outcome) == [action |-> action, entity |-> entity, outcome |-> outcome]

execute_spawn(result) ==
  \/ /\ made < MaxEntities /\ made' = made + 1 /\ alive' = alive \cup {made'}
     /\ result \in {Result("spawn", made', "success"), Result("spawn", NoEntity, "failure")}
  \/ /\ result \in {Result("spawn", NoEntity, "failure"), Result("spawn", NoEntity, "error")}
     /\ UNCHANGED <<alive, made>>

execute_modify(result) ==
  /\ \E e \in Entities, outcome \in {"success", "failure", "error"} :
       /\ outcome = "success" => e \in alive
       /\ result = Result("modify", e, outcome)
  /\ UNCHANGED <<alive, made>>

execute_delete(e, result) ==
  \/ e \in alive /\ alive' = alive \ {e} /\ result = Result("delete", e, "success")
                 /\ UNCHANGED made
  \/ result = Result("delete", e, "failure") /\ UNCHANGED <<alive, made>>

Results ==
  {Result("spawn", e, o) : e \in Entities \cup {NoEntity}, o \in {"success", "failure", "error"}}
  \cup {Result(a, e, o) : a \in {"modify", "delete"}, e \in Entities,
                          o \in {"success", "failure", "error"}}

Executes(result) ==
  execute_spawn(result) \/ execute_modify(result) \/ \E e \in Entities : execute_delete(e, result)

(* Only a spawn can be reversed.                                               *)
create_reverse_action(result) == IF result.action = "spawn" THEN result.entity ELSE NoEntity

Top(stack) == stack[Len(stack)]
Popped(stack) == SubSeq(stack, 1, Len(stack) - 1)

Entry(result) == <<result.action, create_reverse_action(result)>>

Newest(stack) == IF Len(stack) <= MaxHistory THEN stack
                 ELSE SubSeq(stack, Len(stack) - MaxHistory + 1, Len(stack))

(* A success outside every transaction is remembered, and nothing can be       *)
(* redone after it.                                                            *)
Remembered(stack, result) ==
  IF result.outcome = "success" /\ transactions = 0
  THEN Newest(Append(stack, Entry(result))) ELSE stack

Redoable(result) ==
  IF result.outcome = "success" /\ transactions = 0 THEN << >> ELSE redo_stack

-----------------------------------------------------------------------------
handle_execute ==
  /\ batch = {}
  /\ \E result \in Results :
       /\ Executes(result)
       /\ undo_stack' = Remembered(undo_stack, result) /\ redo_stack' = Redoable(result)
  /\ UNCHANGED <<transactions, batch>>

Transaction(atomic) == [atomic |-> atomic, results |-> << >>]

BatchStarts(atomic) ==
  /\ batch = {} /\ batch' = {Transaction(atomic)}
  /\ transactions' = transactions + (IF atomic THEN 1 ELSE 0)
  /\ transactions < 2       \* bound: transactions that were left behind
  /\ UNCHANGED <<alive, made, undo_stack, redo_stack>>

(* An error ends the request there and then: nothing is rolled back, and the   *)
(* transaction stays on the stack.                                             *)
BatchActs ==
  /\ \E b \in batch, result \in Results :
       /\ Len(b.results) < MaxBatch
       /\ Executes(result)
       /\ undo_stack' = Remembered(undo_stack, result) /\ redo_stack' = Redoable(result)
       /\ batch' = IF result.outcome = "error" THEN {}
                   ELSE {[b EXCEPT !.results = Append(@, result)]}
  /\ UNCHANGED transactions

(* Mutant: only the last action decides.                                       *)
should_rollback_last(b) == b.results # << >> /\ b.results[Len(b.results)].outcome # "success"
should_rollback(b) == \E i \in DOMAIN b.results : b.results[i].outcome # "success"

(* Each spawn is deleted again; a delete that fails is passed over.            *)
Spawned(b) == {b.results[i].entity : i \in
                {i \in DOMAIN b.results : b.results[i].action = "spawn"}} \ {NoEntity}

RollsBack ==
  /\ \E b \in batch :
       /\ b.atomic /\ should_rollback(b)
       /\ \E refused \in SUBSET Spawned(b) : alive' = alive \ (Spawned(b) \ refused)
  /\ batch' = {} /\ transactions' = transactions - 1
  /\ UNCHANGED <<made, undo_stack, redo_stack>>

(* A batch that succeeds is an entry of its own, which cannot be reversed.     *)
BatchSucceeds ==
  /\ \E b \in batch :
       /\ b.results # << >> /\ ~should_rollback(b)
       /\ transactions' = transactions - (IF b.atomic THEN 1 ELSE 0)
  /\ IF transactions' = 0
     THEN undo_stack' = Newest(Append(undo_stack, <<"batch", NoEntity>>)) /\ redo_stack' = << >>
     ELSE UNCHANGED <<undo_stack, redo_stack>>
  /\ batch' = {} /\ UNCHANGED <<alive, made>>

BatchFails ==
  /\ \E b \in batch : ~b.atomic /\ should_rollback(b)
  /\ batch' = {} /\ UNCHANGED <<alive, made, undo_stack, redo_stack, transactions>>

(* The orchestrator's timeout drops the request.                               *)
BatchDropped ==
  /\ batch # {} /\ batch' = {}
  /\ UNCHANGED <<alive, made, undo_stack, redo_stack, transactions>>

-----------------------------------------------------------------------------
(* Undoing runs the reverse action, which is remembered like any other, and    *)
(* then makes the entry redoable.                                              *)
undo ==
  /\ batch = {} /\ undo_stack # << >>
  /\ LET entry == Top(undo_stack) IN
       IF entry[2] = NoEntity
       THEN undo_stack' = Popped(undo_stack) /\ UNCHANGED <<alive, made, redo_stack>>
       ELSE \E result \in Results :
              /\ execute_delete(entry[2], result)
              /\ undo_stack' = Remembered(Popped(undo_stack), result)
              /\ redo_stack' = Append(Redoable(result), entry)
  /\ UNCHANGED <<transactions, batch>>

(* Redoing spawns another entity, remembers that, and puts the old entry back. *)
redo ==
  /\ batch = {} /\ redo_stack # << >>
  /\ \E result \in Results :
       /\ execute_spawn(result)
       /\ undo_stack' = IF result.outcome = "error" THEN undo_stack
                        ELSE Append(Remembered(undo_stack, result), Top(redo_stack))
       /\ redo_stack' = IF result.outcome = "success" /\ transactions = 0 THEN << >>
                        ELSE Popped(redo_stack)
  /\ Len(undo_stack) <= MaxHistory + 1   \* bound: redos in a row that remember nothing
  /\ UNCHANGED <<transactions, batch>>

clear_history ==
  /\ batch = {} /\ undo_stack' = << >> /\ redo_stack' = << >>
  /\ UNCHANGED <<alive, made, transactions, batch>>

-----------------------------------------------------------------------------
(* The requests hold the lock of the executor and that of the client.          *)
handle_undo == undo
handle_redo == redo
handle_clear_history == clear_history

Next ==
  \/ handle_execute \/ (\E atomic \in BOOLEAN : BatchStarts(atomic)) \/ BatchActs \/ RollsBack
  \/ BatchSucceeds \/ BatchFails \/ BatchDropped
  \/ handle_undo \/ handle_redo \/ handle_clear_history

Spec == Init /\ [][Next]_experimentVars

-----------------------------------------------------------------------------
(* An entry names the action and, when it can be reversed, what it spawned.    *)
HistoryEntry == {"spawn", "modify", "delete", "batch"} \X (0..made)

TypeOK ==
  /\ alive \subseteq 1..made /\ made <= MaxEntities /\ transactions \in Nat
  /\ Range(undo_stack) \subseteq HistoryEntry
  /\ \A e \in Range(redo_stack) : e \in HistoryEntry /\ e[2] # NoEntity

(* An atomic batch in which an action failed never succeeds: when it leaves    *)
(* the executor without an error its spawns were rolled back, so it is not in  *)
(* the history either.                                                         *)
Atomic ==
  \A b \in batch :
    b.atomic /\ (\E i \in DOMAIN b.results : b.results[i].outcome = "failure")
      => undo_stack' = undo_stack
AtomicOrNothing == [][Atomic]_experimentVars

(* experiment_system.rs:191: "Add to history if successful and not in a        *)
(* transaction" - between requests there is no transaction to be in.           *)
TransactionsEnd == batch = {} => transactions = 0
=============================================================================
