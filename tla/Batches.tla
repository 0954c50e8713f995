-------------------------------- MODULE Batches --------------------------------
(***************************************************************************)
(* The batched requests of brp_client.rs: send_batched_request queues a     *)
(* request and waits, under the client's write lock, for the task that      *)
(* takes batches off the queue.  Starting and stopping that task need the   *)
(* write lock too.                                                          *)
(***************************************************************************)
EXTENDS Naturals, Sequences, FiniteSets, SequencesExt

CONSTANTS
    Callers,      \* tasks that share the client
    MaxBatch,     \* requests per batch (10)
    Limited,      \* the client has a resource manager
    MaxRequests,  \* bound: batched requests
    MaxStarts,    \* bound: starts of the batch task
    None          \* no caller

BatchesAssumption ==
    /\ MaxBatch \in Nat \ {0} /\ Limited \in BOOLEAN /\ None \notin Callers

VARIABLES
    lock,     \* the caller that holds the client's write lock
    queue,    \* request_queue: the numbers of the requests
    running,  \* batch_processor_handle is some task
    batch,    \* the requests the task has drained
    verdict,  \* of a batch: "unchecked", "allowed", "refused"
    waiting,  \* caller -> the request it waits for, 0 for none
    sent,     \* requests whose answer was sent
    answer,   \* request -> its answer
    requests, starts

vars == <<lock, queue, running, batch, verdict, waiting, sent, answer, requests,
          starts>>

Numbers == 1..MaxRequests
Answers == {"none", "ok", "limited", "skipped"}

(* A request is queued, drained or answered; only a lock holder waits. *)
TypeOK ==
    /\ lock \in Callers \cup {None}
    /\ Range(queue) \subseteq Numbers /\ Range(batch) \subseteq Numbers
    /\ running \in BOOLEAN /\ verdict \in {"unchecked", "allowed", "refused"}
    /\ waiting \in [Callers -> 0..MaxRequests]
    /\ \A c \in Callers : waiting[c] # 0 => lock = c
    /\ answer \in [Numbers -> Answers]
    /\ requests \in 0..MaxRequests /\ starts \in 0..MaxStarts

Init ==
    /\ lock = None /\ queue = <<>> /\ running = FALSE /\ batch = <<>>
    /\ verdict = "unchecked" /\ waiting = [c \in Callers |-> 0]
    /\ sent = {} /\ answer = [n \in Numbers |-> "none"]
    /\ requests = 0 /\ starts = 0

send_batched_request(c) ==
    /\ lock = None /\ requests < MaxRequests
    /\ lock' = c /\ requests' = requests + 1
    /\ queue' = Append(queue, requests')
    /\ waiting' = [waiting EXCEPT ![c] = requests']
    /\ UNCHANGED <<running, batch, verdict, sent, answer, starts>>

Received(c) ==
    /\ waiting[c] \in sent
    /\ lock' = None /\ waiting' = [waiting EXCEPT ![c] = 0]
    /\ UNCHANGED <<queue, running, batch, verdict, sent, answer, requests,
                   starts>>

(* The caller's future is dropped, by a timeout of its own: the lock is   *)
(* free and the request stays where it is.                                *)
GivesUp(c) ==
    /\ waiting[c] # 0
    /\ lock' = None /\ waiting' = [waiting EXCEPT ![c] = 0]
    /\ UNCHANGED <<queue, running, batch, verdict, sent, answer, requests,
                   starts>>

start_batch_processing ==
    /\ lock = None /\ ~running /\ starts < MaxStarts
    /\ running' = TRUE /\ starts' = starts + 1
    /\ UNCHANGED <<lock, queue, batch, verdict, waiting, sent, answer,
                   requests>>

(* Aborting the task drops what it has drained. *)
stop_batch_processing ==
    /\ lock = None /\ running
    /\ running' = FALSE /\ batch' = <<>> /\ verdict' = "unchecked"
    /\ UNCHANGED <<lock, queue, waiting, sent, answer, requests, starts>>

Least(a, b) == IF a < b THEN a ELSE b

(* Mutant: the queue is cleared after a batch was taken off it. *)
Rest_cleared(n) == <<>>

(* What stays queued when n requests are drained. *)
Rest(n) == SubSeq(queue, n + 1, Len(queue))

(* Every 50 ms. *)
Drain ==
    /\ running /\ batch = <<>> /\ queue # <<>>
    /\ LET n == Least(Len(queue), MaxBatch)
       IN batch' = SubSeq(queue, 1, n) /\ queue' = Rest(n)
    /\ UNCHANGED <<lock, running, verdict, waiting, sent, answer, requests,
                   starts>>

(* The rate limit is asked once, for the whole batch. *)
Checked ==
    /\ batch # <<>> /\ verdict = "unchecked"
    /\ verdict' \in {"allowed"} \cup (IF Limited THEN {"refused"} ELSE {})
    /\ UNCHANGED <<lock, queue, running, batch, waiting, sent, answer,
                   requests, starts>>

(* A refused batch is answered with the limit.  The others never reach    *)
(* the game: they are answered with success, or as skipped when the       *)
(* sampling of the resource manager says so.                              *)
Outcomes ==
    IF verdict = "refused" THEN {"limited"}
    ELSE {"ok"} \cup (IF Limited THEN {"skipped"} ELSE {})

Processed ==
    /\ batch # <<>> /\ verdict # "unchecked"
    /\ sent' = sent \cup {Head(batch)}
    /\ \E how \in Outcomes : answer' = [answer EXCEPT ![Head(batch)] = how]
    /\ batch' = Tail(batch)
    /\ verdict' = IF Len(batch) = 1 THEN "unchecked" ELSE verdict
    /\ UNCHANGED <<lock, queue, running, waiting, requests, starts>>

Next ==
    \/ \E c \in Callers :
          send_batched_request(c) \/ Received(c) \/ GivesUp(c)
    \/ start_batch_processing \/ stop_batch_processing
    \/ Drain \/ Checked \/ Processed

Spec == Init /\ [][Next]_vars

(* The batch task is scheduled, and a caller that was answered runs. *)
FairSpec ==
    /\ Spec /\ WF_vars(Drain \/ Checked \/ Processed)
    /\ \A c \in Callers : WF_vars(Received(c))

(***************************************************************************)
(* Properties                                                              *)
(***************************************************************************)

Waits(c) == waiting[c] # 0
Served(c) == running /\ Waits(c)

(* While the batch task runs every batched request is answered: the caller *)
(* keeps the lock that stopping the task would need, requests that were    *)
(* given up before it are drained first, and every batch ends.             *)
BatchedAreAnswered == \A c \in Callers : Served(c) ~> ~Waits(c)

(* brp_client.rs: "Send a batched request (queued for batch processing)".  *)
(* The request is processed: with no batch task it stays queued, and       *)
(* nobody can start the task while the caller waits under the lock.        *)
BatchedCallsEnd == \A c \in Callers : Waits(c) ~> ~Waits(c)
=============================================================================
