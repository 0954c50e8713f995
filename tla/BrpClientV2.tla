----------------------------- MODULE BrpClientV2 -----------------------------
(***************************************************************************)
(* Requests of the resilient BRP client (src/brp_client_v2.rs): the        *)
(* circuit breaker, the retry loop, the pooled connections and the frames  *)
(* on each WebSocket.                                                      *)
(*                                                                         *)
(* The breaker is module CircuitBreaker, with all its interleavings; the   *)
(* pool is what a caller sees of module ConnectionPool: BrpClientV2 holds  *)
(* its own mutex of the pool during get_connection and return_connection,  *)
(* so each is one step here.  A WebSocket is two FIFO sequences of frames. *)
(* A frame is a request or its answer (the request's number), or a control *)
(* frame.  The game is external: it answers what it reads, in order, and   *)
(* may go away.                                                            *)
(***************************************************************************)
EXTENDS Naturals, Sequences, FiniteSets

CONSTANTS
  Callers,      \* tasks that call send_request
  Threshold,    \* circuit_breaker.failure_threshold
  MaxTests,     \* circuit_breaker.half_open_max_requests
  MaxAttempts,  \* retry.max_attempts
  Conns,        \* connections that may be created (bounds the run)
  MaxRequests   \* requests that may be made (bounds the run)

None == "none"
ASSUME AttemptsAssumption == MaxAttempts \in Nat \ {0}   \* Config::validate
ASSUME BreakerAssumption ==   \* those of module CircuitBreaker
  IsFiniteSet(Callers) /\ Callers # {} /\ Threshold \in Nat \ {0} /\ MaxTests \in Nat
ASSUME BoundsAssumption == MaxRequests \in Nat /\ IsFiniteSet(Conns) /\ None \notin Conns

Requests == 1..MaxRequests
\* A text frame is a request or its answer; n is 0 in a control frame.
Text(n) == [kind |-> "text", n |-> n]
Control(kind) == [kind |-> kind, n |-> 0]
Frames == [kind : {"text", "ping", "pong", "close"}, n : 0..MaxRequests]

VARIABLES
  state, failures, halfOpen, lastFailure, pc, seen, target, stores,  \* the breaker's
  next,      \* number of the next request
  at,        \* where each caller is in send_request_with_retry
  cur,       \* the request of each caller
  attempt,   \* attempt
  conn,      \* the connection of the attempt
  answer,    \* the response the attempt has read
  pool,      \* available connections
  unused,    \* connections not created yet
  toGame,    \* frames sent and not read by the game
  toClient,  \* frames sent by the game and not read
  gone,      \* connections whose peer is gone
  executed   \* how often the game has executed each request

breaker == <<state, failures, halfOpen, lastFailure, pc, seen, target, stores>>
caller == <<at, cur, attempt, conn, answer>>
wire == <<toGame, toClient, gone, executed>>
vars == <<breaker, next, caller, pool, unused, wire>>

(* Nothing in src/ drops a send_request future, and one store order is     *)
(* enough here: the other is module CircuitBreaker's.                      *)
CB == INSTANCE CircuitBreaker WITH InOrder <- TRUE, MayAbandon <- FALSE

Init ==
  /\ CB!Init
  /\ next = 1
  /\ at = [c \in Callers |-> "none"]
  /\ cur = [c \in Callers |-> 0]
  /\ attempt = [c \in Callers |-> 0]
  /\ conn = [c \in Callers |-> None]
  /\ answer = [c \in Callers |-> 0]
  /\ pool = <<>>
  /\ unused = Conns
  /\ toGame = [x \in Conns |-> <<>>]
  /\ toClient = [x \in Conns |-> <<>>]
  /\ gone = {}
  /\ executed = [n \in Requests |-> 0]

At(c, point) == pc[c] = "running" /\ at[c] = point
Move(c, point) == at' = [at EXCEPT ![c] = point]
Write(x, frame) == toGame' = [toGame EXCEPT ![x] = Append(@, frame)]

-----------------------------------------------------------------------------
(* send_request: ask the breaker; when it lets the call run, the first     *)
(* attempt begins.                                                         *)
send_request(c) ==
  /\ next <= MaxRequests
  /\ CB!can_execute(c)
  /\ next' = next + 1
  /\ cur' = [cur EXCEPT ![c] = next]
  /\ attempt' = [attempt EXCEPT ![c] = 1]
  /\ Move(c, "get")
  /\ UNCHANGED <<conn, answer, pool, unused, wire>>

(* Mutant: the attempt number is not raised.                               *)
FailAttemptForever(c) ==
  /\ conn' = [conn EXCEPT ![c] = None]
  /\ Move(c, "get") /\ UNCHANGED attempt
  /\ UNCHANGED <<cur, answer, next, breaker>>

(* Mutant: one attempt too many.                                           *)
FailAttemptLate(c) ==
  /\ conn' = [conn EXCEPT ![c] = None]
  /\ IF attempt[c] <= MaxAttempts
       THEN Move(c, "get") /\ attempt' = [attempt EXCEPT ![c] = @ + 1]
       ELSE Move(c, "err") /\ UNCHANGED attempt
  /\ UNCHANGED <<cur, answer, next, breaker>>

(* The attempt fails: its connection, if it has one, is dropped, and after *)
(* a pause the next attempt begins, if there is one left.                  *)
FailAttempt(c) ==
  /\ conn' = [conn EXCEPT ![c] = None]
  /\ IF attempt[c] < MaxAttempts
       THEN Move(c, "get") /\ attempt' = [attempt EXCEPT ![c] = @ + 1]
       ELSE Move(c, "err") /\ UNCHANGED attempt
  /\ UNCHANGED <<cur, answer, next, breaker>>

(* get_connection: the first pooled connection if its ping is sent ...     *)
Reuse(c) ==
  /\ At(c, "get")
  /\ pool # <<>>
  /\ conn' = [conn EXCEPT ![c] = Head(pool)]
  /\ pool' = Tail(pool)
  /\ Write(Head(pool), Control("ping"))
  /\ Move(c, "send")
  /\ UNCHANGED <<breaker, next, cur, attempt, answer, unused, toClient, gone, executed>>

(* ... and a new one if there is none or the ping fails; creating it may   *)
(* fail.                                                                   *)
PopDead ==
  \/ pool = <<>> /\ UNCHANGED pool
  \/ pool # <<>> /\ Head(pool) \in gone /\ pool' = Tail(pool)

Create(c) ==
  /\ At(c, "get")
  /\ PopDead
  /\ \E x \in unused : conn' = [conn EXCEPT ![c] = x] /\ unused' = unused \ {x}
  /\ Move(c, "send")
  /\ UNCHANGED <<breaker, next, cur, attempt, answer, wire>>

NoConnection(c) ==
  /\ At(c, "get")
  /\ PopDead
  /\ FailAttempt(c)
  /\ UNCHANGED <<unused, wire>>

(* Mutant: the frame is written again after the flush.                     *)
SendTwice(c) ==
  /\ At(c, "send")
  /\ \/ /\ toGame' = [toGame EXCEPT ![conn[c]] = @ \o <<Text(cur[c]), Text(cur[c])>>]
        /\ Move(c, "wait")
        /\ UNCHANGED <<breaker, next, cur, attempt, conn, answer>>
     \/ /\ conn[c] \in gone
        /\ FailAttempt(c)
        /\ UNCHANGED toGame
  /\ UNCHANGED <<pool, unused, toClient, gone, executed>>

Send(c) ==
  /\ At(c, "send")
  /\ \/ /\ Write(conn[c], Text(cur[c]))
        /\ Move(c, "wait")
        /\ UNCHANGED <<breaker, next, cur, attempt, conn, answer>>
     \/ /\ conn[c] \in gone
        /\ FailAttempt(c)
        /\ UNCHANGED toGame
  /\ UNCHANGED <<pool, unused, toClient, gone, executed>>

(* websocket.next(): only a text frame is an answer; a Pong or a Close     *)
(* fails the attempt.                                                      *)
Receive(c) ==
  /\ At(c, "wait")
  /\ toClient[conn[c]] # <<>>
  /\ LET frame == Head(toClient[conn[c]]) IN
       /\ toClient' = [toClient EXCEPT ![conn[c]] = Tail(@)]
       /\ IF frame.kind # "text"
            THEN FailAttempt(c)
            ELSE /\ answer' = [answer EXCEPT ![c] = frame.n]
                 /\ Move(c, "return")
                 /\ UNCHANGED <<breaker, next, cur, attempt, conn>>
  /\ UNCHANGED <<pool, unused, toGame, gone, executed>>

(* Mutant: the connection of a request that timed out goes back to the     *)
(* pool.                                                                   *)
NoAnswerKeepsConnection(c) ==
  /\ At(c, "wait")
  /\ FailAttempt(c)
  /\ pool' = Append(pool, conn[c])
  /\ UNCHANGED <<unused, wire>>

(* request_timeout passes, or the stream ends.                             *)
NoAnswer(c) ==
  /\ At(c, "wait")
  /\ FailAttempt(c)
  /\ UNCHANGED <<pool, unused, wire>>

(* return_connection: pooled if its ping is sent, else discarded.          *)
ReturnConnection(c) ==
  /\ At(c, "return")
  /\ \/ pool' = Append(pool, conn[c]) /\ Write(conn[c], Control("ping"))
     \/ UNCHANGED <<pool, toGame>>    \* expired, or the ping failed
  /\ conn' = [conn EXCEPT ![c] = None]
  /\ Move(c, "ok")
  /\ UNCHANGED <<breaker, next, cur, attempt, answer, unused, toClient, gone, executed>>

(* Mutant: every failed attempt is recorded as a failed request.           *)
FinishEveryAttempt(c) ==
  /\ \/ At(c, "ok") /\ CB!record_success(c) /\ Move(c, "none")
     \/ At(c, "err") /\ CB!record_failure(c) /\ Move(c, "none")
     \/ At(c, "get") /\ attempt[c] > 1 /\ failures < Threshold
          /\ failures' = failures + 1
          /\ UNCHANGED <<state, halfOpen, lastFailure, pc, seen, target, stores, at>>
  /\ UNCHANGED <<next, cur, attempt, conn, answer, pool, unused, wire>>

(* The result goes to the breaker, once.                                   *)
Finish(c) ==
  /\ \/ At(c, "ok") /\ CB!record_success(c)
     \/ At(c, "err") /\ CB!record_failure(c)
  /\ Move(c, "none")
  /\ UNCHANGED <<next, cur, attempt, conn, answer, pool, unused, wire>>

RequestStep(c) ==
  \/ Reuse(c) \/ Create(c) \/ NoConnection(c)
  \/ Send(c) \/ Receive(c) \/ NoAnswer(c)
  \/ ReturnConnection(c) \/ Finish(c)

(* The breaker's own steps, and reset_circuit_breaker.                     *)
BreakerStep(c) ==
  /\ \/ \E f \in CB!Fields : CB!Store(c, f)
     \/ CB!OpenBranch(c) \/ CB!LoadTests(c) \/ CB!CountTest(c) \/ CB!CountFailure(c)
  /\ UNCHANGED <<next, caller, pool, unused, wire>>

reset_circuit_breaker(c) == CB!reset(c) /\ UNCHANGED <<next, caller, pool, unused, wire>>
Elapse == CB!Elapse /\ UNCHANGED <<next, caller, pool, unused, wire>>

-----------------------------------------------------------------------------
(* The game reads a frame and answers it, also one of a connection the     *)
(* client has dropped; or it goes away, with or without a Close frame.     *)
Serve(x) ==
  /\ x \notin gone /\ toGame[x] # <<>>
  /\ LET frame == Head(toGame[x]) IN
       /\ toGame' = [toGame EXCEPT ![x] = Tail(@)]
       /\ toClient' = [toClient EXCEPT ![x] =
            Append(@, IF frame.kind = "ping" THEN Control("pong") ELSE frame)]
       /\ executed' = IF frame.kind = "ping" THEN executed
                      ELSE [executed EXCEPT ![frame.n] = @ + 1]
  /\ UNCHANGED <<breaker, next, caller, pool, unused, gone>>

GoAway(x) ==
  /\ x \notin gone \cup unused
  /\ gone' = gone \cup {x}
  /\ \/ UNCHANGED toClient
     \/ toClient' = [toClient EXCEPT ![x] = Append(@, Control("close"))]
  /\ UNCHANGED <<breaker, next, caller, pool, unused, toGame, executed>>

Next ==
  \/ \E c \in Callers :
       send_request(c) \/ RequestStep(c) \/ BreakerStep(c) \/ reset_circuit_breaker(c)
  \/ Elapse
  \/ \E x \in Conns : Serve(x) \/ GoAway(x)

Spec == Init /\ [][Next]_vars

(* Every await of a request has a timeout, so a request keeps moving; the  *)
(* game owes nothing.                                                      *)
Fairness == \A c \in Callers : WF_vars(RequestStep(c) \/ BreakerStep(c))
FairSpec == Spec /\ Fairness

-----------------------------------------------------------------------------
TypeOK ==
  /\ CB!TypeOK
  /\ next \in 1..MaxRequests + 1
  /\ at \in [Callers -> {"none", "get", "send", "wait", "return", "ok", "err"}]
  /\ cur \in [Callers -> 0..MaxRequests]
  /\ attempt \in [Callers -> 0..MaxAttempts]
  /\ conn \in [Callers -> Conns \cup {None}]
  /\ answer \in [Callers -> 0..MaxRequests]
  /\ pool \in Seq(Conns)
  /\ unused \subseteq Conns /\ gone \subseteq Conns
  /\ toGame \in [Conns -> Seq(Frames)] /\ toClient \in [Conns -> Seq(Frames)]
  /\ executed \in [Requests -> Nat]

(* A response carries no request id that the client checks; a caller still *)
(* never gets the answer of another request, or of an earlier request that *)
(* timed out, because a connection with an answer outstanding never goes   *)
(* back to the pool.                                                       *)
AnswerIsOwn == \A c \in Callers : At(c, "return") \/ At(c, "ok") => answer[c] = cur[c]

(* Retries repeat what may have been done already (a request that timed    *)
(* out is executed late); the game executes a request at most once per     *)
(* attempt and never more than max_attempts times.                         *)
ExecutedPerAttempt ==
  /\ \A n \in Requests : executed[n] <= MaxAttempts
  /\ \A c \in Callers : cur[c] # 0 => executed[cur[c]] <= attempt[c]

(* The requests use the breaker as module CircuitBreaker expects of its    *)
(* callers: one can_execute, and one record of the result after it.        *)
UsesBreaker == CB!Spec

(* Every request ends, whatever the game does.                             *)
RequestEnds == \A c \in Callers : pc[c] = "running" ~> pc[c] # "running"
=============================================================================
