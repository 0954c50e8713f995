-------------------------- MODULE BrpClientV2Proofs --------------------------
(* Theorems about BrpClientV2, for any number of callers, connections and      *)
(* requests: it uses the breaker as the breaker's module expects, an answer is *)
(* the request's own, and a request is executed at most once per attempt.      *)
(*                                                                             *)
(* The inductive invariant says who has a connection (Ownership), that numbers *)
(* of requests are not used twice (Numbers), that a connection has at most one *)
(* answer outstanding and none while it may be handed out (Wire), and how      *)
(* often a request was executed or still may be (Counted).                     *)
EXTENDS BrpClientV2, SequenceTheorems, FiniteSetTheorems, TLAPS

(* Where the text frames of a sequence of frames are.                          *)
TextAt(q) == {i \in 1..Len(q) : q[i].kind = "text"}
NoText(x) == TextAt(toGame[x]) = {} /\ TextAt(toClient[x]) = {}

(* A caller past get_connection is let through by the breaker, and has a       *)
(* connection of its own until the attempt ends; no pooled connection is held  *)
(* or pooled twice; nothing was written on one that is not created yet.        *)
Running == \A c \in Callers : at[c] \notin {"none", "get"} => pc[c] = "running"

Holders ==
  /\ \A c \in Callers : conn[c] = None <=> at[c] \notin {"send", "wait", "return"}
  /\ \A c, d \in Callers : conn[c] = conn[d] => c = d \/ conn[c] = None
  /\ \A c \in Callers : conn[c] \notin unused

PoolApart ==
  /\ \A i, j \in 1..Len(pool) : pool[i] = pool[j] => i = j
  /\ \A i \in 1..Len(pool) : pool[i] \notin unused /\ \A c \in Callers : pool[i] # conn[c]

Fresh == \A x \in unused : toGame[x] = << >> /\ toClient[x] = << >>

Ownership == Running /\ Holders /\ PoolApart /\ Fresh

(* No two callers have the same request, and what the game has still to read   *)
(* are requests made and the pool's pings.                                     *)
Numbered ==
  /\ \A c \in Callers : cur[c] < next
  /\ \A c \in Callers : at[c] # "none" => cur[c] # 0
  /\ \A c \in Callers : cur[c] # 0 => attempt[c] # 0
  /\ \A c, d \in Callers : cur[c] = cur[d] => c = d \/ cur[c] = 0

Known ==
  \A x \in Conns : \A i \in 1..Len(toGame[x]) :
    \/ toGame[x][i] = Control("ping")
    \/ \E n \in Requests : n < next /\ toGame[x][i] = Text(n)

Numbers == Numbered /\ Known

(* A connection has at most one answer outstanding, on either way; none when   *)
(* it may be handed out or written on; and only that of its caller's request.  *)
OneAnswer(x) ==
  /\ \A i, j \in TextAt(toGame[x]) : i = j
  /\ \A i, j \in TextAt(toClient[x]) : i = j
  /\ TextAt(toGame[x]) = {} \/ TextAt(toClient[x]) = {}

OnlyAnswers(x, n) ==
  /\ \A i \in TextAt(toGame[x]) : toGame[x][i].n = n
  /\ \A i \in TextAt(toClient[x]) : toClient[x][i].n = n

Wired(c) ==
  /\ at[c] \in {"send", "return"} => NoText(conn[c])
  /\ at[c] = "wait" => OnlyAnswers(conn[c], cur[c])
  /\ at[c] \in {"return", "ok"} => answer[c] = cur[c]

Wire ==
  /\ \A x \in Conns : OneAnswer(x)
  /\ \A i \in 1..Len(pool) : NoText(pool[i])
  /\ \A c \in Callers : Wired(c)

(* The connections on which the game has still to read request n.              *)
Pending(n) == {x \in Conns : \E i \in 1..Len(toGame[x]) : toGame[x][i] = Text(n)}
Spent(n) == executed[n] + Cardinality(Pending(n))
(* The attempts of c in which its request may have been written.               *)
Tried(c) == IF at[c] \in {"get", "send"} THEN attempt[c] - 1 ELSE attempt[c]

Counted ==
  /\ \A n \in Requests : Spent(n) <= MaxAttempts
  /\ \A n \in Requests : n >= next => executed[n] = 0
  /\ \A c \in Callers : cur[c] # 0 => Spent(cur[c]) <= Tried(c)

IInv == TypeOK /\ Ownership /\ Numbers /\ Wire /\ Counted
-----------------------------------------------------------------------------
(* Sequences of frames.                                                        *)
LEMMA FrameFacts ==
  /\ \A n \in Requests : Text(n) \in Frames /\ Text(n).kind = "text" /\ Text(n).n = n
  /\ \A k \in {"ping", "pong", "close"} : Control(k) \in Frames /\ Control(k).kind = k
  /\ \A f \in Frames : f.n \in 0..MaxRequests /\ f.kind \in {"text", "ping", "pong", "close"}
  /\ \A f \in Frames : f.kind = "text" => f = Text(f.n)
  BY BoundsAssumption DEF Frames, Text, Control, Requests

(* A frame that is appended is the last one.                                   *)
LEMMA Appended ==
  ASSUME NEW q \in Seq(Frames), NEW f \in Frames
  PROVE  /\ Append(q, f) \in Seq(Frames) /\ Len(Append(q, f)) = Len(q) + 1
         /\ \A i \in 1..Len(q) : Append(q, f)[i] = q[i]
         /\ Append(q, f)[Len(q) + 1] = f
         /\ f.kind # "text" => TextAt(Append(q, f)) = TextAt(q)
         /\ f.kind = "text" => TextAt(Append(q, f)) = TextAt(q) \cup {Len(q) + 1}
<1>1. /\ Append(q, f) \in Seq(Frames) /\ Len(Append(q, f)) = Len(q) + 1
      /\ \A i \in 1..Len(q) : Append(q, f)[i] = q[i]
      /\ Append(q, f)[Len(q) + 1] = f
  OBVIOUS
<1>2. Len(q) \in Nat
  OBVIOUS
<1>3. \A i : i \in 1..(Len(q) + 1) <=> i \in 1..Len(q) \/ i = Len(q) + 1
  BY <1>2
<1> QED
  BY <1>1, <1>2, <1>3 DEF TextAt

(* Of a frame that is read, only the others are left.                          *)
LEMMA HeadRead ==
  ASSUME NEW q \in Seq(Frames), q # << >>
  PROVE  /\ Head(q) \in Frames /\ Tail(q) \in Seq(Frames) /\ 1 \in 1..Len(q) /\ Head(q) = q[1]
         /\ Len(Tail(q)) = Len(q) - 1
         /\ \A i \in 1..Len(Tail(q)) : i + 1 \in 1..Len(q) /\ Tail(q)[i] = q[i + 1]
         /\ \A i \in 1..Len(q) : i # 1 => i - 1 \in 1..Len(Tail(q)) /\ q[i] = Tail(q)[i - 1]
         /\ \A i \in TextAt(Tail(q)) : i + 1 \in TextAt(q) /\ i + 1 # 1
         /\ Head(q).kind = "text" => 1 \in TextAt(q)
<1>1. /\ Head(q) \in Frames /\ Tail(q) \in Seq(Frames) /\ 1 \in 1..Len(q) /\ Head(q) = q[1]
      /\ Len(q) \in Nat /\ Len(Tail(q)) = Len(q) - 1
      /\ \A i \in 1..Len(Tail(q)) : Tail(q)[i] = q[i + 1]
  BY HeadTailProperties
<1>2. \A i \in 1..Len(Tail(q)) : i + 1 \in 1..Len(q)
  BY <1>1
<1>3. \A i \in 1..Len(q) : i # 1 => i - 1 \in 1..Len(Tail(q)) /\ q[i] = Tail(q)[i - 1]
  BY <1>1
<1>4. \A i \in TextAt(Tail(q)) : i + 1 \in TextAt(q) /\ i + 1 # 1
  BY <1>1, <1>2 DEF TextAt
<1> QED
  BY <1>1, <1>2, <1>3, <1>4 DEF TextAt

-----------------------------------------------------------------------------
(* What an action does to the breaker is a step of the breaker's module.       *)
LEMMA BreakerStepRefines == [Next]_vars => [CB!Next]_(CB!vars)
<1> SUFFICES ASSUME [Next]_vars PROVE CB!Next \/ UNCHANGED CB!vars
  OBVIOUS
<1>1. ASSUME NEW c \in Callers, send_request(c) PROVE CB!Next
  BY <1>1 DEF send_request, CB!Next
<1>2. ASSUME NEW c \in Callers, RequestStep(c) PROVE CB!Next \/ UNCHANGED CB!vars
  <2>1. CASE Finish(c)
    BY <2>1 DEF Finish, CB!Next, CB!InCall
  <2>2. CASE ~Finish(c)
    BY <1>2, <2>2 DEF RequestStep, Reuse, Create, NoConnection, Send, Receive, NoAnswer,
       ReturnConnection, FailAttempt, breaker, CB!vars
  <2> QED
    BY <2>1, <2>2
<1>3. ASSUME NEW c \in Callers, BreakerStep(c) PROVE CB!Next
  BY <1>3 DEF BreakerStep, CB!Next, CB!InCall
<1>4. ASSUME NEW c \in Callers, reset_circuit_breaker(c) PROVE CB!Next
  BY <1>4 DEF reset_circuit_breaker, CB!Next
<1>5. ASSUME Elapse PROVE CB!Next
  BY <1>5 DEF Elapse, CB!Next
<1>6. ASSUME NEW x \in Conns, Serve(x) \/ GoAway(x) PROVE UNCHANGED CB!vars
  BY <1>6 DEF Serve, GoAway, breaker, CB!vars
<1>7. CASE UNCHANGED vars
  BY <1>7 DEF vars, breaker, CB!vars
<1> QED
  BY <1>1, <1>2, <1>3, <1>4, <1>5, <1>6, <1>7 DEF Next

(* brp_client_v2.rs calls the breaker once before and once after each request: *)
(* whatever is proved of the breaker for callers that do so holds in the       *)
(* client, for any number of callers and any limits.                           *)
THEOREM ClientUsesBreaker == Spec => UsesBreaker
<1>1. Init => CB!Init
  BY DEF Init
<1> QED
  BY <1>1, BreakerStepRefines, PTL DEF Spec, UsesBreaker, CB!Spec
-----------------------------------------------------------------------------
(* What CircuitBreaker assumes of the constants.                               *)
LEMMA BreakerAssumed ==
  /\ CB!IsFiniteSet(Callers) /\ Callers # {}
  /\ Threshold \in Nat \ {0} /\ MaxTests \in Nat
  /\ TRUE \in BOOLEAN /\ FALSE \in BOOLEAN
  BY BreakerAssumption DEF IsFiniteSet, CB!IsFiniteSet

(* So the theorems about the breaker hold in the client: an open breaker can   *)
(* close again (the failure time is there or about to be stored), and the      *)
(* half-open limit is overrun by less than the number of callers.              *)
THEOREM ClientBreakerRecovers == Spec => []CB!OpenCanRecover
<1>1. CB!Spec => []CB!OpenCanRecover
  BY BreakerAssumed, CB!OpenAlwaysRecoverable
<1> QED
  BY <1>1, ClientUsesBreaker, PTL DEF UsesBreaker

THEOREM ClientTestsBounded == Spec => []CB!TestOverrunBounded
<1>1. CB!Spec => []CB!TestOverrunBounded
  BY BreakerAssumed, CB!TestOverrun
<1> QED
  BY <1>1, ClientUsesBreaker, PTL DEF UsesBreaker

-----------------------------------------------------------------------------
(* The breaker's types are kept in the client.                                 *)
LEMMA BreakerTypeStep == CB!TypeOK /\ [Next]_vars => CB!TypeOK'
<1>1. CB!TypeOK /\ [CB!Next]_(CB!vars) => CB!TypeOK'
  BY BreakerAssumed, CB!TypeStep
<1> QED
  BY <1>1, BreakerStepRefines

(* What the breaker does by itself, and for a reset, leaves the requests alone *)
(* and takes nobody out of a request.                                          *)
LEMMA BreakerLeavesRequests ==
  ASSUME CB!TypeOK, Elapse \/ \E c \in Callers : BreakerStep(c) \/ reset_circuit_breaker(c)
  PROVE  /\ UNCHANGED <<next, caller, pool, unused, wire>>
         /\ \A c \in Callers : pc[c] = "running" => pc'[c] = "running"
<1> USE DEF CB!TypeOK, CB!Goto
<1>1. ASSUME NEW c \in Callers, BreakerStep(c)
      PROVE  /\ UNCHANGED <<next, caller, pool, unused, wire>>
             /\ pc[c] # "running" /\ \A d \in Callers \ {c} : pc'[d] = pc[d]
  BY <1>1 DEF BreakerStep, CB!Store, CB!OpenBranch, CB!LoadTests, CB!CountTest, CB!CountFailure,
     CB!BeginStores, CB!transition_to_half_open
<1>2. ASSUME NEW c \in Callers, reset_circuit_breaker(c)
      PROVE  /\ UNCHANGED <<next, caller, pool, unused, wire>>
             /\ pc[c] # "running" /\ \A d \in Callers \ {c} : pc'[d] = pc[d]
  BY <1>2 DEF reset_circuit_breaker, CB!reset, CB!BeginStores, CB!transition_to_closed
<1>3. CASE Elapse
  BY <1>3 DEF Elapse, CB!Elapse
<1> QED
  BY <1>1, <1>2, <1>3

(* Of the breaker, a request only changes where its caller is.                 *)
LEMMA RequestLeavesOthers ==
  ASSUME CB!TypeOK, NEW c \in Callers, send_request(c) \/ RequestStep(c)
  PROVE  /\ \A d \in Callers \ {c} : pc'[d] = pc[d]
         /\ ~send_request(c) /\ ~Finish(c) => pc'[c] = pc[c]
<1> USE DEF CB!TypeOK
<1>1. CASE send_request(c)
  <2>1. \E p : pc' = [pc EXCEPT ![c] = p]
    BY <1>1, Zenon DEF send_request, CB!can_execute, CB!Goto
  <2> QED
    BY <1>1, <2>1
<1>2. CASE Finish(c)
  BY <1>2 DEF Finish, CB!record_success, CB!record_failure, CB!BeginStores,
     CB!transition_to_closed, CB!Goto
<1>3. CASE RequestStep(c) /\ ~Finish(c)
  <2>1. UNCHANGED pc
    BY <1>3 DEF RequestStep, Reuse, Create, NoConnection, Send, Receive, NoAnswer,
       ReturnConnection, FailAttempt, breaker
  <2> QED
    BY <2>1
<1> QED
  BY <1>1, <1>2, <1>3
(* A failed attempt gives its connection up, and counts if there is another.   *)
LEMMA AttemptFails ==
  ASSUME TypeOK, NEW c \in Callers, FailAttempt(c)
  PROVE  /\ UNCHANGED <<cur, answer, next, breaker>>
         /\ conn' = [conn EXCEPT ![c] = None]
         /\ \/ /\ at' = [at EXCEPT ![c] = "get"]
               /\ attempt' = [attempt EXCEPT ![c] = attempt[c] + 1]
               /\ attempt[c] \in Nat /\ attempt[c] + 1 \in 0..MaxAttempts
            \/ at' = [at EXCEPT ![c] = "err"] /\ attempt' = attempt
  BY AttemptsAssumption DEF TypeOK, FailAttempt, Move

(* The connection taken from the pool, and those that stay.                    *)
LEMMA PoolTail ==
  ASSUME TypeOK, pool # << >>
  PROVE  /\ 1 \in 1..Len(pool) /\ Head(pool) = pool[1] /\ Head(pool) \in Conns
         /\ Tail(pool) \in Seq(Conns)
         /\ \A i \in 1..Len(Tail(pool)) :
              i + 1 \in 1..Len(pool) /\ i + 1 # 1 /\ Tail(pool)[i] = pool[i + 1]
<1>1. pool \in Seq(Conns)
  BY DEF TypeOK
<1>2. /\ 1 \in 1..Len(pool) /\ Head(pool) = pool[1] /\ Head(pool) \in Conns
      /\ Tail(pool) \in Seq(Conns) /\ Len(pool) \in Nat /\ Len(Tail(pool)) = Len(pool) - 1
      /\ \A i \in 1..Len(Tail(pool)) : Tail(pool)[i] = pool[i + 1]
  BY <1>1, HeadTailProperties
<1> QED
  BY <1>2

LEMMA PopDeadKeeps ==
  ASSUME TypeOK, PopDead
  PROVE  pool' = pool \/ (pool # << >> /\ pool' = Tail(pool))
  BY DEF PopDead

(* A caller with a connection has one that exists, and a request.              *)
LEMMA Holding ==
  ASSUME TypeOK, Ownership, Numbers, NEW c \in Callers, at[c] \in {"send", "wait", "return"}
  PROVE  conn[c] \in Conns /\ cur[c] \in Requests /\ pc[c] = "running"
  BY DEF TypeOK, Ownership, Running, Holders, Numbers, Numbered, Requests

(* What the two outcomes of Send and of Receive change.                        *)
LEMMA SendCases ==
  ASSUME TypeOK, Ownership, Numbers, NEW c \in Callers, Send(c)
  PROVE  /\ conn[c] \in Conns /\ cur[c] \in Requests
         /\ UNCHANGED <<breaker, next, cur, answer, pool, unused, toClient, gone, executed>>
         /\ \/ /\ Write(conn[c], Text(cur[c])) /\ Move(c, "wait")
               /\ UNCHANGED <<attempt, conn>>
            \/ FailAttempt(c) /\ UNCHANGED toGame
<1>1. at[c] = "send"
  BY DEF Send, At
<1> QED
  BY <1>1, Holding DEF Send, FailAttempt

LEMMA ReceiveCases ==
  ASSUME TypeOK, Ownership, Numbers, NEW c \in Callers, Receive(c)
  PROVE  /\ conn[c] \in Conns /\ toClient[conn[c]] \in Seq(Frames) /\ toClient[conn[c]] # << >>
         /\ toClient' = [toClient EXCEPT ![conn[c]] = Tail(toClient[conn[c]])]
         /\ UNCHANGED <<breaker, next, cur, pool, unused, toGame, gone, executed>>
         /\ \/ FailAttempt(c)
            \/ /\ Head(toClient[conn[c]]).kind = "text" /\ Move(c, "return")
               /\ answer' = [answer EXCEPT ![c] = Head(toClient[conn[c]]).n]
               /\ UNCHANGED <<attempt, conn>>
<1>1. at[c] = "wait"
  BY DEF Receive, At
<1>2. conn[c] \in Conns /\ toClient[conn[c]] \in Seq(Frames)
  BY <1>1, Holding DEF TypeOK
<1> QED
  BY <1>2 DEF Receive, FailAttempt

(* What the game reads is a request or the ping of the pool.                   *)
LEMMA ServeCases ==
  ASSUME TypeOK, Numbers, NEW x \in Conns, Serve(x)
  PROVE  /\ toGame[x] \in Seq(Frames) /\ toGame[x] # << >>
         /\ toGame' = [toGame EXCEPT ![x] = Tail(toGame[x])]
         /\ UNCHANGED <<breaker, next, caller, pool, unused, gone>>
         /\ \/ /\ Head(toGame[x]) = Control("ping") /\ UNCHANGED executed
               /\ toClient' = [toClient EXCEPT ![x] = Append(toClient[x], Control("pong"))]
            \/ \E n \in Requests :
                 /\ n < next /\ Head(toGame[x]) = Text(n)
                 /\ toClient' = [toClient EXCEPT ![x] = Append(toClient[x], Text(n))]
                 /\ executed' = [executed EXCEPT ![n] = executed[n] + 1]
<1>1. toGame[x] \in Seq(Frames) /\ toGame[x] # << >>
  BY DEF TypeOK, Serve
<1>2. \/ Head(toGame[x]) = Control("ping")
      \/ \E n \in Requests : n < next /\ Head(toGame[x]) = Text(n)
  BY <1>1, HeadRead DEF Numbers, Known
<1>3. CASE Head(toGame[x]) = Control("ping")
  <2>1. Head(toGame[x]).kind = "ping"
    BY <1>3, FrameFacts
  <2> QED
    BY <1>1, <1>3, <2>1 DEF Serve
<1>4. ASSUME NEW n \in Requests, n < next, Head(toGame[x]) = Text(n)
      PROVE  /\ toClient' = [toClient EXCEPT ![x] = Append(toClient[x], Text(n))]
             /\ executed' = [executed EXCEPT ![n] = executed[n] + 1]
  <2>1. Head(toGame[x]).kind # "ping" /\ Head(toGame[x]).n = n
    BY <1>4, FrameFacts
  <2> QED
    BY <1>1, <1>4, <2>1 DEF Serve
<1> QED
  BY <1>1, <1>2, <1>3, <1>4 DEF Serve
LEMMA TypeStep == TypeOK /\ Ownership /\ Numbers /\ [Next]_vars => TypeOK'
<1> SUFFICES ASSUME TypeOK, Ownership, Numbers, [Next]_vars PROVE TypeOK'
  OBVIOUS
<1> DEFINE Rest ==
      /\ next \in 1..MaxRequests + 1
      /\ at \in [Callers -> {"none", "get", "send", "wait", "return", "ok", "err"}]
      /\ cur \in [Callers -> 0..MaxRequests]
      /\ attempt \in [Callers -> 0..MaxAttempts]
      /\ conn \in [Callers -> Conns \cup {None}]
      /\ answer \in [Callers -> 0..MaxRequests]
      /\ pool \in Seq(Conns)
      /\ unused \subseteq Conns /\ gone \subseteq Conns
      /\ toGame \in [Conns -> Seq(Frames)] /\ toClient \in [Conns -> Seq(Frames)]
      /\ executed \in [Requests -> Nat]
<1> SUFFICES Rest'
  BY BreakerTypeStep DEF TypeOK
<1>0. Rest /\ CB!TypeOK
  BY DEF TypeOK
<1>1. CASE Elapse \/ \E c \in Callers : BreakerStep(c) \/ reset_circuit_breaker(c)
  BY <1>0, <1>1, BreakerLeavesRequests DEF caller, wire
<1>2. ASSUME NEW c \in Callers, send_request(c) PROVE Rest'
  BY <1>0, <1>2, AttemptsAssumption, BoundsAssumption DEF send_request, Move, wire
<1>3. ASSUME NEW c \in Callers, FailAttempt(c) PROVE
        /\ at' \in [Callers -> {"none", "get", "send", "wait", "return", "ok", "err"}]
        /\ attempt' \in [Callers -> 0..MaxAttempts]
        /\ conn' \in [Callers -> Conns \cup {None}]
        /\ cur' = cur /\ answer' = answer /\ next' = next
  BY <1>0, <1>3, AttemptFails
<1>4. ASSUME NEW x \in Conns, NEW f \in Frames, Write(x, f)
      PROVE  toGame' \in [Conns -> Seq(Frames)]
  BY <1>0, <1>4, Appended DEF Write
<1>5. ASSUME NEW c \in Callers, RequestStep(c) PROVE Rest'
  <2>1. CASE Reuse(c)
    <3>1. toGame' \in [Conns -> Seq(Frames)]
      BY <2>1, PoolTail, <1>4, FrameFacts DEF Reuse
    <3> QED
      BY <1>0, <2>1, <3>1, PoolTail DEF Reuse, Move
  <2>2. CASE Create(c)
    <3>1. pool' \in Seq(Conns)
      BY <1>0, <2>2, PopDeadKeeps, PoolTail DEF Create
    <3> QED
      BY <1>0, <2>2, <3>1 DEF Create, Move, wire
  <2>3. CASE NoConnection(c)
    <3>1. pool' \in Seq(Conns)
      BY <1>0, <2>3, PopDeadKeeps, PoolTail DEF NoConnection
    <3> QED
      BY <1>0, <2>3, <3>1, <1>3 DEF NoConnection, wire
  <2>4. CASE Send(c)
    <3>1. CASE FailAttempt(c) /\ UNCHANGED toGame
      BY <1>0, <2>4, <3>1, <1>3, SendCases
    <3>2. CASE Write(conn[c], Text(cur[c])) /\ Move(c, "wait") /\ UNCHANGED <<attempt, conn>>
      <4>1. toGame' \in [Conns -> Seq(Frames)]
        BY <2>4, <3>2, <1>4, SendCases, FrameFacts
      <4> QED
        BY <1>0, <2>4, <3>2, <4>1, SendCases DEF Move
    <3> QED
      BY <2>4, <3>1, <3>2, SendCases
  <2>5. CASE Receive(c)
    <3>1. toClient' \in [Conns -> Seq(Frames)]
      <4>1. Tail(toClient[conn[c]]) \in Seq(Frames)
        BY <2>5, HeadRead, ReceiveCases
      <4>2. /\ toClient' = [toClient EXCEPT ![conn[c]] = Tail(toClient[conn[c]])]
            /\ toClient \in [Conns -> Seq(Frames)]
        BY <1>0, <2>5, ReceiveCases
      <4> QED
        BY <4>1, <4>2
    <3>2. CASE FailAttempt(c)
      BY <1>0, <2>5, <3>1, <3>2, <1>3, ReceiveCases
    <3>3. CASE /\ Move(c, "return")
               /\ answer' = [answer EXCEPT ![c] = Head(toClient[conn[c]]).n]
               /\ UNCHANGED <<attempt, conn>>
      <4>1. Head(toClient[conn[c]]).n \in 0..MaxRequests
        BY <2>5, HeadRead, ReceiveCases, FrameFacts
      <4> QED
        BY <1>0, <2>5, <3>1, <3>3, <4>1, ReceiveCases DEF Move
    <3> QED
      BY <2>5, <3>2, <3>3, ReceiveCases
  <2>6. CASE NoAnswer(c)
    BY <1>0, <2>6, <1>3 DEF NoAnswer, wire
  <2>7. CASE ReturnConnection(c)
    <3>1. conn[c] \in Conns
      BY <2>7, Holding DEF ReturnConnection, At
    <3>2. pool' \in Seq(Conns)
      <4>1. Append(pool, conn[c]) \in Seq(Conns)
        BY <1>0, <3>1
      <4> QED
        BY <1>0, <2>7, <4>1 DEF ReturnConnection
    <3>3. toGame' \in [Conns -> Seq(Frames)]
      BY <1>0, <2>7, <3>1, <1>4, FrameFacts DEF ReturnConnection
    <3> QED
      BY <1>0, <2>7, <3>2, <3>3 DEF ReturnConnection, Move
  <2>8. CASE Finish(c)
    BY <1>0, <2>8 DEF Finish, Move, wire
  <2> QED
    BY <1>5, <2>1, <2>2, <2>3, <2>4, <2>5, <2>6, <2>7, <2>8 DEF RequestStep
<1>6. ASSUME NEW x \in Conns, Serve(x) PROVE Rest'
  <2>1. toGame' \in [Conns -> Seq(Frames)]
    <3>1. Tail(toGame[x]) \in Seq(Frames)
      BY <1>6, ServeCases, HeadRead
    <3>2. toGame' = [toGame EXCEPT ![x] = Tail(toGame[x])] /\ toGame \in [Conns -> Seq(Frames)]
      BY <1>0, <1>6, ServeCases
    <3> QED
      BY <3>1, <3>2
  <2>2. toClient' \in [Conns -> Seq(Frames)] /\ executed' \in [Requests -> Nat]
    <3>1. \A f \in Frames : Append(toClient[x], f) \in Seq(Frames)
      BY <1>0, Appended
    <3>2. /\ \E f \in Frames : toClient' = [toClient EXCEPT ![x] = Append(toClient[x], f)]
          /\ executed' = executed \/ \E n \in Requests :
                executed' = [executed EXCEPT ![n] = executed[n] + 1]
          /\ toClient \in [Conns -> Seq(Frames)] /\ executed \in [Requests -> Nat]
      BY <1>0, <1>6, ServeCases, FrameFacts
    <3> QED
      BY <3>1, <3>2
  <2> QED
    BY <1>0, <1>6, <2>1, <2>2, ServeCases DEF caller
<1>7. ASSUME NEW x \in Conns, GoAway(x) PROVE Rest'
  <2>1. \A f \in Frames : Append(toClient[x], f) \in Seq(Frames)
    BY <1>0, Appended
  <2> QED
    BY <1>0, <1>7, <2>1, FrameFacts DEF GoAway, caller
<1>8. CASE UNCHANGED vars
  BY <1>0, <1>8 DEF vars, caller, wire
<1> QED
  BY <1>1, <1>2, <1>5, <1>6, <1>7, <1>8 DEF Next
-----------------------------------------------------------------------------
LEMMA RunningStep == TypeOK /\ Running /\ [Next]_vars => Running'
<1> SUFFICES ASSUME TypeOK, Running, [Next]_vars PROVE Running'
  OBVIOUS
<1>0. CB!TypeOK /\ at \in [Callers -> {"none", "get", "send", "wait", "return", "ok", "err"}]
  BY DEF TypeOK
<1>1. CASE Elapse \/ \E c \in Callers : BreakerStep(c) \/ reset_circuit_breaker(c)
  BY <1>0, <1>1, BreakerLeavesRequests DEF Running, caller
<1>2. ASSUME NEW c \in Callers, send_request(c) PROVE Running'
  <2>1. at' = [at EXCEPT ![c] = "get"]
    BY <1>2 DEF send_request, Move
  <2> QED
    BY <1>0, <1>2, <2>1, RequestLeavesOthers DEF Running
<1>3. ASSUME NEW c \in Callers, RequestStep(c), ~Finish(c) PROVE Running'
  <2>1. pc[c] = "running"
    BY <1>3 DEF RequestStep, Reuse, Create, NoConnection, Send, Receive, NoAnswer,
       ReturnConnection, At
  <2>2. \E p : at' = [at EXCEPT ![c] = p]
    BY <1>3 DEF RequestStep, Reuse, Create, NoConnection, Send, Receive, NoAnswer,
       ReturnConnection, FailAttempt, Move
  <2>3. \A d \in Callers : d # c => at'[d] = at[d] /\ pc'[d] = pc[d]
    BY <1>0, <1>3, <2>2, RequestLeavesOthers
  <2>4. pc'[c] = "running"
    <3>1. ~send_request(c) \/ pc[c] = "idle"
      BY DEF send_request, CB!can_execute
    <3> QED
      BY <1>0, <1>3, <2>1, <3>1, RequestLeavesOthers
  <2> QED
    BY <2>3, <2>4 DEF Running
<1>4. ASSUME NEW c \in Callers, Finish(c) PROVE Running'
  <2>1. at' = [at EXCEPT ![c] = "none"]
    BY <1>4 DEF Finish, Move
  <2> QED
    BY <1>0, <1>4, <2>1, RequestLeavesOthers DEF Running, RequestStep
<1>5. ASSUME NEW x \in Conns, Serve(x) \/ GoAway(x) PROVE Running'
  BY <1>5 DEF Running, Serve, GoAway, breaker, caller
<1>6. CASE UNCHANGED vars
  BY <1>6 DEF Running, vars, breaker, caller
<1> QED
  BY <1>1, <1>2, <1>3, <1>4, <1>5, <1>6 DEF Next

(* The pool with its first connection taken, or with c's put back.             *)
LEMMA PoolShrinks ==
  ASSUME TypeOK, PoolApart, pool # << >>, pool' = Tail(pool)
  PROVE  /\ \A i, j \in 1..Len(pool') : pool'[i] = pool'[j] => i = j
         /\ \A i \in 1..Len(pool') :
              pool'[i] # Head(pool) /\ \E j \in 1..Len(pool) : pool'[i] = pool[j]
<1>1. \A i \in 1..Len(pool') : i + 1 \in 1..Len(pool) /\ i + 1 # 1 /\ pool'[i] = pool[i + 1]
  BY PoolTail
<1>2. \A i \in 1..Len(pool') : i \in Nat
  OBVIOUS
<1> QED
  BY <1>1, <1>2, PoolTail DEF PoolApart

LEMMA PoolGrows ==
  ASSUME TypeOK, PoolApart, NEW c \in Callers, conn[c] \in Conns, pool' = Append(pool, conn[c])
  PROVE  /\ \A i, j \in 1..Len(pool') : pool'[i] = pool'[j] => i = j
         /\ \A i \in 1..Len(pool') :
              pool'[i] = conn[c] \/ \E j \in 1..Len(pool) : pool'[i] = pool[j]
<1>1. pool \in Seq(Conns) /\ Len(pool) \in Nat
  BY DEF TypeOK
<1>2. /\ Len(pool') = Len(pool) + 1 /\ pool'[Len(pool) + 1] = conn[c]
      /\ \A i \in 1..Len(pool) : pool'[i] = pool[i]
  BY <1>1
<1>3. \A i \in 1..Len(pool') : i \in 1..Len(pool) \/ i = Len(pool) + 1
  BY <1>1, <1>2
<1> QED
  BY <1>2, <1>3 DEF PoolApart

LEMMA OwnershipStep ==
  TypeOK /\ Ownership /\ Numbers /\ [Next]_vars => (Holders /\ PoolApart /\ Fresh)'
<1> SUFFICES ASSUME TypeOK, Ownership, Numbers, [Next]_vars
             PROVE  Holders' /\ PoolApart' /\ Fresh'
  OBVIOUS
<1> DEFINE Kept == Holders' /\ PoolApart' /\ Fresh'
<1>0. /\ at \in [Callers -> {"none", "get", "send", "wait", "return", "ok", "err"}]
      /\ conn \in [Callers -> Conns \cup {None}] /\ unused \subseteq Conns
      /\ None \notin Conns
      /\ Holders /\ PoolApart /\ Fresh
      /\ \A i \in 1..Len(pool) : pool[i] \in Conns
  BY BoundsAssumption DEF TypeOK, Ownership
<1>1. CASE Elapse \/ \E c \in Callers : BreakerStep(c) \/ reset_circuit_breaker(c)
  BY <1>0, <1>1, BreakerLeavesRequests DEF TypeOK, Holders, PoolApart, Fresh, caller, wire
<1>2. ASSUME NEW c \in Callers, send_request(c) PROVE Kept
  <2>1. at[c] \notin {"send", "wait", "return"}
    BY <1>2 DEF send_request, CB!can_execute, Ownership, Running
  <2>2. Holders'
    BY <1>0, <1>2, <2>1 DEF Holders, send_request, Move
  <2> QED
    BY <1>0, <1>2, <2>2 DEF PoolApart, Fresh, send_request, wire
<1>3. ASSUME NEW c \in Callers, FailAttempt(c), unused' = unused
      PROVE  Holders' /\ \A d \in Callers : conn'[d] = conn[d] \/ conn'[d] = None
  BY <1>0, <1>3, AttemptFails DEF Holders
<1>9. ASSUME \A d \in Callers : conn'[d] = conn[d] \/ conn'[d] = None, unused' = unused,
             pool' = pool
      PROVE  PoolApart'
  BY <1>0, <1>9 DEF PoolApart
<1>10. ASSUME \A d \in Callers : conn'[d] = conn[d] \/ conn'[d] = None, unused' = unused,
              PopDead
       PROVE  PoolApart'
  <2>1. CASE pool' = pool
    BY <1>9, <1>10, <2>1
  <2>2. CASE pool # << >> /\ pool' = Tail(pool)
    <3>1. \A i \in 1..Len(pool') : \E j \in 1..Len(pool) : pool'[i] = pool[j]
      BY <1>0, <2>2, PoolShrinks
    <3>2. \A i \in 1..Len(pool') : pool'[i] \notin unused' /\ \A d \in Callers : pool'[i] # conn'[d]
      BY <1>0, <1>10, <3>1 DEF PoolApart
    <3> QED
      BY <1>0, <2>2, <3>2, PoolShrinks DEF PoolApart
  <2> QED
    BY <1>10, <2>1, <2>2, PopDeadKeeps
<1>4. ASSUME NEW c \in Callers, RequestStep(c) PROVE Kept
  <2>1. CASE Reuse(c)
    <3>1. Head(pool) \in Conns \ unused /\ \A d \in Callers : conn[d] # Head(pool)
      BY <1>0, <2>1, PoolTail DEF Reuse, PoolApart
    <3>2. Holders'
      BY <1>0, <2>1, <3>1 DEF Holders, Reuse, Move
    <3>3. PoolApart'
      BY <1>0, <2>1, PoolShrinks DEF PoolApart, Reuse
    <3>4. Fresh'
      BY <1>0, <2>1, <3>1 DEF Fresh, Reuse, Write, TypeOK
    <3> QED
      BY <3>2, <3>3, <3>4
  <2>2. CASE Create(c)
    <3>1. PICK x \in unused : conn' = [conn EXCEPT ![c] = x] /\ unused' = unused \ {x}
      BY <2>2 DEF Create
    <3>2. Holders'
      BY <1>0, <2>2, <3>1 DEF Holders, Create, Move
    <3>3. PoolApart'
      BY <1>0, <2>2, <3>1, PopDeadKeeps, PoolShrinks DEF PoolApart, Create
    <3>4. Fresh'
      BY <1>0, <2>2, <3>1 DEF Fresh, Create, wire
    <3> QED
      BY <3>2, <3>3, <3>4
  <2>3. CASE NoConnection(c)
    <3>1. PoolApart'
      BY <1>3, <1>10, <2>3 DEF NoConnection
    <3> QED
      BY <1>0, <1>3, <2>3, <3>1 DEF Fresh, NoConnection, wire
  <2>4. CASE Send(c)
    <3>1. conn[c] \notin unused
      BY <1>0 DEF Holders
    <3>2. CASE FailAttempt(c) /\ UNCHANGED toGame
      <4>0. UNCHANGED <<unused, pool>>
        BY <2>4, SendCases
      <4>1. PoolApart' /\ Holders'
        BY <1>3, <1>9, <3>2, <4>0
      <4> QED
        BY <1>0, <2>4, <3>2, <4>1, SendCases DEF Fresh
    <3>3. CASE Write(conn[c], Text(cur[c])) /\ Move(c, "wait") /\ UNCHANGED <<attempt, conn>>
      <4>1. at[c] = "send"
        BY <2>4 DEF Send, At
      <4>2. Holders'
        BY <1>0, <2>4, <3>3, <4>1, SendCases DEF Holders, Move
      <4>3. Fresh'
        <5>1. /\ toGame' = [toGame EXCEPT ![conn[c]] = Append(toGame[conn[c]], Text(cur[c]))]
              /\ UNCHANGED <<toClient, unused>>
          BY <2>4, <3>3, SendCases DEF Write
        <5> QED
          BY <1>0, <3>1, <5>1 DEF Fresh, TypeOK
      <4> QED
        BY <1>0, <2>4, <3>3, <4>2, <4>3, SendCases DEF PoolApart
    <3> QED
      BY <2>4, <3>2, <3>3, SendCases
  <2>5. CASE Receive(c)
    <3>1. at[c] = "wait" /\ conn[c] \notin unused
      BY <1>0, <2>5 DEF Receive, At, Holders
    <3>2. Fresh'
      BY <1>0, <2>5, <3>1, ReceiveCases DEF Fresh, TypeOK
    <3>3. CASE FailAttempt(c)
      <4>1. UNCHANGED <<unused, pool>>
        BY <2>5, ReceiveCases
      <4> QED
        BY <1>3, <1>9, <3>2, <3>3, <4>1
    <3>4. CASE Move(c, "return") /\ UNCHANGED <<attempt, conn>>
      <4>1. Holders'
        BY <1>0, <2>5, <3>1, <3>4, ReceiveCases DEF Holders, Move
      <4> QED
        BY <1>0, <2>5, <3>2, <3>4, <4>1, ReceiveCases DEF PoolApart
    <3> QED
      BY <2>5, <3>3, <3>4, ReceiveCases
  <2>6. CASE NoAnswer(c)
    <3>1. PoolApart' /\ Holders'
      <4>1. UNCHANGED <<unused, pool>> /\ FailAttempt(c)
        BY <2>6 DEF NoAnswer
      <4> QED
        BY <1>3, <1>9, <4>1
    <3> QED
      BY <1>0, <2>6, <3>1 DEF Fresh, NoAnswer, wire
  <2>7. CASE ReturnConnection(c)
    <3>1. at[c] = "return" /\ conn[c] \in Conns \ unused
      BY <1>0, <2>7, Holding DEF ReturnConnection, At, Holders
    <3>2. Holders'
      BY <1>0, <2>7, <3>1 DEF Holders, ReturnConnection, Move
    <3>3. \A d \in Callers : conn'[d] # conn[c]
      BY <1>0, <2>7, <3>1 DEF Holders, ReturnConnection
    <3>4. \A d \in Callers : conn'[d] = conn[d] \/ conn'[d] = None
      BY <1>0, <2>7 DEF ReturnConnection
    <3>5. CASE pool' = Append(pool, conn[c]) /\ Write(conn[c], Control("ping"))
      <4>1. PoolApart'
        <5>1. \A i \in 1..Len(pool') :
                pool'[i] = conn[c] \/ \E j \in 1..Len(pool) : pool'[i] = pool[j]
          BY <1>0, <3>1, <3>5, PoolGrows
        <5>2. unused' = unused
          BY <2>7 DEF ReturnConnection
        <5>3. \A i \in 1..Len(pool') :
                pool'[i] \notin unused' /\ \A d \in Callers : pool'[i] # conn'[d]
          BY <1>0, <3>1, <3>3, <3>4, <5>1, <5>2 DEF PoolApart
        <5> QED
          BY <1>0, <3>1, <3>5, <5>3, PoolGrows DEF PoolApart
      <4>2. Fresh'
        BY <1>0, <2>7, <3>1, <3>5 DEF Fresh, Write, ReturnConnection, TypeOK
      <4> QED
        BY <3>2, <4>1, <4>2
    <3>6. CASE UNCHANGED <<pool, toGame>>
      <4>1. UNCHANGED <<unused, toClient>>
        BY <2>7 DEF ReturnConnection
      <4>2. PoolApart'
        BY <1>9, <3>4, <3>6, <4>1
      <4> QED
        BY <1>0, <3>2, <3>6, <4>1, <4>2 DEF Fresh
    <3> QED
      BY <2>7, <3>5, <3>6 DEF ReturnConnection
  <2>8. CASE Finish(c)
    <3>1. at[c] \notin {"send", "wait", "return"}
      BY <2>8 DEF Finish, At
    <3>2. Holders'
      BY <1>0, <2>8, <3>1 DEF Holders, Finish, Move
    <3> QED
      BY <1>0, <2>8, <3>2 DEF PoolApart, Fresh, Finish, wire
  <2> QED
    BY <1>4, <2>1, <2>2, <2>3, <2>4, <2>5, <2>6, <2>7, <2>8 DEF RequestStep
<1>5. ASSUME NEW x \in Conns, Serve(x) PROVE Kept
  <2>1. x \notin unused
    BY <1>0, <1>5 DEF Serve, Fresh
  <2>2. Fresh'
    BY <1>0, <1>5, <2>1 DEF Fresh, Serve, TypeOK
  <2> QED
    BY <1>0, <1>5, <2>2 DEF Holders, PoolApart, Serve, caller
<1>6. ASSUME NEW x \in Conns, GoAway(x) PROVE Kept
  <2>1. Fresh'
    BY <1>0, <1>6 DEF Fresh, GoAway, TypeOK
  <2> QED
    BY <1>0, <1>6, <2>1 DEF Holders, PoolApart, GoAway, caller
<1>7. CASE UNCHANGED vars
  BY <1>0, <1>7 DEF Holders, PoolApart, Fresh, vars, caller, wire
<1> QED
  BY <1>1, <1>2, <1>4, <1>5, <1>6, <1>7 DEF Next
-----------------------------------------------------------------------------
LEMMA NumberedStep == TypeOK /\ Ownership /\ Numbers /\ [Next]_vars => Numbered'
<1> SUFFICES ASSUME TypeOK, Ownership, Numbers, [Next]_vars PROVE Numbered'
  OBVIOUS
<1>0. /\ at \in [Callers -> {"none", "get", "send", "wait", "return", "ok", "err"}]
      /\ cur \in [Callers -> 0..MaxRequests] /\ attempt \in [Callers -> 0..MaxAttempts]
      /\ next \in 1..MaxRequests + 1 /\ MaxRequests \in Nat
      /\ Numbered
  BY BoundsAssumption DEF TypeOK, Numbers
<1>1. CASE Elapse \/ \E c \in Callers : BreakerStep(c) \/ reset_circuit_breaker(c)
  BY <1>0, <1>1, BreakerLeavesRequests DEF TypeOK, Numbered, caller
<1>2. ASSUME NEW c \in Callers, send_request(c) PROVE Numbered'
  BY <1>0, <1>2 DEF Numbered, send_request, Move
<1>3. ASSUME NEW c \in Callers, RequestStep(c) PROVE Numbered'
  <2>1. next' = next /\ cur' = cur
    BY <1>3 DEF RequestStep, Reuse, Create, NoConnection, Send, Receive, NoAnswer,
       ReturnConnection, Finish, FailAttempt
  <2>2. \E p : at' = [at EXCEPT ![c] = p]
    BY <1>3 DEF RequestStep, Reuse, Create, NoConnection, Send, Receive, NoAnswer,
       ReturnConnection, Finish, FailAttempt, Move
  <2>3. attempt' = attempt \/ attempt' = [attempt EXCEPT ![c] = attempt[c] + 1]
    BY <1>0, <1>3 DEF RequestStep, Reuse, Create, NoConnection, Send, Receive, NoAnswer,
       ReturnConnection, Finish, FailAttempt
  <2>4. at[c] # "none"
    BY <1>3 DEF RequestStep, Reuse, Create, NoConnection, Send, Receive, NoAnswer,
       ReturnConnection, Finish, At
  <2>5. \A d \in Callers : attempt[d] # 0 => attempt'[d] # 0
    BY <1>0, <2>3
  <2> QED
    BY <1>0, <2>1, <2>2, <2>4, <2>5 DEF Numbered
<1>4. ASSUME NEW x \in Conns, Serve(x) \/ GoAway(x) PROVE Numbered'
  BY <1>0, <1>4 DEF Numbered, Serve, GoAway, caller
<1>5. CASE UNCHANGED vars
  BY <1>0, <1>5 DEF Numbered, vars, caller
<1> QED
  BY <1>1, <1>2, <1>3, <1>4, <1>5 DEF Next

(* What can be written on a connection, and what that leaves known.            *)
LEMMA WriteKnown ==
  ASSUME TypeOK, Known, next' = next, NEW x \in Conns, NEW f \in Frames, Write(x, f),
         f = Control("ping") \/ \E n \in Requests : n < next /\ f = Text(n)
  PROVE  Known'
<1>1. toGame' = [toGame EXCEPT ![x] = Append(toGame[x], f)]
      /\ toGame \in [Conns -> Seq(Frames)]
  BY DEF Write, TypeOK
<1>2. ASSUME NEW i \in 1..Len(toGame'[x])
      PROVE  \/ toGame'[x][i] = Control("ping")
             \/ \E n \in Requests : n < next /\ toGame'[x][i] = Text(n)
  <2>1. toGame'[x] = Append(toGame[x], f) /\ Len(toGame[x]) \in Nat
    BY <1>1
  <2>2. Len(toGame'[x]) = Len(toGame[x]) + 1
    BY <1>1, <2>1, Appended
  <2>3. i \in 1..Len(toGame[x]) \/ i = Len(toGame[x]) + 1
    BY <2>1, <2>2
  <2> QED
    BY <1>1, <2>1, <2>3, Appended DEF Known
<1> QED
  BY <1>1, <1>2 DEF Known

LEMMA KnownStep == TypeOK /\ Ownership /\ Numbers /\ [Next]_vars => Known'
<1> SUFFICES ASSUME TypeOK, Ownership, Numbers, [Next]_vars PROVE Known'
  OBVIOUS
<1>0. Known /\ Numbered
  BY DEF Numbers
<1>1. CASE UNCHANGED <<next, toGame>>
  BY <1>0, <1>1 DEF Known
<1>2. CASE Elapse \/ \E c \in Callers : BreakerStep(c) \/ reset_circuit_breaker(c)
  BY <1>1, <1>2, BreakerLeavesRequests DEF TypeOK, wire
<1>3. ASSUME NEW c \in Callers, send_request(c) PROVE Known'
  <2>1. toGame' = toGame /\ next' = next + 1 /\ next \in Nat
    BY <1>3, BoundsAssumption DEF send_request, wire, TypeOK
  <2>2. \A n \in Requests : n < next => n < next + 1
    BY <2>1 DEF Requests
  <2> QED
    BY <1>0, <2>1, <2>2 DEF Known
<1>4. ASSUME NEW c \in Callers, RequestStep(c) PROVE Known'
  <2>1. CASE Reuse(c)
    <3>1. Head(pool) \in Conns /\ Control("ping") \in Frames
      BY <2>1, PoolTail, FrameFacts DEF Reuse
    <3> QED
      BY <1>0, <2>1, <3>1, WriteKnown DEF Reuse
  <2>2. CASE Send(c)
    <3>1. CASE Write(conn[c], Text(cur[c]))
      <4>1. cur[c] < next
        BY <1>0 DEF Numbered
      <4> QED
        BY <1>0, <2>2, <3>1, <4>1, SendCases, WriteKnown, FrameFacts
    <3>2. CASE UNCHANGED toGame
      BY <1>1, <2>2, <3>2, SendCases
    <3> QED
      BY <2>2, <3>1, <3>2, SendCases
  <2>3. CASE ReturnConnection(c)
    <3>1. conn[c] \in Conns /\ Control("ping") \in Frames
      BY <2>3, Holding, FrameFacts DEF ReturnConnection, At
    <3>2. CASE Write(conn[c], Control("ping"))
      BY <1>0, <2>3, <3>1, <3>2, WriteKnown DEF ReturnConnection
    <3> QED
      BY <1>1, <2>3, <3>2 DEF ReturnConnection
  <2>4. CASE Create(c) \/ NoConnection(c) \/ Receive(c) \/ NoAnswer(c) \/ Finish(c)
    BY <1>1, <2>4 DEF Create, NoConnection, Receive, NoAnswer, Finish, FailAttempt, wire
  <2> QED
    BY <1>4, <2>1, <2>2, <2>3, <2>4 DEF RequestStep
<1>5. ASSUME NEW x \in Conns, Serve(x) PROVE Known'
  <2>1. /\ toGame' = [toGame EXCEPT ![x] = Tail(toGame[x])] /\ next' = next
        /\ toGame[x] \in Seq(Frames) /\ toGame[x] # << >> /\ toGame \in [Conns -> Seq(Frames)]
    BY <1>0, <1>5, ServeCases DEF TypeOK
  <2>2. \A i \in 1..Len(Tail(toGame[x])) :
          i + 1 \in 1..Len(toGame[x]) /\ Tail(toGame[x])[i] = toGame[x][i + 1]
    BY <2>1, HeadRead
  <2> QED
    BY <1>0, <2>1, <2>2 DEF Known
<1>6. ASSUME NEW x \in Conns, GoAway(x) PROVE Known'
  BY <1>1, <1>6 DEF GoAway
<1>7. CASE UNCHANGED vars
  BY <1>1, <1>7 DEF vars, wire
<1> QED
  BY <1>2, <1>3, <1>4, <1>5, <1>6, <1>7 DEF Next
-----------------------------------------------------------------------------
(* What is kept of the answers outstanding by every step but the writing of a  *)
(* request.                                                                    *)
TextKept ==
  \A x \in Conns :
    /\ OneAnswer(x) => OneAnswer(x)'
    /\ NoText(x) => NoText(x)'
    /\ \A n \in Requests : OnlyAnswers(x, n) => OnlyAnswers(x, n)'

(* Nothing is written or read.                                                 *)
LEMMA QuietKeepsText == ASSUME UNCHANGED <<toGame, toClient>> PROVE TextKept
  BY DEF TextKept, OneAnswer, NoText, OnlyAnswers, TextAt

(* A control frame is appended.                                                *)
LEMMA ControlKeepsText ==
  ASSUME TypeOK, NEW x \in Conns, NEW f \in Frames, f.kind # "text",
         \/ toGame' = [toGame EXCEPT ![x] = Append(toGame[x], f)] /\ toClient' = toClient
         \/ toClient' = [toClient EXCEPT ![x] = Append(toClient[x], f)] /\ toGame' = toGame
  PROVE  TextKept
<1>1. toGame \in [Conns -> Seq(Frames)] /\ toClient \in [Conns -> Seq(Frames)]
  BY DEF TypeOK
<1>2. ASSUME NEW q \in Seq(Frames)
      PROVE  /\ TextAt(Append(q, f)) = TextAt(q)
             /\ \A i \in TextAt(q) : Append(q, f)[i] = q[i]
  BY Appended DEF TextAt
<1>3. ASSUME NEW y \in Conns
      PROVE  /\ TextAt(toGame'[y]) = TextAt(toGame[y])
             /\ TextAt(toClient'[y]) = TextAt(toClient[y])
             /\ \A i \in TextAt(toGame[y]) : toGame'[y][i] = toGame[y][i]
             /\ \A i \in TextAt(toClient[y]) : toClient'[y][i] = toClient[y][i]
  <2>1. toGame'[y] = toGame[y] \/ toGame'[y] = Append(toGame[y], f)
    BY <1>1
  <2>2. toClient'[y] = toClient[y] \/ toClient'[y] = Append(toClient[y], f)
    BY <1>1
  <2>3. toGame[y] \in Seq(Frames) /\ toClient[y] \in Seq(Frames)
    BY <1>1
  <2> QED
    BY <1>2, <2>1, <2>2, <2>3
<1> QED
  BY <1>3 DEF TextKept, OneAnswer, NoText, OnlyAnswers

(* The client reads a frame.                                                   *)
LEMMA ReadKeepsText ==
  ASSUME TypeOK, NEW x \in Conns, toClient[x] # << >>,
         toClient' = [toClient EXCEPT ![x] = Tail(toClient[x])], toGame' = toGame
  PROVE  TextKept
<1>1. toClient \in [Conns -> Seq(Frames)]
  BY DEF TypeOK
<1>2. \A i \in TextAt(Tail(toClient[x])) :
        /\ i \in Nat /\ i + 1 \in TextAt(toClient[x])
        /\ Tail(toClient[x])[i] = toClient[x][i + 1]
  BY <1>1, HeadRead DEF TextAt
<1>3. toClient'[x] = Tail(toClient[x]) /\ \A y \in Conns \ {x} : toClient'[y] = toClient[y]
  BY <1>1
<1>4. OneAnswer(x) => OneAnswer(x)'
  BY <1>2, <1>3 DEF OneAnswer
<1>5. NoText(x) => NoText(x)'
  BY <1>2, <1>3 DEF NoText
<1>6. ASSUME NEW n \in Requests, OnlyAnswers(x, n) PROVE OnlyAnswers(x, n)'
  <2>1. \A i \in TextAt(toGame'[x]) : toGame'[x][i].n = n
    BY <1>6 DEF OnlyAnswers
  <2>2. \A i \in TextAt(toClient'[x]) : toClient'[x][i].n = n
    <3>1. \A i \in TextAt(toClient[x]) : toClient[x][i].n = n
      BY <1>6 DEF OnlyAnswers
    <3>2. \A i \in TextAt(Tail(toClient[x])) : Tail(toClient[x])[i].n = n
      BY <1>2, <3>1
    <3> QED
      BY <1>3, <3>2
  <2> QED
    BY <2>1, <2>2 DEF OnlyAnswers
<1>7. ASSUME NEW y \in Conns \ {x}
      PROVE  /\ OneAnswer(y) => OneAnswer(y)'
             /\ NoText(y) => NoText(y)'
             /\ \A n \in Requests : OnlyAnswers(y, n) => OnlyAnswers(y, n)'
  BY <1>3 DEF OneAnswer, NoText, OnlyAnswers
<1> QED
  BY <1>4, <1>5, <1>6, <1>7 DEF TextKept

(* The game reads a frame and answers it.                                      *)
LEMMA ServeKeepsText ==
  ASSUME TypeOK, Numbers, NEW x \in Conns, Serve(x)
  PROVE  TextKept
<1>1. toGame \in [Conns -> Seq(Frames)] /\ toClient \in [Conns -> Seq(Frames)]
  BY DEF TypeOK
<1>2. /\ toGame[x] # << >> /\ toGame'[x] = Tail(toGame[x])
      /\ \A y \in Conns \ {x} : toGame'[y] = toGame[y] /\ toClient'[y] = toClient[y]
  BY <1>1, ServeCases
<1>3. \A i \in TextAt(toGame'[x]) :
        /\ i \in Nat /\ i + 1 \in TextAt(toGame[x]) /\ i + 1 # 1
        /\ toGame'[x][i] = toGame[x][i + 1]
  BY <1>1, <1>2, HeadRead DEF TextAt
<1>4. PICK f \in Frames :
        /\ toClient'[x] = Append(toClient[x], f)
        /\ f.kind = "text" => 1 \in TextAt(toGame[x]) /\ f.n = toGame[x][1].n
  <2>1. CASE toClient' = [toClient EXCEPT ![x] = Append(toClient[x], Control("pong"))]
    <3>1. Control("pong") \in Frames /\ Control("pong").kind # "text"
      BY FrameFacts
    <3> QED
      BY <1>1, <2>1, <3>1
  <2>2. ASSUME NEW n \in Requests, Head(toGame[x]) = Text(n),
               toClient' = [toClient EXCEPT ![x] = Append(toClient[x], Text(n))]
        PROVE  /\ Text(n) \in Frames /\ toClient'[x] = Append(toClient[x], Text(n))
               /\ 1 \in TextAt(toGame[x]) /\ Text(n).n = toGame[x][1].n
    BY <1>1, <1>2, <2>2, HeadRead, FrameFacts
  <2> QED
    BY <2>1, <2>2, ServeCases
<1>5. /\ Len(toClient[x]) + 1 \notin TextAt(toClient[x])
      /\ \A i \in TextAt(toClient[x]) : toClient'[x][i] = toClient[x][i]
      /\ toClient'[x][Len(toClient[x]) + 1] = f
      /\ f.kind # "text" => TextAt(toClient'[x]) = TextAt(toClient[x])
      /\ f.kind = "text" => TextAt(toClient'[x]) = TextAt(toClient[x]) \cup {Len(toClient[x]) + 1}
  BY <1>1, <1>4, Appended DEF TextAt
<1>6. OneAnswer(x) => OneAnswer(x)'
  <2>1. CASE f.kind # "text"
    BY <1>3, <1>5, <2>1 DEF OneAnswer
  <2>2. CASE f.kind = "text"
    <3>1. OneAnswer(x) => TextAt(toGame'[x]) = {} /\ TextAt(toClient[x]) = {}
      BY <1>3, <1>4, <2>2 DEF OneAnswer
    <3> QED
      BY <1>5, <2>2, <3>1 DEF OneAnswer
  <2> QED
    BY <2>1, <2>2
<1>7. NoText(x) => NoText(x)'
  BY <1>3, <1>4, <1>5 DEF NoText
<1>8. ASSUME NEW n \in Requests, OnlyAnswers(x, n) PROVE OnlyAnswers(x, n)'
  <2>1. \A i \in TextAt(toGame'[x]) : toGame'[x][i].n = n
    BY <1>3, <1>8 DEF OnlyAnswers
  <2>2. \A i \in TextAt(toClient[x]) : toClient'[x][i].n = n
    BY <1>5, <1>8 DEF OnlyAnswers
  <2>3. f.kind = "text" => toClient'[x][Len(toClient[x]) + 1].n = n
    BY <1>4, <1>5, <1>8 DEF OnlyAnswers
  <2>4. \A i \in TextAt(toClient'[x]) : toClient'[x][i].n = n
    BY <1>5, <2>2, <2>3
  <2> QED
    BY <2>1, <2>4 DEF OnlyAnswers
<1>9. ASSUME NEW y \in Conns \ {x}
      PROVE  /\ OneAnswer(y) => OneAnswer(y)'
             /\ NoText(y) => NoText(y)'
             /\ \A n \in Requests : OnlyAnswers(y, n) => OnlyAnswers(y, n)'
  BY <1>2 DEF OneAnswer, NoText, OnlyAnswers
<1> QED
  BY <1>6, <1>7, <1>8, <1>9 DEF TextKept
(* A request is written on a connection with nothing outstanding.              *)
LEMMA RequestWritten ==
  ASSUME TypeOK, NEW x \in Conns, NEW n \in Requests, Write(x, Text(n)), toClient' = toClient,
         NoText(x)
  PROVE  /\ OneAnswer(x)' /\ OnlyAnswers(x, n)'
         /\ \A y \in Conns \ {x} : toGame'[y] = toGame[y]
<1>1. /\ toGame'[x] = Append(toGame[x], Text(n)) /\ toGame[x] \in Seq(Frames)
      /\ \A y \in Conns \ {x} : toGame'[y] = toGame[y]
  BY DEF TypeOK, Write
<1>2. Text(n) \in Frames /\ Text(n).kind = "text" /\ Text(n).n = n
  BY FrameFacts
<1>3. /\ TextAt(toGame'[x]) = {Len(toGame[x]) + 1}
      /\ toGame'[x][Len(toGame[x]) + 1] = Text(n)
  BY <1>1, <1>2, Appended DEF NoText
<1>4. TextAt(toClient'[x]) = {}
  BY DEF NoText
<1> QED
  BY <1>1, <1>2, <1>3, <1>4 DEF OneAnswer, OnlyAnswers

(* Every step but that keeps what is outstanding.                              *)
LEMMA TextStep ==
  ASSUME TypeOK, Ownership, Numbers, [Next]_vars
  PROVE  TextKept \/ \E c \in Callers : Send(c) /\ Write(conn[c], Text(cur[c]))
<1>1. CASE Elapse \/ \E c \in Callers : BreakerStep(c) \/ reset_circuit_breaker(c)
  BY <1>1, BreakerLeavesRequests, QuietKeepsText DEF TypeOK, wire
<1>2. ASSUME NEW c \in Callers, send_request(c) PROVE TextKept
  BY <1>2, QuietKeepsText DEF send_request, wire
<1>3. ASSUME NEW c \in Callers, RequestStep(c), ~(Send(c) /\ Write(conn[c], Text(cur[c])))
      PROVE  TextKept
  <2>0. Control("ping") \in Frames /\ Control("ping").kind # "text"
    BY FrameFacts
  <2>1. CASE Reuse(c)
    <3>1. Head(pool) \in Conns
      BY <2>1, PoolTail DEF Reuse
    <3>2. /\ toGame' = [toGame EXCEPT ![Head(pool)] = Append(toGame[Head(pool)], Control("ping"))]
          /\ toClient' = toClient
      BY <2>1 DEF Reuse, Write
    <3> QED
      BY <2>0, <3>1, <3>2, ControlKeepsText
  <2>2. CASE ReturnConnection(c)
    <3>1. conn[c] \in Conns
      BY <2>2, Holding DEF ReturnConnection, At
    <3>2. CASE Write(conn[c], Control("ping"))
      <4>1. /\ toGame' = [toGame EXCEPT ![conn[c]] = Append(toGame[conn[c]], Control("ping"))]
            /\ toClient' = toClient
        BY <2>2, <3>2 DEF ReturnConnection, Write
      <4> QED
        BY <2>0, <3>1, <4>1, ControlKeepsText
    <3>3. CASE UNCHANGED toGame
      BY <2>2, <3>3, QuietKeepsText DEF ReturnConnection
    <3> QED
      BY <2>2, <3>2, <3>3 DEF ReturnConnection
  <2>3. CASE Send(c)
    BY <1>3, <2>3, SendCases, QuietKeepsText
  <2>4. CASE Receive(c)
    BY <2>4, ReceiveCases, ReadKeepsText
  <2>5. CASE Create(c) \/ NoConnection(c) \/ NoAnswer(c) \/ Finish(c)
    BY <2>5, QuietKeepsText DEF Create, NoConnection, NoAnswer, Finish, wire
  <2> QED
    BY <1>3, <2>1, <2>2, <2>3, <2>4, <2>5 DEF RequestStep
<1>4. ASSUME NEW x \in Conns, Serve(x) PROVE TextKept
  BY <1>4, ServeKeepsText
<1>5. ASSUME NEW x \in Conns, GoAway(x) PROVE TextKept
  <2>1. Control("close") \in Frames /\ Control("close").kind # "text"
    BY FrameFacts
  <2>2. CASE toClient' = [toClient EXCEPT ![x] = Append(toClient[x], Control("close"))]
    BY <1>5, <2>1, <2>2, ControlKeepsText DEF GoAway
  <2> QED
    BY <1>5, <2>2, QuietKeepsText DEF GoAway
<1>6. CASE UNCHANGED vars
  BY <1>6, QuietKeepsText DEF vars, wire
<1> QED
  BY <1>1, <1>2, <1>3, <1>4, <1>5, <1>6 DEF Next
(* A caller that stays where it is keeps what Wire says of it ...              *)
LEMMA StaysWired ==
  ASSUME TypeOK, Ownership, Numbers, TextKept, NEW d \in Callers, Wired(d),
         at'[d] = at[d], conn'[d] = conn[d], cur'[d] = cur[d], answer'[d] = answer[d]
  PROVE  Wired(d)'
<1>1. CASE at[d] \in {"send", "return"}
  <2>1. NoText(conn[d]) /\ conn[d] \in Conns
    BY <1>1, Holding DEF Wired
  <2>2. TextAt(toGame'[conn[d]]) = {} /\ TextAt(toClient'[conn[d]]) = {}
    BY <2>1 DEF TextKept, NoText
  <2> QED
    BY <1>1, <2>2 DEF Wired, NoText
<1>2. CASE at[d] = "wait"
  <2>1. OnlyAnswers(conn[d], cur[d]) /\ conn[d] \in Conns /\ cur[d] \in Requests
    BY <1>2, Holding DEF Wired
  <2>2. /\ \A i \in TextAt(toGame'[conn[d]]) : toGame'[conn[d]][i].n = cur[d]
        /\ \A i \in TextAt(toClient'[conn[d]]) : toClient'[conn[d]][i].n = cur[d]
    BY <2>1 DEF TextKept, OnlyAnswers
  <2> QED
    BY <1>2, <2>2 DEF Wired, OnlyAnswers
<1>3. CASE at[d] \notin {"send", "return", "wait"}
  BY <1>3 DEF Wired
<1> QED
  BY <1>1, <1>2, <1>3

(* ... and one whose attempt fails owes nothing.                               *)
LEMMA FailedIsWired ==
  ASSUME TypeOK, NEW c \in Callers, FailAttempt(c)
  PROVE  Wired(c)' /\ \A d \in Callers \ {c} :
           at'[d] = at[d] /\ conn'[d] = conn[d] /\ cur'[d] = cur[d] /\ answer'[d] = answer[d]
<1>1. at'[c] \in {"get", "err"}
  BY AttemptFails DEF TypeOK
<1> QED
  BY <1>1, AttemptFails DEF Wired, TypeOK

LEMMA PoolWired ==
  ASSUME TypeOK, Wire, TextKept,
         \A i \in 1..Len(pool') : \E j \in 1..Len(pool) : pool'[i] = pool[j]
  PROVE  (\A i \in 1..Len(pool) : NoText(pool[i]))'
<1>1. \A j \in 1..Len(pool) : pool[j] \in Conns /\ NoText(pool[j])
  BY DEF TypeOK, Wire
<1>2. \A j \in 1..Len(pool) : TextAt(toGame'[pool[j]]) = {} /\ TextAt(toClient'[pool[j]]) = {}
  BY <1>1 DEF TextKept, NoText
<1> QED
  BY <1>2 DEF NoText

(* A pooled connection has nothing outstanding: the step that uses it.         *)
LEMMA WireStep == TypeOK /\ Ownership /\ Numbers /\ Wire /\ [Next]_vars => Wire'
<1> SUFFICES ASSUME TypeOK, Ownership, Numbers, Wire, [Next]_vars PROVE Wire'
  OBVIOUS
<1>0. /\ at \in [Callers -> {"none", "get", "send", "wait", "return", "ok", "err"}]
      /\ conn \in [Callers -> Conns \cup {None}] /\ cur \in [Callers -> 0..MaxRequests]
      /\ answer \in [Callers -> 0..MaxRequests]
      /\ \A d \in Callers : Wired(d)
  BY DEF TypeOK, Wire
<1> DEFINE Stays(d) ==
      at'[d] = at[d] /\ conn'[d] = conn[d] /\ cur'[d] = cur[d] /\ answer'[d] = answer[d]
           PoolKept == \A i \in 1..Len(pool') : \E j \in 1..Len(pool) : pool'[i] = pool[j]
<1>1. ASSUME TextKept PROVE \A x \in Conns : OneAnswer(x)'
  BY <1>1 DEF TextKept, Wire
<1>2. ASSUME TextKept, PoolKept, NEW c \in Callers, Wired(c)', \A d \in Callers \ {c} : Stays(d)
      PROVE  Wire'
  <2>1. \A d \in Callers : Wired(d)'
    BY <1>0, <1>2, StaysWired
  <2> QED
    BY <1>1, <1>2, <2>1, PoolWired DEF Wire
<1>3. ASSUME TextKept, pool' = pool, UNCHANGED <<at, conn, cur, answer>> PROVE Wire'
  <2>1. \A d \in Callers : Wired(d)'
    BY <1>0, <1>3, StaysWired
  <2> QED
    BY <1>1, <1>3, <2>1, PoolWired DEF Wire
<1>4. ASSUME NEW c \in Callers, Send(c), Write(conn[c], Text(cur[c])) PROVE Wire'
  <2>1. at[c] = "send" /\ NoText(conn[c])
    BY <1>0, <1>4 DEF Send, At, Wired
  <2>2. /\ conn[c] \in Conns /\ cur[c] \in Requests
        /\ UNCHANGED <<pool, cur, answer, toClient>>
    BY <1>4, SendCases
  <2>3. PICK x \in Conns : x = conn[c]
    BY <2>2
  <2>4. /\ OneAnswer(x)'
        /\ \A i \in TextAt(toGame'[x]) : toGame'[x][i].n = cur[c]
        /\ \A i \in TextAt(toClient'[x]) : toClient'[x][i].n = cur[c]
        /\ \A y \in Conns \ {x} : toGame'[y] = toGame[y] /\ toClient'[y] = toClient[y]
    <3>1. PICK n \in Requests : n = cur[c]
      BY <2>2
    <3>2. NoText(x) /\ Write(x, Text(n))
      BY <1>4, <2>1, <2>3, <3>1
    <3> QED
      BY <2>2, <3>1, <3>2, RequestWritten DEF OnlyAnswers
  <2>5. \A y \in Conns : OneAnswer(y)'
    <3>1. ASSUME NEW y \in Conns \ {x} PROVE OneAnswer(y)'
      <4>1. OneAnswer(y)
        BY DEF Wire
      <4> QED
        BY <2>4, <4>1 DEF OneAnswer
    <3> QED
      BY <2>4, <3>1
  <2>6. (\A i \in 1..Len(pool) : NoText(pool[i]))'
    <3>1. \A i \in 1..Len(pool) : pool[i] \in Conns \ {x} /\ NoText(pool[i])
      BY <2>3 DEF TypeOK, Ownership, PoolApart, Wire
    <3> QED
      BY <2>2, <2>4, <3>1 DEF NoText
  <2>7. ASSUME NEW d \in Callers \ {c} PROVE Wired(d)'
    <3>1. Stays(d)
      BY <1>0, <1>4, <2>2, AttemptFails, SendCases DEF Move
    <3>2. CASE at[d] \in {"send", "return", "wait"}
      <4>1. conn[d] \in Conns \ {x}
        BY <2>1, <2>3, <3>2, Holding DEF Ownership, Holders
      <4>2. toGame'[conn[d]] = toGame[conn[d]] /\ toClient'[conn[d]] = toClient[conn[d]]
        BY <2>4, <4>1
      <4> QED
        BY <1>0, <3>1, <4>2 DEF Wired, NoText, OnlyAnswers
    <3>3. CASE at[d] \notin {"send", "return", "wait"}
      BY <1>0, <3>1, <3>3 DEF Wired
    <3> QED
      BY <3>2, <3>3
  <2>8. Wired(c)'
    <3>1. CASE FailAttempt(c)
      BY <3>1, FailedIsWired
    <3>2. CASE Move(c, "wait") /\ UNCHANGED conn
      <4>1. at'[c] = "wait" /\ conn'[c] = x /\ cur'[c] = cur[c]
        BY <1>0, <2>2, <2>3, <3>2 DEF Move
      <4> QED
        BY <2>4, <4>1 DEF Wired, OnlyAnswers
    <3> QED
      BY <1>4, <3>1, <3>2, SendCases
  <2> QED
    BY <2>5, <2>6, <2>7, <2>8 DEF Wire
<1> SUFFICES ASSUME TextKept PROVE Wire'
  BY <1>4, TextStep
<1>5. CASE Elapse \/ \E c \in Callers : BreakerStep(c) \/ reset_circuit_breaker(c)
  BY <1>3, <1>5, BreakerLeavesRequests DEF TypeOK, caller
<1>6. ASSUME NEW c \in Callers, send_request(c) PROVE Wire'
  <2>1. /\ at' = [at EXCEPT ![c] = "get"] /\ cur' = [cur EXCEPT ![c] = next]
        /\ UNCHANGED <<conn, answer, pool>>
    BY <1>6 DEF send_request, Move
  <2>2. Wired(c)' /\ \A d \in Callers \ {c} : Stays(d)
    BY <1>0, <2>1 DEF Wired
  <2> QED
    BY <1>2, <2>1, <2>2
<1>7. ASSUME NEW c \in Callers, FailAttempt(c), PoolKept PROVE Wire'
  BY <1>2, <1>7, FailedIsWired
<1>8. PopDead => PoolKept
  BY PopDeadKeeps, PoolShrinks DEF Ownership
<1>9. ASSUME NEW c \in Callers, RequestStep(c) PROVE Wire'
  <2>1. CASE Reuse(c)
    <3>1. Head(pool) \in Conns /\ NoText(Head(pool))
      BY <2>1, PoolTail DEF Reuse, Wire
    <3>2. TextAt(toGame'[Head(pool)]) = {} /\ TextAt(toClient'[Head(pool)]) = {}
      BY <3>1 DEF TextKept, NoText
    <3>3. at'[c] = "send" /\ conn'[c] = Head(pool) /\ \A d \in Callers \ {c} : Stays(d)
      BY <1>0, <2>1 DEF Reuse, Move
    <3>4. Wired(c)'
      BY <3>2, <3>3 DEF Wired, NoText
    <3>5. PoolKept
      BY <2>1, PoolShrinks DEF Reuse, Ownership
    <3> QED
      BY <1>2, <3>3, <3>4, <3>5
  <2>2. CASE Create(c)
    <3>1. PICK x \in unused : conn' = [conn EXCEPT ![c] = x]
      BY <2>2 DEF Create
    <3>2. toGame'[x] = << >> /\ toClient'[x] = << >>
      BY <2>2 DEF Create, wire, Ownership, Fresh
    <3>3. at'[c] = "send" /\ conn'[c] = x /\ \A d \in Callers \ {c} : Stays(d)
      BY <1>0, <2>2, <3>1 DEF Create, Move
    <3>4. Wired(c)'
      BY <3>2, <3>3 DEF Wired, NoText, TextAt
    <3> QED
      BY <1>2, <1>8, <2>2, <3>3, <3>4 DEF Create
  <2>3. CASE NoConnection(c)
    BY <1>7, <1>8, <2>3 DEF NoConnection
  <2>4. CASE Send(c)
    BY <1>4, <1>7, <2>4, SendCases
  <2>5. CASE Receive(c)
    <3>1. CASE FailAttempt(c)
      BY <1>7, <2>5, <3>1, ReceiveCases
    <3>2. CASE /\ Head(toClient[conn[c]]).kind = "text" /\ Move(c, "return")
               /\ answer' = [answer EXCEPT ![c] = Head(toClient[conn[c]]).n]
               /\ UNCHANGED <<attempt, conn>>
      <4>1. /\ conn[c] \in Conns /\ toClient[conn[c]] \in Seq(Frames)
            /\ toClient[conn[c]] # << >>
            /\ toClient'[conn[c]] = Tail(toClient[conn[c]]) /\ UNCHANGED <<toGame, pool, cur>>
        BY <2>5, ReceiveCases DEF TypeOK
      <4>2. 1 \in TextAt(toClient[conn[c]]) /\ Head(toClient[conn[c]]) = toClient[conn[c]][1]
        BY <3>2, <4>1, HeadRead
      <4>3. OneAnswer(conn[c]) /\ OnlyAnswers(conn[c], cur[c])
        BY <1>0, <2>5, <4>1 DEF Wire, Wired, Receive, At
      <4>4. TextAt(Tail(toClient[conn[c]])) = {}
        BY <4>1, <4>2, <4>3, HeadRead DEF OneAnswer
      <4>5. TextAt(toGame[conn[c]]) = {}
        BY <4>2, <4>3 DEF OneAnswer
      <4>6. /\ at'[c] = "return" /\ conn'[c] = conn[c] /\ cur'[c] = cur[c]
            /\ answer'[c] = cur[c]
            /\ \A d \in Callers \ {c} : Stays(d)
        BY <1>0, <3>2, <4>1, <4>2, <4>3 DEF Move, OnlyAnswers
      <4>7. Wired(c)'
        BY <4>1, <4>4, <4>5, <4>6 DEF Wired, NoText
      <4> QED
        BY <1>2, <4>1, <4>6, <4>7
    <3> QED
      BY <2>5, <3>1, <3>2, ReceiveCases
  <2>6. CASE NoAnswer(c)
    BY <1>7, <2>6 DEF NoAnswer
  <2>7. CASE ReturnConnection(c)
    <3>1. at[c] = "return" /\ conn[c] \in Conns /\ NoText(conn[c]) /\ answer[c] = cur[c]
      BY <1>0, <2>7, Holding DEF ReturnConnection, At, Wired
    <3>2. Wired(c)' /\ \A d \in Callers \ {c} : Stays(d)
      BY <1>0, <2>7, <3>1 DEF ReturnConnection, Move, Wired
    <3>3. CASE pool' = pool
      BY <1>2, <3>2, <3>3
    <3>4. CASE pool' = Append(pool, conn[c])
      <4>1. \A i \in 1..Len(pool') :
              pool'[i] = conn[c] \/ \E j \in 1..Len(pool) : pool'[i] = pool[j]
        BY <3>1, <3>4, PoolGrows DEF Ownership
      <4>2. \A i \in 1..Len(pool) : pool[i] \in Conns /\ NoText(pool[i])
        BY DEF TypeOK, Wire
      <4>3. \A x \in Conns : NoText(x) => TextAt(toGame'[x]) = {} /\ TextAt(toClient'[x]) = {}
        BY DEF TextKept, NoText
      <4>4. (\A i \in 1..Len(pool) : NoText(pool[i]))'
        BY <3>1, <4>1, <4>2, <4>3 DEF NoText
      <4>5. \A d \in Callers : Wired(d)'
        BY <1>0, <3>2, StaysWired
      <4> QED
        BY <1>1, <4>4, <4>5 DEF Wire
    <3> QED
      BY <2>7, <3>3, <3>4 DEF ReturnConnection
  <2>8. CASE Finish(c)
    <3>1. /\ at' = [at EXCEPT ![c] = "none"] /\ UNCHANGED <<conn, cur, answer, pool>>
      BY <2>8 DEF Finish, Move
    <3>2. Wired(c)' /\ \A d \in Callers \ {c} : Stays(d)
      BY <1>0, <3>1 DEF Wired
    <3> QED
      BY <1>2, <3>1, <3>2
  <2> QED
    BY <1>9, <2>1, <2>2, <2>3, <2>4, <2>5, <2>6, <2>7, <2>8 DEF RequestStep
<1>10. ASSUME NEW x \in Conns, Serve(x) \/ GoAway(x) PROVE Wire'
  BY <1>3, <1>10 DEF Serve, GoAway, caller
<1>11. CASE UNCHANGED vars
  BY <1>3, <1>11 DEF vars, caller
<1> QED
  BY <1>5, <1>6, <1>9, <1>10, <1>11 DEF Next
-----------------------------------------------------------------------------
LEMMA PendingFinite ==
  ASSUME NEW n \in Requests
  PROVE  /\ IsFiniteSet(Pending(n)) /\ Cardinality(Pending(n)) \in Nat
         /\ Pending(n) \subseteq Conns
<1>1. Pending(n) \subseteq Conns
  BY DEF Pending
<1> QED
  BY <1>1, BoundsAssumption, FS_Subset, FS_CardinalityType

(* A frame that is appended to q adds itself to the frames in q.               *)
LEMMA FramesAppended ==
  ASSUME NEW q \in Seq(Frames), NEW f \in Frames, NEW g
  PROVE  (\E i \in 1..Len(Append(q, f)) : Append(q, f)[i] = g) <=>
           (\E i \in 1..Len(q) : q[i] = g) \/ f = g
<1>1. Len(q) \in Nat /\ Len(Append(q, f)) = Len(q) + 1
  BY Appended
<1>2. \A i : i \in 1..Len(Append(q, f)) <=> i \in 1..Len(q) \/ i = Len(q) + 1
  BY <1>1
<1> QED
  BY <1>2, Appended

(* The frame that is read is in none of its places any more, or in another.    *)
LEMMA FramesRead ==
  ASSUME NEW q \in Seq(Frames), q # << >>, NEW g
  PROVE  (\E i \in 1..Len(q) : q[i] = g) <=>
           (\E i \in 1..Len(Tail(q)) : Tail(q)[i] = g) \/ Head(q) = g
  BY HeadRead

(* Steps that write no request and read nothing leave the pending ones.        *)
LEMMA PingLeavesPending ==
  ASSUME TypeOK, NEW x \in Conns, Write(x, Control("ping")), NEW n \in Requests
  PROVE  Pending(n)' = Pending(n)
<1>1. /\ toGame \in [Conns -> Seq(Frames)]
      /\ toGame' = [toGame EXCEPT ![x] = Append(toGame[x], Control("ping"))]
  BY DEF TypeOK, Write
<1>2. Control("ping") \in Frames /\ Control("ping") # Text(n)
  BY FrameFacts
<1>3. ASSUME NEW y \in Conns
      PROVE  (\E i \in 1..Len(toGame'[y]) : toGame'[y][i] = Text(n)) <=>
               (\E i \in 1..Len(toGame[y]) : toGame[y][i] = Text(n))
  <2>1. CASE y = x
    BY <1>1, <1>2, <2>1, FramesAppended
  <2>2. CASE y # x
    BY <1>1, <2>2
  <2> QED
    BY <2>1, <2>2
<1> QED
  BY <1>3 DEF Pending

LEMMA RequestIsPending ==
  ASSUME TypeOK, NEW x \in Conns, NEW m \in Requests, Write(x, Text(m)), NEW n \in Requests
  PROVE  Pending(n)' = IF n = m THEN Pending(n) \cup {x} ELSE Pending(n)
<1>1. /\ toGame \in [Conns -> Seq(Frames)]
      /\ toGame' = [toGame EXCEPT ![x] = Append(toGame[x], Text(m))]
  BY DEF TypeOK, Write
<1>2. Text(m) \in Frames /\ (Text(m) = Text(n) <=> m = n)
  BY FrameFacts
<1>3. (\E i \in 1..Len(toGame'[x]) : toGame'[x][i] = Text(n)) <=>
        (\E i \in 1..Len(toGame[x]) : toGame[x][i] = Text(n)) \/ m = n
  BY <1>1, <1>2, FramesAppended
<1>4. \A y \in Conns \ {x} : toGame'[y] = toGame[y]
  BY <1>1
<1> QED
  BY <1>3, <1>4 DEF Pending

(* The game executes a pending request, which is pending there only once.      *)
LEMMA ServeLeavesSpent ==
  ASSUME TypeOK, Numbers, Wire, NEW x \in Conns, Serve(x), NEW n \in Requests
  PROVE  Spent(n)' = Spent(n)
<1>1. /\ toGame \in [Conns -> Seq(Frames)] /\ toGame[x] # << >>
      /\ toGame'[x] = Tail(toGame[x]) /\ \A y \in Conns \ {x} : toGame'[y] = toGame[y]
      /\ executed \in [Requests -> Nat]
  BY ServeCases DEF TypeOK
<1>2. (x \in Pending(n)) <=> (x \in Pending(n)') \/ Head(toGame[x]) = Text(n)
  <2>1. (\E i \in 1..Len(toGame[x]) : toGame[x][i] = Text(n)) <=>
          (\E i \in 1..Len(toGame'[x]) : toGame'[x][i] = Text(n)) \/ Head(toGame[x]) = Text(n)
    <3>1. toGame[x] \in Seq(Frames)
      BY <1>1
    <3>2. (\E i \in 1..Len(toGame[x]) : toGame[x][i] = Text(n)) <=>
            \/ \E i \in 1..Len(Tail(toGame[x])) : Tail(toGame[x])[i] = Text(n)
            \/ Head(toGame[x]) = Text(n)
      BY <1>1, <3>1, FramesRead
    <3> QED
      BY <1>1, <3>2
  <2> QED
    BY <2>1 DEF Pending
<1>3. \A y \in Conns \ {x} : y \in Pending(n)' <=> y \in Pending(n)
  BY <1>1 DEF Pending
<1>4. Pending(n) \subseteq Conns /\ Pending(n)' \subseteq Conns
  BY DEF Pending
<1>5. CASE Head(toGame[x]) # Text(n)
  <2>1. Pending(n)' = Pending(n)
    BY <1>2, <1>3, <1>4, <1>5
  <2>2. executed'[n] = executed[n]
    BY <1>1, <1>5, ServeCases
  <2> QED
    BY <2>1, <2>2 DEF Spent
<1>6. CASE Head(toGame[x]) = Text(n)
  <2>1. x \notin Pending(n)'
    <3>1. SUFFICES ASSUME NEW i \in 1..Len(Tail(toGame[x])), Tail(toGame[x])[i] = Text(n)
                   PROVE  FALSE
      BY <1>1 DEF Pending
    <3>2. Text(n).kind = "text"
      BY FrameFacts
    <3>3. 1 \in TextAt(toGame[x]) /\ i \in TextAt(Tail(toGame[x]))
      BY <1>1, <1>6, <3>1, <3>2, HeadRead DEF TextAt
    <3>4. i + 1 \in TextAt(toGame[x]) /\ i + 1 # 1
      BY <1>1, <3>3, HeadRead
    <3> QED
      BY <3>3, <3>4 DEF Wire, OneAnswer
  <2>2. x \in Pending(n) /\ Pending(n)' = Pending(n) \ {x}
    BY <1>2, <1>3, <1>4, <1>6, <2>1
  <2>3. Cardinality(Pending(n)') = Cardinality(Pending(n)) - 1
    BY <2>2, PendingFinite, FS_RemoveElement
  <2>4. executed'[n] = executed[n] + 1
    <3>1. Text(n).n = n /\ \A m \in Requests : Text(m) = Text(n) => m = n
      BY FrameFacts
    <3>2. Control("ping") # Text(n)
      BY FrameFacts
    <3> QED
      BY <1>1, <1>6, <3>1, <3>2, ServeCases
  <2> QED
    BY <1>1, <2>3, <2>4, PendingFinite DEF Spent
<1> QED
  BY <1>5, <1>6

(* Every step but the writing of a request leaves what is spent of each.       *)
LEMMA SpentStep ==
  ASSUME TypeOK, Ownership, Numbers, Wire, [Next]_vars, NEW n \in Requests
  PROVE  \/ Spent(n)' = Spent(n)
         \/ \E c \in Callers : Send(c) /\ Write(conn[c], Text(cur[c]))
<1>1. ASSUME UNCHANGED <<toGame, executed>> PROVE Spent(n)' = Spent(n)
  BY <1>1 DEF Spent, Pending
<1>2. ASSUME NEW x \in Conns, Write(x, Control("ping")), executed' = executed
      PROVE  Spent(n)' = Spent(n)
  BY <1>2, PingLeavesPending DEF Spent
<1>3. CASE Elapse \/ \E c \in Callers : BreakerStep(c) \/ reset_circuit_breaker(c)
  BY <1>1, <1>3, BreakerLeavesRequests DEF TypeOK, wire
<1>4. ASSUME NEW c \in Callers, send_request(c) PROVE Spent(n)' = Spent(n)
  BY <1>1, <1>4 DEF send_request, wire
<1>5. ASSUME NEW c \in Callers, RequestStep(c), ~(Send(c) /\ Write(conn[c], Text(cur[c])))
      PROVE  Spent(n)' = Spent(n)
  <2>1. CASE Reuse(c)
    <3>1. Head(pool) \in Conns
      BY <2>1, PoolTail DEF Reuse
    <3> QED
      BY <1>2, <2>1, <3>1 DEF Reuse
  <2>2. CASE ReturnConnection(c)
    <3>1. conn[c] \in Conns
      BY <2>2, Holding DEF ReturnConnection, At
    <3> QED
      BY <1>1, <1>2, <2>2, <3>1 DEF ReturnConnection
  <2>3. CASE Send(c)
    BY <1>1, <1>5, <2>3, SendCases
  <2>4. CASE Create(c) \/ NoConnection(c) \/ Receive(c) \/ NoAnswer(c) \/ Finish(c)
    BY <1>1, <2>4 DEF Create, NoConnection, Receive, NoAnswer, Finish, wire
  <2> QED
    BY <1>5, <2>1, <2>2, <2>3, <2>4 DEF RequestStep
<1>6. ASSUME NEW x \in Conns, Serve(x) PROVE Spent(n)' = Spent(n)
  BY <1>6, ServeLeavesSpent
<1>7. ASSUME NEW x \in Conns, GoAway(x) PROVE Spent(n)' = Spent(n)
  BY <1>1, <1>7 DEF GoAway
<1>8. CASE UNCHANGED vars
  BY <1>1, <1>8 DEF vars, wire
<1> QED
  BY <1>3, <1>4, <1>5, <1>6, <1>7, <1>8 DEF Next
(* An attempt is tried once its request may have been written, and no later    *)
(* step makes it untried.                                                      *)
LEMMA TriedStep ==
  ASSUME TypeOK, NEW c \in Callers, RequestStep(c)
  PROVE  /\ next' = next /\ cur' = cur /\ Tried(c) <= Tried(c)'
         /\ Send(c) /\ Move(c, "wait") /\ UNCHANGED attempt => Tried(c) + 1 <= Tried(c)'
         /\ \A d \in Callers \ {c} : at'[d] = at[d] /\ attempt'[d] = attempt[d]
<1>0. /\ at \in [Callers -> {"none", "get", "send", "wait", "return", "ok", "err"}]
      /\ attempt \in [Callers -> 0..MaxAttempts] /\ attempt[c] \in Nat
  BY AttemptsAssumption DEF TypeOK
<1>1. next' = next /\ cur' = cur
  BY DEF RequestStep, Reuse, Create, NoConnection, Send, Receive, NoAnswer, ReturnConnection,
     Finish, FailAttempt
<1>2. CASE FailAttempt(c)
  <2>1. \/ at'[c] = "get" /\ attempt'[c] = attempt[c] + 1
        \/ at'[c] = "err" /\ attempt'[c] = attempt[c]
    BY <1>0, <1>2, AttemptFails
  <2>2. at'[c] # "wait"
    BY <2>1
  <2> QED
    BY <1>0, <1>1, <1>2, <2>1, <2>2, AttemptFails DEF Tried, Move
<1>3. CASE ~FailAttempt(c)
  <2>1. UNCHANGED attempt
    BY <1>3 DEF RequestStep, Reuse, Create, NoConnection, Send, Receive, NoAnswer,
       ReturnConnection, Finish, FailAttempt
  <2>2. \/ at[c] = "get" /\ at' = [at EXCEPT ![c] = "send"]
        \/ at[c] \in {"send", "wait", "return", "ok", "err"}
             /\ \E p \in {"wait", "return", "ok", "none"} : at' = [at EXCEPT ![c] = p]
    BY <1>3 DEF RequestStep, Reuse, Create, NoConnection, Send, Receive, NoAnswer,
       ReturnConnection, Finish, Move, At
  <2>3. Send(c) => at[c] = "send"
    BY DEF Send, At
  <2> QED
    BY <1>0, <1>1, <2>1, <2>2, <2>3 DEF Tried, Move
<1> QED
  BY <1>2, <1>3

LEMMA TriedKept ==
  ASSUME TypeOK, [Next]_vars, \A c \in Callers : ~send_request(c)
  PROVE  next' = next /\ cur' = cur /\ \A d \in Callers : Tried(d) <= Tried(d)'
<1>0. \A d \in Callers : Tried(d) \in Int
  BY AttemptsAssumption DEF TypeOK, Tried
<1>1. ASSUME next' = next, cur' = cur, at' = at, attempt' = attempt
      PROVE  next' = next /\ cur' = cur /\ \A d \in Callers : Tried(d) <= Tried(d)'
  BY <1>0, <1>1 DEF Tried
<1>2. CASE Elapse \/ \E c \in Callers : BreakerStep(c) \/ reset_circuit_breaker(c)
  BY <1>1, <1>2, BreakerLeavesRequests DEF TypeOK, caller
<1>3. ASSUME NEW c \in Callers, RequestStep(c)
      PROVE  next' = next /\ cur' = cur /\ \A d \in Callers : Tried(d) <= Tried(d)'
  <2>1. \A d \in Callers \ {c} : Tried(d) <= Tried(d)'
    BY <1>0, <1>3, TriedStep DEF Tried
  <2> QED
    BY <1>3, <2>1, TriedStep
<1>4. ASSUME NEW x \in Conns, Serve(x) \/ GoAway(x)
      PROVE  next' = next /\ cur' = cur /\ \A d \in Callers : Tried(d) <= Tried(d)'
  BY <1>1, <1>4 DEF Serve, GoAway, caller
<1>5. CASE UNCHANGED vars
  BY <1>1, <1>5 DEF vars, caller
<1> QED
  BY <1>2, <1>3, <1>4, <1>5 DEF Next

(* The request of an attempt is written at most once.                          *)
LEMMA CountedStep ==
  TypeOK /\ Ownership /\ Numbers /\ Wire /\ Counted /\ [Next]_vars => Counted'
<1> SUFFICES ASSUME TypeOK, Ownership, Numbers, Wire, Counted, [Next]_vars PROVE Counted'
  OBVIOUS
<1>0. /\ at \in [Callers -> {"none", "get", "send", "wait", "return", "ok", "err"}]
      /\ cur \in [Callers -> 0..MaxRequests] /\ attempt \in [Callers -> 0..MaxAttempts]
      /\ next \in 1..MaxRequests + 1 /\ MaxRequests \in Nat /\ MaxAttempts \in Nat
      /\ executed \in [Requests -> Nat] /\ executed' \in [Requests -> Nat]
      /\ cur' \in [Callers -> 0..MaxRequests]
  BY BoundsAssumption, AttemptsAssumption, TypeStep DEF TypeOK
<1>1. \A d \in Callers : (cur[d] # 0 => cur[d] \in Requests) /\ (cur'[d] # 0 => cur'[d] \in Requests)
  BY <1>0 DEF Requests
<1>2. ASSUME NEW n \in Requests
      PROVE  Spent(n) \in Nat /\ Spent(n) <= MaxAttempts
             /\ Spent(n)' \in Nat /\ (Spent(n)' = 0 => executed'[n] = 0)
  <2>1. Cardinality(Pending(n)) \in Nat /\ Cardinality(Pending(n)') \in Nat
    <3>1. Pending(n)' \subseteq Conns
      BY DEF Pending
    <3> QED
      BY <3>1, PendingFinite, BoundsAssumption, FS_Subset, FS_CardinalityType
  <2> QED
    BY <1>0, <2>1 DEF Spent, Counted
<1>3. ASSUME NEW n \in Requests, n >= next PROVE Spent(n) = 0
  <2>1. Pending(n) = {}
    <3>1. \A m \in Requests : Text(m) = Text(n) => m = n
      BY FrameFacts
    <3>2. Control("ping") # Text(n)
      BY FrameFacts
    <3>3. ASSUME NEW x \in Conns, NEW i \in 1..Len(toGame[x]), toGame[x][i] = Text(n)
          PROVE  FALSE
      <4>1. PICK m \in Requests : m < next /\ toGame[x][i] = Text(m)
        BY <3>2, <3>3 DEF Numbers, Known
      <4> QED
        BY <1>0, <1>3, <3>1, <3>3, <4>1 DEF Requests
    <3> QED
      BY <3>3 DEF Pending
  <2> QED
    BY <1>0, <1>3, <2>1, FS_EmptySet DEF Spent, Counted
<1>4. ASSUME NEW c \in Callers, Send(c), Write(conn[c], Text(cur[c])), Move(c, "wait"),
             UNCHANGED attempt
      PROVE  Counted'
  <2>1. /\ conn[c] \in Conns /\ cur[c] \in Requests /\ at[c] = "send" /\ executed' = executed
        /\ cur' = cur /\ next' = next /\ NoText(conn[c])
    BY <1>4, SendCases DEF Send, At, Wire, Wired
  <2>2. PICK m \in Requests : m = cur[c]
    BY <2>1
  <2>3. \A n \in Requests : Spent(n)' = IF n = m THEN Spent(n) + 1 ELSE Spent(n)
    <3>1. ASSUME NEW n \in Requests \ {m} PROVE Spent(n)' = Spent(n)
      BY <1>4, <2>1, <2>2, RequestIsPending DEF Spent
    <3>2. Spent(m)' = Spent(m) + 1
      <4>1. Pending(m)' = Pending(m) \cup {conn[c]}
        BY <1>4, <2>1, <2>2, RequestIsPending
      <4>2. conn[c] \notin Pending(m)
        <5>1. Text(m).kind = "text"
          BY FrameFacts
        <5> QED
          BY <2>1, <5>1 DEF Pending, NoText, TextAt
      <4>3. Cardinality(Pending(m)') = Cardinality(Pending(m)) + 1
        BY <4>1, <4>2, PendingFinite, FS_AddElement
      <4> QED
        BY <1>0, <2>1, <4>3, PendingFinite DEF Spent
    <3> QED
      BY <3>1, <3>2
  <2>4. Tried(c) + 1 <= Tried(c)' /\ Tried(c)' <= MaxAttempts
    <3>1. Tried(c) + 1 <= Tried(c)'
      BY <1>4, TriedStep DEF RequestStep
    <3>2. Tried(c)' <= attempt'[c] /\ attempt'[c] <= MaxAttempts
      BY <1>0, <1>4 DEF Tried
    <3> QED
      BY <1>0, <1>4, <3>1, <3>2 DEF Tried
  <2>5. Spent(m) <= Tried(c) /\ Tried(c) \in Int
    BY <1>0, <2>1, <2>2 DEF Counted, Tried, Requests
  <2>6. Spent(m)' <= Tried(c)' /\ Spent(m)' <= MaxAttempts
    <3>1. Spent(m)' = Spent(m) + 1
      BY <2>3
    <3>2. Spent(m) \in Nat /\ Tried(c)' \in Int
      BY <1>0, <1>2, <1>4 DEF Tried
    <3> QED
      BY <1>0, <2>4, <2>5, <3>1, <3>2
  <2>7. \A n \in Requests : Spent(n)' <= MaxAttempts
    BY <1>2, <2>3, <2>6
  <2>8. \A n \in Requests : n >= next' => executed'[n] = 0
    BY <2>1 DEF Counted
  <2>9. ASSUME NEW d \in Callers, cur'[d] # 0 PROVE Spent(cur[d])' <= Tried(d)'
    <3>1. CASE d = c
      BY <2>1, <2>2, <2>6, <3>1 DEF Spent, Pending
    <3>2. CASE d # c
      <4>1. PICK n \in Requests : n = cur[d] /\ n = cur'[d]
        BY <1>1, <2>1, <2>9
      <4>2. n # m
        BY <2>1, <2>2, <2>9, <3>2, <4>1 DEF Numbers, Numbered
      <4>3. Tried(d)' = Tried(d)
        BY <1>4, <3>2, TriedStep DEF RequestStep, Tried
      <4>4. Spent(n)' <= Tried(d)'
        BY <2>1, <2>3, <2>9, <4>1, <4>2, <4>3 DEF Counted
      <4> QED
        BY <4>1, <4>4 DEF Spent, Pending
    <3> QED
      BY <3>1, <3>2
  <2> QED
    BY <2>7, <2>8, <2>9 DEF Counted
<1> SUFFICES ASSUME \A n \in Requests : Spent(n)' = Spent(n) PROVE Counted'
  <2>1. ASSUME NEW c \in Callers, Send(c), FailAttempt(c), UNCHANGED toGame
        PROVE  \A n \in Requests : Spent(n)' = Spent(n)
    <3>1. executed' = executed
      BY <2>1 DEF Send
    <3> QED
      BY <2>1, <3>1 DEF Spent, Pending
  <2>2. ASSUME NEW n \in Requests, Spent(n)' # Spent(n)
        PROVE  \E c \in Callers : Send(c) /\ Write(conn[c], Text(cur[c])) /\ Move(c, "wait")
                                    /\ UNCHANGED attempt
    BY <2>1, <2>2, SpentStep, SendCases
  <2> QED
    BY <1>4, <2>2
<1>5. \A n \in Requests : Spent(n)' <= MaxAttempts
  BY <1>2
<1>6. next <= next' /\ next' \in Nat
  <2>1. CASE \E c \in Callers : send_request(c)
    BY <1>0, <2>1 DEF send_request
  <2>2. CASE \A c \in Callers : ~send_request(c)
    BY <1>0, <2>2, TriedKept
  <2> QED
    BY <2>1, <2>2
<1>7. \A n \in Requests : n >= next' => executed'[n] = 0
  BY <1>0, <1>2, <1>3, <1>6 DEF Requests
<1>8. ASSUME NEW d \in Callers, cur'[d] # 0 PROVE Spent(cur[d])' <= Tried(d)'
  <2>1. PICK n \in Requests : n = cur'[d]
    BY <1>1, <1>8
  <2>2. CASE n = cur[d] /\ Tried(d) <= Tried(d)'
    <3>1. Spent(n) <= Tried(d) /\ Spent(n) \in Nat /\ Tried(d) \in Int /\ Tried(d)' \in Int
      <4>1. attempt' \in [Callers -> 0..MaxAttempts]
        BY TypeStep DEF TypeOK
      <4>2. Tried(d) \in Int /\ Tried(d)' \in Int
        BY <1>0, <4>1 DEF Tried
      <4>3. cur[d] # 0
        BY <1>8, <2>1, <2>2
      <4> QED
        BY <1>2, <2>2, <4>2, <4>3 DEF Counted
    <3>2. Spent(n)' <= Tried(d)'
      BY <2>2, <3>1
    <3> QED
      BY <2>1, <3>2 DEF Spent, Pending
  <2>3. ASSUME NEW c \in Callers, send_request(c), d # c
        PROVE  n = cur[d] /\ Tried(d) <= Tried(d)'
    BY <1>0, <2>1, <2>3 DEF send_request, Move, Tried
  <2>4. CASE send_request(d)
    <3>1. n = next /\ at'[d] = "get" /\ attempt'[d] = 1
      BY <1>0, <2>1, <2>4 DEF send_request, Move
    <3>2. Spent(n)' = 0 /\ Tried(d)' = 0
      BY <1>0, <1>3, <3>1 DEF Tried, Requests
    <3>3. Spent(n)' <= Tried(d)'
      BY <3>2
    <3> QED
      BY <2>1, <3>3 DEF Spent, Pending
  <2>5. CASE \A c \in Callers : ~send_request(c)
    BY <2>1, <2>2, <2>5, TriedKept
  <2> QED
    BY <2>2, <2>3, <2>4, <2>5
<1> QED
  BY <1>5, <1>7, <1>8 DEF Counted

-----------------------------------------------------------------------------
LEMMA InitIInv == Init => IInv
<1> SUFFICES ASSUME Init PROVE IInv
  OBVIOUS
<1>1. TypeOK
  BY AttemptsAssumption, BoundsAssumption, BreakerAssumption
     DEF Init, TypeOK, CB!Init, CB!TypeOK, CB!States, CB!Points, CB!Ages, CB!Fields, Requests
<1>2. Ownership
  <2>1. pool = << >> /\ \A i : i \notin 1..Len(pool)
    BY DEF Init
  <2> QED
    BY <2>1, BoundsAssumption DEF Init, Ownership, Running, Holders, PoolApart, Fresh
<1>3. Numbers
  BY DEF Init, Numbers, Numbered, Known
<1>4. Wire
  BY DEF Init, Wire, Wired, OneAnswer, TextAt
<1>5. Counted
  <2>1. \A n \in Requests : Pending(n) = {}
    BY DEF Init, Pending
  <2>2. \A n \in Requests : Spent(n) = 0
    BY <2>1, FS_EmptySet DEF Init, Spent
  <2> QED
    BY <2>2, AttemptsAssumption DEF Init, Counted
<1> QED
  BY <1>1, <1>2, <1>3, <1>4, <1>5 DEF IInv

THEOREM Invariance == Spec => []IInv
<1>1. IInv /\ [Next]_vars => IInv'
  BY TypeStep, RunningStep, OwnershipStep, NumberedStep, KnownStep, WireStep, CountedStep
     DEF IInv, Ownership, Numbers
<1> QED
  BY InitIInv, <1>1, PTL DEF Spec

(* The response of send_request is the one to its own request, never one that  *)
(* an earlier attempt or another caller left on the connection: a connection   *)
(* with an answer outstanding is not pooled (brp_client_v2.rs returns only the *)
(* connection of an attempt that has read its answer).                         *)
THEOREM AnswersAreOwn == Spec => []AnswerIsOwn
<1>1. IInv => AnswerIsOwn
  BY DEF IInv, Wire, Wired, AnswerIsOwn, At
<1> QED
  BY Invariance, <1>1, PTL

(* However the retries, the game's answers and its going away interleave, a    *)
(* request is executed at most once per attempt, so at most max_attempts       *)
(* times: what was executed and what the game has still to read never exceed   *)
(* the attempts made.                                                          *)
THEOREM ExecutedOncePerAttempt == Spec => []ExecutedPerAttempt
<1>1. IInv => ExecutedPerAttempt
  <2> SUFFICES ASSUME IInv PROVE ExecutedPerAttempt
    OBVIOUS
  <2>1. \A n \in Requests : executed[n] \in Nat /\ Cardinality(Pending(n)) \in Nat
    BY PendingFinite DEF IInv, TypeOK
  <2>2. \A n \in Requests : executed[n] <= Spent(n) /\ Spent(n) \in Nat
    BY <2>1 DEF Spent
  <2>3. \A n \in Requests : executed[n] <= MaxAttempts
    BY <2>1, <2>2, AttemptsAssumption DEF IInv, Counted
  <2>4. ASSUME NEW c \in Callers, cur[c] # 0 PROVE executed[cur[c]] <= attempt[c]
    <3>1. cur[c] \in Requests
      BY <2>4, BoundsAssumption DEF IInv, TypeOK, Requests
    <3>2. attempt[c] \in Nat /\ Spent(cur[c]) <= Tried(c)
      BY <2>4, AttemptsAssumption DEF IInv, TypeOK, Counted
    <3> QED
      BY <2>1, <2>2, <3>1, <3>2 DEF Tried
  <2> QED
    BY <2>3, <2>4 DEF ExecutedPerAttempt
<1> QED
  BY Invariance, <1>1, PTL

(* The types of the client, the breaker's among them.                          *)
THEOREM TypeCorrect == Spec => []TypeOK
  BY Invariance, PTL DEF IInv
=============================================================================
