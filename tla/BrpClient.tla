------------------------------ MODULE BrpClient ------------------------------
(***************************************************************************)
(* The BRP client that every tool uses (src/brp_client.rs) and the loop of *)
(* mcp_server_v2.rs that keeps it connected.                               *)
(*                                                                         *)
(* The client is behind an RwLock.  A tool reads is_connected under a read *)
(* guard, lets go of it, and sends its request under a write guard; the    *)
(* loop holds the write guard for a whole connect_with_retry.  A WebSocket *)
(* carries no request ids: the next text frame is taken for the answer.    *)
(* The resource manager's refusals are a choice here.  The game is         *)
(* external.                                                               *)
(***************************************************************************)
EXTENDS Naturals, Sequences, SequenceTheorems, TLAPS

CONSTANTS
  Tools,        \* tasks that run tools
  Transports,   \* the transports configured: "WebSocket", "Http" or either
  MaxRetries,   \* MAX_RETRIES of connect_with_retry (5 in the code)
  MaxStreams,   \* WebSockets that may be opened (bounds the run)
  MaxRequests,  \* requests that may be made (bounds the run)
  MaxOutages    \* times the game may go away (bounds the run)

Loop == "loop"
None == "none"
ASSUME BrpClientAssumption ==
  /\ Loop \notin Tools /\ None \notin Tools
  /\ Transports \subseteq {"WebSocket", "Http"}
  /\ MaxRetries \in Nat \ {0}
  /\ MaxStreams \in Nat /\ MaxRequests \in Nat /\ MaxOutages \in Nat

Processes == Tools \cup {Loop}
Streams == 1..MaxStreams
Requests == 1..MaxRequests
Text(n) == [kind |-> "text", n |-> n]
Ping == [kind |-> "ping", n |-> 0]
Close == [kind |-> "close", n |-> 0]

VARIABLES
  transport,  \* of this process, from the scheme of the BRP URL
  lock,       \* who holds the client's write guard
  connected,  \* connected
  stream,     \* ws_stream: the WebSocket in use, 0 for none
  opened,     \* WebSockets opened so far
  retries,    \* retry_count
  cached,     \* component_type_cache is filled
  pc,         \* where each process is
  next,       \* the number of the next request
  cur,        \* the request of each tool
  answer,     \* the response each tool got last, 0 for an error
  toGame,     \* frames on each WebSocket that the game has not read
  toClient,   \* frames on each WebSocket that the client has not read
  gone,       \* WebSockets whose other end is gone
  unread,     \* WebSockets on which a request ended before its answer was read
  up,         \* the game accepts connections
  outages     \* times the game went away

client == <<connected, stream, retries, cached>>
tool == <<next, cur, answer>>
wire == <<toGame, toClient, gone>>
game == <<up, outages>>
vars == <<transport, lock, client, opened, pc, tool, wire, unread, game>>

Init ==
  /\ transport \in Transports
  /\ lock = None
  /\ connected = FALSE /\ stream = 0 /\ retries = 0 /\ cached = FALSE
  /\ opened = 0
  /\ pc = [p \in Processes |-> "idle"]
  /\ next = 1
  /\ cur = [p \in Tools |-> 0]
  /\ answer = [p \in Tools |-> 0]
  /\ toGame = [s \in Streams |-> <<>>]
  /\ toClient = [s \in Streams |-> <<>>]
  /\ gone = {} /\ unread = {}
  /\ up \in BOOLEAN
  /\ outages = 0

Goto(p, point) == pc' = [pc EXCEPT ![p] = point]
At(p, point) == pc[p] = point /\ lock = p

(* The guard is dropped, with the result of the request.                   *)
Release(p, result) ==
  /\ lock' = None
  /\ Goto(p, "idle")
  /\ IF p = Loop THEN UNCHANGED answer ELSE answer' = [answer EXCEPT ![p] = result]

-----------------------------------------------------------------------------
(* A tool asks whether the client is connected and, if it is, goes for the *)
(* write guard; in between the client may change.                          *)
is_connected(p) ==
  /\ pc[p] = "idle" /\ lock = None
  /\ next <= MaxRequests
  /\ connected
  /\ next' = next + 1
  /\ cur' = [cur EXCEPT ![p] = next]
  /\ Goto(p, "ready")
  /\ UNCHANGED <<lock, client, opened, answer, wire, unread, game>>

WriteGuard(p) ==
  /\ pc[p] = "ready" /\ lock = None
  /\ lock' = p
  /\ Goto(p, "send")
  /\ UNCHANGED <<client, opened, tool, wire, unread, game>>

(* The rate limit, the breaker or the sampler refuses the request.         *)
Refused(p) ==
  /\ At(p, "send")
  /\ Release(p, 0)
  /\ UNCHANGED <<client, opened, next, cur, wire, unread, game>>

(* Mutant: a send that is slow is repeated.                                *)
send_message_twice(p) ==
  /\ At(p, "send") /\ transport = "WebSocket" /\ stream # 0
  /\ toGame' = [toGame EXCEPT ![stream] = @ \o <<Text(cur[p]), Text(cur[p])>>]
  /\ Goto(p, "wait")
  /\ UNCHANGED <<lock, client, opened, tool, toClient, gone, unread, game>>

send_message(p) ==
  /\ At(p, "send") /\ transport = "WebSocket"
  /\ \/ /\ stream # 0
        /\ toGame' = [toGame EXCEPT ![stream] = Append(@, Text(cur[p]))]
        /\ Goto(p, "wait")
        /\ UNCHANGED <<lock, answer>>
     \/ /\ stream = 0 \/ stream \in gone
        /\ Release(p, 0)
        /\ UNCHANGED toGame
  /\ UNCHANGED <<client, opened, next, cur, toClient, gone, unread, game>>

(* receive_message: a text frame is the answer; a Close ends the           *)
(* connection; any other frame is reported as the end of the connection,   *)
(* which stays.                                                            *)
receive_message(p) ==
  /\ At(p, "wait") /\ toClient[stream] # <<>>
  /\ LET frame == Head(toClient[stream]) IN
       /\ toClient' = [toClient EXCEPT ![stream] = Tail(@)]
       /\ Release(p, IF frame.kind = "text" THEN frame.n ELSE 0)
       /\ IF frame.kind = "close"
            THEN connected' = FALSE /\ stream' = 0
            ELSE UNCHANGED <<connected, stream>>
       /\ unread' = IF frame.kind = "ping" THEN unread \cup {stream} ELSE unread
  /\ UNCHANGED <<retries, cached, opened, next, cur, toGame, gone, game>>

(* The stream is broken, or it has ended: an error clears the connection,  *)
(* an end does not.                                                        *)
StreamEnds(p) ==
  /\ At(p, "wait") /\ stream \in gone /\ toClient[stream] = <<>>
  /\ Release(p, 0)
  /\ \/ connected' = FALSE /\ stream' = 0
     \/ UNCHANGED <<connected, stream>>
  /\ unread' = unread \cup {stream}
  /\ UNCHANGED <<retries, cached, opened, next, cur, wire, game>>

(* The five seconds of send_request_websocket pass.                        *)
RequestTimeout(p) ==
  /\ At(p, "wait")
  /\ Release(p, 0)
  /\ unread' = unread \cup {stream}
  /\ UNCHANGED <<client, opened, next, cur, wire, game>>

(* HTTP: a POST is answered, refused or times out; only a refusal (or a    *)
(* bad status) clears connected.  A request with component names asks for  *)
(* the game's registry once and keeps it; without it the names are sent as *)
(* they are, or the request fails if it needs the whole list.              *)
get_component_types(p) ==
  /\ At(p, "send") /\ transport = "Http" /\ ~cached
  /\ \/ /\ up
        /\ cached' = TRUE
        /\ Goto(p, "post")
        /\ UNCHANGED <<connected, lock, answer>>
     \/ /\ connected' \in {connected, connected /\ up}
        /\ (Goto(p, "post") /\ UNCHANGED <<lock, answer>>) \/ Release(p, 0)
        /\ UNCHANGED cached
  /\ UNCHANGED <<stream, retries, opened, next, cur, wire, unread, game>>

send_request_http(p) ==
  /\ transport = "Http"
  /\ At(p, "post") \/ At(p, "send")
  /\ \/ up /\ connected' = TRUE /\ Release(p, cur[p])
     \/ ~up /\ connected' = FALSE /\ Release(p, 0)
     \/ UNCHANGED connected /\ Release(p, 0)
  /\ UNCHANGED <<stream, retries, cached, opened, next, cur, wire, unread, game>>

ToolStep(p) ==
  \/ WriteGuard(p) \/ Refused(p) \/ send_message(p) \/ receive_message(p)
  \/ StreamEnds(p) \/ RequestTimeout(p)
  \/ get_component_types(p) \/ send_request_http(p)

-----------------------------------------------------------------------------
(* The loop: take the write guard, connect_with_retry, let go, sleep.      *)
LoopGuard ==
  /\ pc[Loop] = "idle" /\ lock = None
  /\ lock' = Loop
  /\ Goto(Loop, "connect")
  /\ UNCHANGED <<client, opened, tool, wire, unread, game>>

(* A game that is up accepts a connection, within the bound of the run.    *)
Reachable == up /\ (transport = "WebSocket" => opened < MaxStreams)

(* Mutant: the connection is made and connected is not set.                *)
ConnectedUnset ==
  /\ At(Loop, "connect") /\ retries < MaxRetries /\ Reachable
  /\ IF transport = "WebSocket"
       THEN opened' = opened + 1 /\ stream' = opened + 1
       ELSE stream' = 0 /\ UNCHANGED opened
  /\ retries' = 0
  /\ Release(Loop, 0)
  /\ UNCHANGED <<connected, cached, next, cur, wire, unread, game>>

(* A connection is made even if there is one: the old WebSocket is dropped. *)
Connected ==
  /\ At(Loop, "connect") /\ retries < MaxRetries /\ Reachable
  /\ IF transport = "WebSocket"
       THEN opened' = opened + 1 /\ stream' = opened + 1
       ELSE stream' = 0 /\ UNCHANGED opened
  /\ connected' = TRUE
  /\ retries' = 0
  /\ Release(Loop, 0)
  /\ UNCHANGED <<cached, next, cur, wire, unread, game>>

(* Mutant: one attempt more than MAX_RETRIES.                              *)
ConnectFailsLate ==
  /\ At(Loop, "connect") /\ retries <= MaxRetries /\ ~Reachable
  /\ retries' = retries + 1
  /\ UNCHANGED <<lock, connected, stream, cached, opened, pc, tool, wire, unread, game>>

(* A failed attempt, and the sleep after it under the guard.  A WebSocket  *)
(* that is there stays; HTTP finds out that the game is gone, or times     *)
(* out.                                                                    *)
ConnectFails ==
  /\ At(Loop, "connect") /\ retries < MaxRetries /\ ~Reachable
  /\ retries' = retries + 1
  /\ connected' \in (IF transport = "Http" THEN {FALSE, connected} ELSE {connected})
  /\ stream' = IF transport = "Http" THEN 0 ELSE stream
  /\ UNCHANGED <<lock, cached, opened, pc, tool, wire, unread, game>>

(* Mutant: the retries start over under the guard.                         *)
GiveUpNever ==
  /\ At(Loop, "connect") /\ retries = MaxRetries
  /\ retries' = 0
  /\ UNCHANGED <<lock, connected, stream, cached, opened, pc, tool, wire, unread, game>>

(* No attempt is left; retry_count keeps its value.                        *)
GiveUp ==
  /\ At(Loop, "connect") /\ retries = MaxRetries
  /\ Release(Loop, 0)
  /\ UNCHANGED <<client, opened, next, cur, wire, unread, game>>

LoopStep == LoopGuard \/ Connected \/ ConnectFails \/ GiveUp

-----------------------------------------------------------------------------
(* The game answers what it reads, pings idle connections, closes or loses *)
(* one, goes away and comes back.                                          *)
Serve(s) ==
  /\ s \notin gone /\ toGame[s] # <<>>
  /\ toGame' = [toGame EXCEPT ![s] = Tail(@)]
  /\ toClient' = [toClient EXCEPT ![s] = Append(@, Head(toGame[s]))]
  /\ UNCHANGED <<lock, client, opened, pc, tool, gone, unread, game>>

GamePings(s) ==
  /\ s = stream /\ s \notin gone /\ toClient[s] = <<>>
  /\ toClient' = [toClient EXCEPT ![s] = <<Ping>>]
  /\ UNCHANGED <<lock, client, opened, pc, tool, toGame, gone, unread, game>>

LoseStream(s) ==
  /\ s <= opened /\ s \notin gone
  /\ gone' = gone \cup {s}
  /\ \/ UNCHANGED toClient
     \/ toClient' = [toClient EXCEPT ![s] = Append(@, Close)]
  /\ UNCHANGED <<lock, client, opened, pc, tool, toGame, unread, game>>

GoAway ==
  /\ up /\ outages < MaxOutages
  /\ up' = FALSE
  /\ outages' = outages + 1
  /\ gone' = Streams \cap (1..opened)
  /\ UNCHANGED <<lock, client, opened, pc, tool, toGame, toClient, unread>>

ComeBack ==
  /\ ~up
  /\ up' = TRUE
  /\ UNCHANGED <<lock, client, opened, pc, tool, wire, unread, outages>>

Next ==
  /\ \/ \E p \in Tools : is_connected(p) \/ ToolStep(p)
     \/ LoopStep
     \/ \E s \in Streams : Serve(s) \/ GamePings(s) \/ LoseStream(s)
     \/ GoAway \/ ComeBack
  /\ UNCHANGED transport

Spec == Init /\ [][Next]_vars

(* tokio's RwLock is fair, so who waits for the guard gets it if it is     *)
(* free again and again; every await under it has a timeout.               *)
Fairness ==
  /\ SF_vars(LoopStep /\ UNCHANGED transport)
  /\ \A p \in Tools : SF_vars(ToolStep(p) /\ UNCHANGED transport)
FairSpec == Spec /\ Fairness

-----------------------------------------------------------------------------
TypeOK ==
  /\ transport \in Transports
  /\ lock \in Processes \cup {None}
  /\ connected \in BOOLEAN /\ cached \in BOOLEAN /\ up \in BOOLEAN
  /\ stream \in 0..MaxStreams /\ opened \in 0..MaxStreams
  /\ retries \in 0..MaxRetries
  /\ pc \in [Processes -> {"idle", "ready", "send", "wait", "post", "connect"}]
  /\ next \in 1..MaxRequests + 1
  /\ cur \in [Tools -> 0..MaxRequests] /\ answer \in [Tools -> 0..MaxRequests]
  /\ gone \subseteq Streams /\ unread \subseteq Streams
  /\ outages \in 0..MaxOutages

Frames(s) == {toGame[s][i] : i \in DOMAIN toGame[s]} \cup {toClient[s][i] : i \in DOMAIN toClient[s]}

(* Without request ids a stale answer can only come from a request that    *)
(* ended without reading its own: on a WebSocket where none did, the only  *)
(* text frame under way is the answer to the request that is waiting.      *)
CleanStreamHasOwnAnswer ==
  stream \notin unread \cup {0} =>
    \A f \in Frames(stream) : f.kind = "text" =>
      \E p \in Tools : At(p, "wait") /\ cur[p] = f.n

(* connected and ws_stream change together: a tool that finds the flag set *)
(* finds a WebSocket when it has the guard, or an error that cleared both. *)
FlagMatchesStream == transport = "WebSocket" => (connected <=> stream # 0)

(* Every request that was let through ends and nobody keeps the guard,     *)
(* although the loop sleeps under it.                                      *)
RequestEnds == \A p \in Tools : pc[p] # "idle" ~> pc[p] = "idle"

(* While connect_with_retry has attempts left, a game that stays up is     *)
(* connected again.                                                        *)
ReconnectsWhileTrying ==
  <>[](up /\ retries < MaxRetries) => <>connected

(* brp_client.rs:258, "Send a BRP request and return the response": a      *)
(* response is the one to the request.                                     *)
AnswerIsOwn == \A p \in Tools : pc[p] = "idle" => answer[p] \in {0, cur[p]}

-----------------------------------------------------------------------------
(* Proofs about BrpClient for any number of tools, requests, WebSockets and    *)
(* outages.  That the only text under way is the own answer rests on there     *)
(* being no more than one frame with a text between the two ends of a          *)
(* WebSocket on which every request read its answer, and on a new WebSocket    *)
(* being empty.                                                                *)

Points == {"idle", "ready", "send", "wait", "post", "connect"}
Guarded == {"send", "wait", "post", "connect"}
Texts == {Text(n) : n \in Requests}

Wires ==
  /\ toGame \in [Streams -> Seq(Texts)]
  /\ toClient \in [Streams -> Seq(Texts \cup {Ping, Close})]
  /\ \A s \in Streams : s > opened => toGame[s] = <<>> /\ toClient[s] = <<>>
  /\ \A s \in gone \cup unread : s <= opened
  /\ stream <= opened

(* The guard is held by who is past it, and by nobody else; only the loop      *)
(* connects, and who waits has sent its request on a WebSocket that is there.  *)
GuardHeld ==
  /\ \A p \in Processes : pc[p] \in Guarded => lock = p
  /\ lock # None => pc[lock] \in Guarded
  /\ pc[Loop] \in {"idle", "connect"}
  /\ \A p \in Tools :
       /\ pc[p] # "connect"
       /\ pc[p] = "wait" => stream # 0
       /\ pc[p] # "idle" => cur[p] \in Requests

IsText(f) == f.kind = "text"

(* A WebSocket on which nobody is owed an answer carries one text at most, on  *)
(* its way to the game or back.                                                *)
OneText ==
  stream \notin unread \cup {0} =>
    /\ Len(toGame[stream]) <= 1
    /\ \A i, j \in 1..Len(toClient[stream]) :
         IsText(toClient[stream][i]) =>
           /\ toGame[stream] = <<>>
           /\ IsText(toClient[stream][j]) => i = j

(* Who waits is the one whose request or answer it is.                         *)
OwnText ==
  stream \notin unread \cup {0} =>
    /\ \A i \in 1..Len(toGame[stream]) :
         \E p \in Tools : At(p, "wait") /\ toGame[stream][i] = Text(cur[p])
    /\ \A i \in 1..Len(toClient[stream]) : IsText(toClient[stream][i]) =>
         \E p \in Tools : At(p, "wait") /\ toClient[stream][i] = Text(cur[p])

ClientInv ==
  /\ TypeOK /\ Wires /\ GuardHeld /\ OneText /\ OwnText /\ FlagMatchesStream

LEMMA LoopIsNoTool == Loop \notin Tools /\ None \notin Tools /\ Loop # None
  BY BrpClientAssumption DEF Loop, None

(* What a dropped guard leaves, of a tool and of the loop.                     *)
LEMMA ReleaseTypes ==
  ASSUME TypeOK, NEW p \in Processes, NEW r \in 0..MaxRequests, Release(p, r)
  PROVE  /\ lock' \in Processes \cup {None}
         /\ pc' \in [Processes -> Points]
         /\ answer' \in [Tools -> 0..MaxRequests]
<1>1. pc' \in [Processes -> Points]
  BY DEF Release, Goto, TypeOK, Points
<1>2. answer' \in [Tools -> 0..MaxRequests]
  BY DEF Release, TypeOK, Processes
<1> QED
  BY <1>1, <1>2 DEF Release

LEMMA FrameTypes ==
  ASSUME Wires, NEW s \in Streams, toClient[s] # <<>>
  PROVE  /\ Head(toClient[s]) \in Texts \cup {Ping, Close}
         /\ Head(toClient[s]).n \in 0..MaxRequests
         /\ Tail(toClient[s]) \in Seq(Texts \cup {Ping, Close})
<1>1. toClient[s] \in Seq(Texts \cup {Ping, Close})
  BY DEF Wires
<1>2. /\ Head(toClient[s]) \in Texts \cup {Ping, Close}
      /\ Tail(toClient[s]) \in Seq(Texts \cup {Ping, Close})
  BY <1>1, HeadTailProperties
<1>3. Head(toClient[s]).n \in 0..MaxRequests
  BY <1>2, BrpClientAssumption DEF Texts, Text, Ping, Close, Requests
<1> QED
  BY <1>2, <1>3

LEMMA TypeStep == ASSUME ClientInv, [Next]_vars PROVE TypeOK'
<1> USE BrpClientAssumption, LoopIsNoTool DEF ClientInv
<1>t. TypeOK
  OBVIOUS
<1>0. transport' \in Transports
  BY DEF TypeOK, Next, vars
<1>1. ASSUME NEW p \in Tools, is_connected(p) PROVE TypeOK'
  <2>1. cur' \in [Tools -> 0..MaxRequests] /\ next' \in 1..MaxRequests + 1
    BY <1>1 DEF is_connected, TypeOK
  <2>2. pc' \in [Processes -> Points]
    BY <1>1 DEF is_connected, TypeOK, Goto, Points
  <2> QED
    BY <1>0, <1>1, <2>1, <2>2 DEF is_connected, TypeOK, client, wire, game, Points
<1>2. ASSUME NEW p \in Tools, WriteGuard(p) \/ Refused(p) PROVE TypeOK'
  <2>1. CASE WriteGuard(p)
    BY <1>0, <2>1 DEF WriteGuard, TypeOK, Goto, client, tool, wire, game, Processes
  <2>2. CASE Refused(p)
    <3>1. p \in Processes /\ 0 \in 0..MaxRequests /\ Release(p, 0)
      BY <2>2 DEF Refused, Processes
    <3> QED
      BY <1>0, <1>t, <2>2, <3>1, ReleaseTypes DEF Refused, TypeOK, client, wire, game, Points
  <2> QED
    BY <1>2, <2>1, <2>2
<1>3. ASSUME NEW p \in Tools, send_message(p) PROVE TypeOK'
  <2>1. CASE Goto(p, "wait") /\ UNCHANGED <<lock, answer>>
    BY <1>0, <1>3, <2>1 DEF send_message, TypeOK, Goto, client, game
  <2>2. CASE Release(p, 0)
    <3>1. p \in Processes /\ 0 \in 0..MaxRequests
      BY DEF Processes
    <3> QED
      BY <1>0, <1>3, <1>t, <2>2, <3>1, ReleaseTypes
      DEF send_message, TypeOK, client, game, Points
  <2> QED
    BY <1>3, <2>1, <2>2 DEF send_message
<1>4. ASSUME NEW p \in Tools, receive_message(p) PROVE TypeOK'
  <2>1. stream \in Streams
    BY <1>4 DEF TypeOK, GuardHeld, Streams, receive_message, At
  <2> DEFINE frame == Head(toClient[stream])
             r == IF frame.kind = "text" THEN frame.n ELSE 0
  <2>2. p \in Processes /\ r \in 0..MaxRequests /\ Release(p, r)
    <3>1. frame.n \in 0..MaxRequests
      BY <1>4, <2>1, FrameTypes DEF receive_message
    <3> QED
      BY <1>4, <3>1 DEF receive_message, Processes
  <2>3. /\ connected' \in BOOLEAN /\ stream' \in 0..MaxStreams
        /\ unread' \subseteq Streams
    <3>1. connected' \in BOOLEAN /\ stream' \in 0..MaxStreams
      <4>1. \/ connected' = FALSE /\ stream' = 0
            \/ connected' = connected /\ stream' = stream
        BY <1>4, Zenon DEF receive_message
      <4>2. connected' \in BOOLEAN
        BY <4>1, Zenon DEF TypeOK
      <4>3. stream' \in 0..MaxStreams
        BY <4>1 DEF TypeOK
      <4> QED
        BY <4>2, <4>3
    <3>2. unread' \in {unread, unread \cup {stream}}
      BY <1>4 DEF receive_message
    <3> QED
      BY <2>1, <3>1, <3>2 DEF TypeOK
  <2>4. UNCHANGED <<retries, cached, opened, next, cur, toGame, gone, game>>
    BY <1>4 DEF receive_message
  <2> HIDE DEF r
  <2> QED
    BY <1>0, <1>t, <2>2, <2>3, <2>4, ReleaseTypes DEF TypeOK, game, Points
<1>5. ASSUME NEW p \in Tools, StreamEnds(p) \/ RequestTimeout(p) PROVE TypeOK'
  <2>1. p \in Processes /\ 0 \in 0..MaxRequests /\ Release(p, 0)
    BY <1>5 DEF StreamEnds, RequestTimeout, Processes
  <2>2. /\ connected' \in BOOLEAN /\ stream' \in 0..MaxStreams
        /\ unread' \subseteq Streams
    <3>1. connected' \in BOOLEAN /\ stream' \in 0..MaxStreams
      <4>1. \/ connected' = FALSE /\ stream' = 0
            \/ connected' = connected /\ stream' = stream
        BY <1>5, Zenon DEF StreamEnds, RequestTimeout, client
      <4>2. connected' \in BOOLEAN
        BY <4>1, Zenon DEF TypeOK
      <4>3. stream' \in 0..MaxStreams
        BY <4>1 DEF TypeOK
      <4> QED
        BY <4>2, <4>3
    <3>2. unread' = unread \cup {stream}
      BY <1>5 DEF StreamEnds, RequestTimeout
    <3>3. stream \in Streams
      BY <1>5 DEF StreamEnds, RequestTimeout, TypeOK, GuardHeld, At, Streams
    <3> QED
      BY <3>1, <3>2, <3>3 DEF TypeOK
  <2>3. UNCHANGED <<retries, cached, opened, next, cur, wire, game>>
    BY <1>5 DEF StreamEnds, RequestTimeout, client
  <2> QED
    BY <1>0, <1>t, <2>1, <2>2, <2>3, ReleaseTypes DEF TypeOK, wire, game, Points
<1>6. ASSUME NEW p \in Tools, get_component_types(p) PROVE TypeOK'
  <2>1. connected' \in BOOLEAN /\ cached' \in BOOLEAN
    BY <1>6 DEF get_component_types, TypeOK
  <2>2. UNCHANGED <<stream, retries, opened, next, cur, wire, unread, game>>
    BY <1>6 DEF get_component_types
  <2>3. CASE Goto(p, "post") /\ UNCHANGED <<lock, answer>>
    BY <1>0, <2>1, <2>2, <2>3 DEF TypeOK, Goto, wire, game
  <2>4. CASE Release(p, 0)
    <3>1. p \in Processes /\ 0 \in 0..MaxRequests
      BY DEF Processes
    <3> QED
      BY <1>0, <1>t, <2>1, <2>2, <2>4, <3>1, ReleaseTypes DEF TypeOK, wire, game, Points
  <2> QED
    BY <1>6, <2>3, <2>4 DEF get_component_types
<1>7. ASSUME NEW p \in Tools, send_request_http(p) PROVE TypeOK'
  <2>1. connected' \in BOOLEAN
    BY <1>7 DEF send_request_http, TypeOK
  <2>2. UNCHANGED <<stream, retries, cached, opened, next, cur, wire, unread, game>>
    BY <1>7 DEF send_request_http
  <2>3. PICK r \in 0..MaxRequests : Release(p, r)
    BY <1>7 DEF send_request_http, TypeOK
  <2>4. p \in Processes
    BY DEF Processes
  <2> QED
    BY <1>0, <1>t, <2>1, <2>2, <2>3, <2>4, ReleaseTypes DEF TypeOK, wire, game, Points
<1>8. CASE LoopGuard \/ ConnectFails
  <2>1. CASE LoopGuard
    BY <1>0, <2>1 DEF LoopGuard, TypeOK, Goto, client, tool, wire, game, Processes
  <2>2. CASE ConnectFails
    <3>1. connected' \in BOOLEAN /\ stream' \in 0..MaxStreams
      <4>1. stream' \in {0, stream}
        BY <2>2 DEF ConnectFails
      <4>2. connected' = FALSE \/ connected' = connected
        BY <2>2, Zenon DEF ConnectFails
      <4>3. connected' \in BOOLEAN
        BY <4>2, Zenon DEF TypeOK
      <4>4. stream' \in 0..MaxStreams
        BY <4>1 DEF TypeOK
      <4> QED
        BY <4>3, <4>4
    <3>2. retries' \in 0..MaxRetries
      BY <2>2 DEF ConnectFails, TypeOK
    <3> QED
      BY <1>0, <2>2, <3>1, <3>2 DEF ConnectFails, TypeOK, tool, wire, game
  <2> QED
    BY <1>8, <2>1, <2>2
<1>9. CASE Connected \/ GiveUp
  <2>1. Loop \in Processes /\ 0 \in 0..MaxRequests /\ Release(Loop, 0)
    BY <1>9 DEF Connected, GiveUp, Processes
  <2>2. /\ connected' \in BOOLEAN /\ stream' \in 0..MaxStreams /\ opened' \in 0..MaxStreams
        /\ retries' \in 0..MaxRetries
    <3>1. CASE Connected
      <4>1. opened' \in 0..MaxStreams /\ stream' \in 0..MaxStreams
        BY <3>1 DEF Connected, TypeOK, Reachable
      <4> QED
        BY <3>1, <4>1 DEF Connected
    <3>2. CASE GiveUp
      BY <3>2 DEF GiveUp, TypeOK, client
    <3> QED
      BY <1>9, <3>1, <3>2
  <2>3. UNCHANGED <<cached, next, cur, wire, unread, game>>
    BY <1>9 DEF Connected, GiveUp, client
  <2> QED
    BY <1>0, <1>t, <2>1, <2>2, <2>3, ReleaseTypes DEF TypeOK, wire, game, Points
<1>10. ASSUME NEW s \in Streams, Serve(s) \/ GamePings(s) \/ LoseStream(s) PROVE TypeOK'
  BY <1>0, <1>10 DEF Serve, GamePings, LoseStream, TypeOK, client, tool, wire, game
<1>11. CASE GoAway \/ ComeBack
  <2>1. CASE GoAway
    <3>1. outages' \in 0..MaxOutages /\ up' \in BOOLEAN /\ gone' \subseteq Streams
      <4>1. up' = FALSE /\ outages' = outages + 1 /\ gone' = Streams \cap (1..opened)
        BY <2>1, Zenon DEF GoAway
      <4>2. outages' \in 0..MaxOutages
        BY <2>1, <4>1 DEF GoAway, TypeOK
      <4> QED
        BY <4>1, <4>2
    <3> QED
      BY <1>0, <2>1, <3>1 DEF GoAway, TypeOK, client, tool
  <2>2. CASE ComeBack
    BY <1>0, <2>2 DEF ComeBack, TypeOK, client, tool, wire
  <2> QED
    BY <1>11, <2>1, <2>2
<1>12. CASE UNCHANGED vars
  BY <1>0, <1>12 DEF vars, TypeOK, client, tool, wire, game
<1> QED
  BY <1>1, <1>2, <1>3, <1>4, <1>5, <1>6, <1>7, <1>8, <1>9, <1>10, <1>11, <1>12
  DEF Next, ToolStep, LoopStep
(* A process that lets go of the guard is past nothing that needs it, and the  *)
(* others never were.                                                          *)
LEMMA ReleaseGuard ==
  ASSUME TypeOK, GuardHeld, NEW p \in Processes, NEW r, Release(p, r), lock = p,
         UNCHANGED cur
  PROVE  GuardHeld'
<1>1. /\ lock' = None /\ pc' = [pc EXCEPT ![p] = "idle"]
      /\ pc \in [Processes -> Points]
  BY DEF Release, Goto, TypeOK, Points
<1>2. \A q \in Processes : pc'[q] \notin Guarded
  BY <1>1, LoopIsNoTool DEF GuardHeld, Guarded
<1>3. pc'[Loop] \in {"idle", "connect"}
  BY <1>1 DEF GuardHeld, Processes
<1>4. ASSUME NEW q \in Tools
      PROVE  /\ pc'[q] # "connect"
             /\ pc'[q] = "wait" => stream' # 0
             /\ pc'[q] # "idle" => cur'[q] \in Requests
  BY <1>1, <1>2 DEF GuardHeld, Processes, Guarded
<1> QED
  BY <1>1, <1>2, <1>3, <1>4 DEF GuardHeld

LEMMA GuardStep == ASSUME ClientInv, [Next]_vars PROVE GuardHeld'
<1> USE BrpClientAssumption, LoopIsNoTool DEF ClientInv
<1>t. TypeOK /\ GuardHeld /\ pc \in [Processes -> Points] /\ Tools \subseteq Processes
  BY DEF TypeOK, Points, Processes
<1>1. ASSUME NEW p \in Tools, is_connected(p) PROVE GuardHeld'
  <2>1. next \in Requests /\ cur' = [cur EXCEPT ![p] = next] /\ lock = None
    BY <1>1 DEF is_connected, TypeOK, Requests
  <2> QED
    BY <1>1, <1>t, <2>1 DEF is_connected, Goto, GuardHeld, client, Guarded, TypeOK, Processes
<1>2. ASSUME NEW p \in Tools, WriteGuard(p) PROVE GuardHeld'
  BY <1>2, <1>t DEF WriteGuard, Goto, GuardHeld, client, tool, Guarded, Processes
<1>3. ASSUME NEW p \in Tools, send_message(p) \/ get_component_types(p) PROVE GuardHeld'
  <2>1. At(p, "send") /\ UNCHANGED <<stream, cur>>
    BY <1>3 DEF send_message, get_component_types, client
  <2>2. CASE Goto(p, "wait") /\ stream # 0 /\ UNCHANGED lock
    BY <1>t, <2>1, <2>2 DEF Goto, GuardHeld, At, Guarded, Processes
  <2>3. CASE Goto(p, "post") /\ UNCHANGED lock
    BY <1>t, <2>1, <2>3 DEF Goto, GuardHeld, At, Guarded, Processes
  <2>4. CASE Release(p, 0)
    BY <1>t, <2>1, <2>4, ReleaseGuard DEF At
  <2> QED
    BY <1>3, <2>2, <2>3, <2>4 DEF send_message, get_component_types
<1>4. ASSUME NEW p \in Tools,
             Refused(p) \/ receive_message(p) \/ StreamEnds(p) \/ RequestTimeout(p)
               \/ send_request_http(p)
      PROVE  GuardHeld'
  <2>1. lock = p /\ UNCHANGED cur /\ \E r : Release(p, r)
    BY <1>4 DEF Refused, receive_message, StreamEnds, RequestTimeout, send_request_http, At
  <2> QED
    BY <1>t, <2>1, ReleaseGuard
<1>5. CASE LoopGuard
  BY <1>5, <1>t DEF LoopGuard, Goto, GuardHeld, client, tool, Guarded, Processes
<1>6. CASE ConnectFails
  BY <1>6, <1>t DEF ConnectFails, At, GuardHeld, tool, Guarded, Processes
<1>7. CASE Connected \/ GiveUp
  <2>1. lock = Loop /\ UNCHANGED cur /\ Release(Loop, 0) /\ Loop \in Processes
    BY <1>7 DEF Connected, GiveUp, At, Processes
  <2> QED
    BY <1>t, <2>1, ReleaseGuard
<1>8. ASSUME \/ \E s \in Streams : Serve(s) \/ GamePings(s) \/ LoseStream(s)
             \/ GoAway \/ ComeBack \/ UNCHANGED vars
      PROVE  GuardHeld'
  <2>1. UNCHANGED <<lock, pc, stream, cur>>
    BY <1>8 DEF Serve, GamePings, LoseStream, GoAway, ComeBack, vars, client, tool
  <2> QED
    BY <1>t, <2>1 DEF GuardHeld
<1> QED
  BY <1>1, <1>2, <1>3, <1>4, <1>5, <1>6, <1>7, <1>8 DEF Next, ToolStep, LoopStep

(* Frames are put on a WebSocket, and taken from it, one at a time.            *)
LEMMA WiresStep == ASSUME ClientInv, [Next]_vars PROVE Wires'
<1> USE BrpClientAssumption, LoopIsNoTool DEF ClientInv
<1>t. /\ TypeOK /\ Wires /\ GuardHeld
      /\ toGame \in [Streams -> Seq(Texts)]
      /\ toClient \in [Streams -> Seq(Texts \cup {Ping, Close})]
      /\ opened \in 0..MaxStreams
  BY DEF TypeOK, Wires
<1>1. ASSUME NEW p \in Tools, send_message(p) PROVE Wires'
  <2>1. CASE stream # 0 /\ toGame' = [toGame EXCEPT ![stream] = Append(@, Text(cur[p]))]
    <3>1. stream \in Streams /\ stream <= opened /\ Text(cur[p]) \in Texts
      BY <1>1, <2>1, <1>t DEF send_message, At, TypeOK, Streams, GuardHeld, Wires, Texts, Requests
    <3>2. toGame[stream] \in Seq(Texts)
      BY <1>t, <3>1
    <3>3. Append(toGame[stream], Text(cur[p])) \in Seq(Texts)
      BY <3>1, <3>2, AppendProperties
    <3>4. toGame' \in [Streams -> Seq(Texts)]
      BY <1>t, <2>1, <3>3
    <3>5. \A s \in Streams : s > opened => toGame'[s] = <<>>
      BY <1>t, <2>1, <3>1 DEF Wires, Streams
    <3>6. UNCHANGED <<opened, stream, toClient, gone, unread>>
      BY <1>1 DEF send_message, client
    <3> QED
      BY <1>t, <3>4, <3>5, <3>6 DEF Wires
  <2>2. CASE UNCHANGED toGame
    BY <1>1, <1>t, <2>2 DEF send_message, Wires, client
  <2> QED
    BY <1>1, <2>1, <2>2 DEF send_message
<1>2. ASSUME NEW p \in Tools, receive_message(p) PROVE Wires'
  <2>1. stream \in Streams /\ stream <= opened
    BY <1>2, <1>t DEF receive_message, At, TypeOK, GuardHeld, Streams, Wires
  <2>2. Tail(toClient[stream]) \in Seq(Texts \cup {Ping, Close})
    BY <1>2, <1>t, <2>1, FrameTypes DEF receive_message
  <2>3. /\ toClient' = [toClient EXCEPT ![stream] = Tail(@)]
        /\ stream' \in {0, stream} /\ unread' \in {unread, unread \cup {stream}}
        /\ UNCHANGED <<opened, toGame, gone>>
    BY <1>2 DEF receive_message
  <2>4. toClient' \in [Streams -> Seq(Texts \cup {Ping, Close})]
    BY <1>t, <2>2, <2>3
  <2>5. \A s \in Streams : s > opened => toClient'[s] = <<>>
    BY <1>t, <2>1, <2>3 DEF Wires, Streams
  <2>6. stream' <= opened /\ \A s \in gone \cup unread' : s <= opened
    BY <1>t, <2>1, <2>3 DEF Wires
  <2> QED
    BY <1>t, <2>3, <2>4, <2>5, <2>6 DEF Wires
<1>3. ASSUME NEW p \in Tools, StreamEnds(p) \/ RequestTimeout(p) PROVE Wires'
  <2>1. /\ stream' \in {0, stream} /\ unread' = unread \cup {stream}
        /\ UNCHANGED <<opened, wire>>
    BY <1>3 DEF StreamEnds, RequestTimeout, client
  <2> QED
    BY <1>t, <2>1 DEF Wires, wire
<1>4. CASE Connected
  <2>1. UNCHANGED <<wire, unread>>
    BY <1>4 DEF Connected
  <2>2. \/ opened' = opened + 1 /\ stream' = opened + 1
        \/ opened' = opened /\ stream' = 0
    BY <1>4 DEF Connected
  <2>3. gone \subseteq Nat /\ unread \subseteq Nat /\ Streams \subseteq Nat
    BY <1>t DEF TypeOK, Streams
  <2>4. stream' <= opened' /\ opened <= opened' /\ opened' \in Nat
    BY <1>t, <2>2
  <2> QED
    BY <1>t, <2>1, <2>3, <2>4 DEF Wires, wire
<1>5. CASE ConnectFails
  <2>1. stream' \in {0, stream} /\ UNCHANGED <<opened, wire, unread>>
    BY <1>5 DEF ConnectFails
  <2> QED
    BY <1>t, <2>1 DEF Wires, wire
<1>6. ASSUME NEW s \in Streams, Serve(s) PROVE Wires'
  <2>1. toGame[s] \in Seq(Texts) /\ toGame[s] # <<>>
    BY <1>6, <1>t DEF Serve
  <2>2. Head(toGame[s]) \in Texts /\ Tail(toGame[s]) \in Seq(Texts)
    BY <2>1, HeadTailProperties
  <2>3. toClient[s] \in Seq(Texts \cup {Ping, Close})
    BY <1>t
  <2>4. Append(toClient[s], Head(toGame[s])) \in Seq(Texts \cup {Ping, Close})
    BY <2>2, <2>3, AppendProperties
  <2>5. /\ toGame' = [toGame EXCEPT ![s] = Tail(@)]
        /\ toClient' = [toClient EXCEPT ![s] = Append(@, Head(toGame[s]))]
        /\ UNCHANGED <<opened, stream, gone, unread>>
    BY <1>6 DEF Serve, client
  <2>6. /\ toGame' \in [Streams -> Seq(Texts)]
        /\ toClient' \in [Streams -> Seq(Texts \cup {Ping, Close})]
    BY <1>t, <2>2, <2>4, <2>5
  <2>7. ~(s > opened)
    BY <1>t, <2>1 DEF Wires
  <2> QED
    BY <1>t, <2>5, <2>6, <2>7 DEF Wires
<1>7. ASSUME NEW s \in Streams, GamePings(s) PROVE Wires'
  <2>1. <<Ping>> \in Seq(Texts \cup {Ping, Close})
    OBVIOUS
  <2>2. /\ toClient' = [toClient EXCEPT ![s] = <<Ping>>] /\ s = stream
        /\ UNCHANGED <<opened, stream, toGame, gone, unread>>
    BY <1>7 DEF GamePings, client
  <2>3. toClient' \in [Streams -> Seq(Texts \cup {Ping, Close})]
    BY <1>t, <2>1, <2>2
  <2>4. ~(s > opened)
    BY <1>t, <2>2 DEF Wires, TypeOK
  <2> QED
    BY <1>t, <2>2, <2>3, <2>4 DEF Wires
<1>8. ASSUME NEW s \in Streams, LoseStream(s) PROVE Wires'
  <2>1. toClient[s] \in Seq(Texts \cup {Ping, Close})
    BY <1>t
  <2>2. Append(toClient[s], Close) \in Seq(Texts \cup {Ping, Close})
    BY <2>1, AppendProperties
  <2>3. /\ toClient' = toClient \/ toClient' = [toClient EXCEPT ![s] = Append(@, Close)]
        /\ s <= opened /\ gone' = gone \cup {s}
        /\ UNCHANGED <<opened, stream, toGame, unread>>
    BY <1>8 DEF LoseStream, client
  <2>4. toClient' \in [Streams -> Seq(Texts \cup {Ping, Close})]
    BY <1>t, <2>2, <2>3
  <2>5. \A r \in Streams : r > opened => toClient'[r] = <<>>
    <3> SUFFICES ASSUME NEW r \in Streams, r > opened PROVE toClient'[r] = <<>>
      OBVIOUS
    <3>1. r # s /\ toClient[r] = <<>>
      BY <1>t, <2>3 DEF Wires, Streams
    <3> QED
      BY <1>t, <2>3, <3>1
  <2>6. \A r \in gone' \cup unread : r <= opened
    BY <1>t, <2>3 DEF Wires
  <2> QED
    BY <1>t, <2>3, <2>4, <2>5, <2>6 DEF Wires
<1>9. CASE GoAway
  <2>1. gone' = Streams \cap (1..opened) /\ UNCHANGED <<opened, stream, toGame, toClient, unread>>
    BY <1>9 DEF GoAway, client
  <2> QED
    BY <1>t, <2>1 DEF Wires
<1>10. ASSUME \/ \E p \in Tools : \/ is_connected(p) \/ WriteGuard(p) \/ Refused(p)
                                  \/ get_component_types(p) \/ send_request_http(p)
              \/ LoopGuard \/ GiveUp \/ ComeBack \/ UNCHANGED vars
       PROVE  Wires'
  <2>1. UNCHANGED <<opened, stream, toGame, toClient, gone, unread>>
    BY <1>10 DEF is_connected, WriteGuard, Refused, get_component_types, send_request_http,
       LoopGuard, GiveUp, ComeBack, vars, client, wire
  <2> QED
    BY <1>t, <2>1 DEF Wires
<1> QED
  BY <1>1, <1>2, <1>3, <1>4, <1>5, <1>6, <1>7, <1>8, <1>9, <1>10 DEF Next, ToolStep, LoopStep

LEMMA FlagStep == ASSUME ClientInv, [Next]_vars PROVE FlagMatchesStream'
<1> USE DEF ClientInv, FlagMatchesStream
<1>0. UNCHANGED transport
  BY DEF Next, vars
<1>1. ASSUME transport = "WebSocket", NEW p \in Tools, ToolStep(p)
      PROVE  \/ UNCHANGED <<connected, stream>>
             \/ connected' = FALSE /\ stream' = 0
  BY <1>1, Zenon DEF ToolStep, WriteGuard, Refused, send_message, receive_message, StreamEnds,
     RequestTimeout, get_component_types, send_request_http, client
<1>2. ASSUME transport = "WebSocket", LoopStep
      PROVE  \/ UNCHANGED <<connected, stream>>
             \/ connected' = TRUE /\ stream' = opened + 1
  <2>1. CASE LoopGuard \/ GiveUp
    BY <2>1 DEF LoopGuard, GiveUp, client
  <2>2. CASE Connected
    BY <1>2, <2>2 DEF Connected
  <2>3. CASE ConnectFails
    BY <1>2, <2>3 DEF ConnectFails
  <2> QED
    BY <1>2, <2>1, <2>2, <2>3 DEF LoopStep
<1>3. ASSUME \/ \E p \in Tools : is_connected(p)
             \/ \E s \in Streams : Serve(s) \/ GamePings(s) \/ LoseStream(s)
             \/ GoAway \/ ComeBack \/ UNCHANGED vars
      PROVE  UNCHANGED <<connected, stream>>
  BY <1>3 DEF is_connected, Serve, GamePings, LoseStream, GoAway, ComeBack, vars, client
<1>4. opened + 1 # 0
  BY DEF TypeOK
<1> QED
  BY <1>0, <1>1, <1>2, <1>3, <1>4 DEF Next
(* No text is under way on the WebSocket s.                                    *)
NoTexts(s) == toGame[s] = <<>> /\ \A i \in 1..Len(toClient[s]) : ~IsText(toClient[s][i])

LEMMA Silence ==
  ASSUME TypeOK, Wires, OwnText, stream \notin unread \cup {0},
         \A p \in Tools : ~At(p, "wait")
  PROVE  NoTexts(stream)
<1>1. stream \in Streams
  BY BrpClientAssumption DEF TypeOK, Streams
<1>2. toGame[stream] \in Seq(Texts)
  BY <1>1 DEF Wires
<1>3. ~(1 \in 1..Len(toGame[stream]))
  BY DEF OwnText
<1>4. toGame[stream] = <<>>
  BY <1>2, <1>3, EmptySeq, LenProperties
<1> QED
  BY <1>4 DEF OwnText, NoTexts

LEMMA SilenceIsOwn ==
  ASSUME stream \notin unread \cup {0} => NoTexts(stream)
  PROVE  OneText /\ OwnText
BY DEF NoTexts, OneText, OwnText

(* A step of who does not wait leaves a silent WebSocket silent.               *)
LEMMA SilentStep ==
  ASSUME TypeOK, Wires, OwnText, \A p \in Tools : ~At(p, "wait"),
         UNCHANGED <<toGame, toClient>>, stream' \in {0, stream}, unread \subseteq unread'
  PROVE  OneText' /\ OwnText'
<1>1. stream' \notin unread' \cup {0} => NoTexts(stream)
  BY Silence
<1>2. (stream \notin unread \cup {0} => NoTexts(stream))'
  BY <1>1 DEF NoTexts
<1> QED
  BY <1>2, SilenceIsOwn, PTL

LEMMA TextStep == ASSUME ClientInv, [Next]_vars PROVE OneText' /\ OwnText'
<1> USE BrpClientAssumption, LoopIsNoTool DEF ClientInv
<1>t. /\ TypeOK /\ Wires /\ GuardHeld /\ OneText /\ OwnText
      /\ toGame \in [Streams -> Seq(Texts)]
      /\ toClient \in [Streams -> Seq(Texts \cup {Ping, Close})]
      /\ stream \in 0..MaxStreams
      /\ pc \in [Processes -> Points] /\ Tools \subseteq Processes
  BY DEF TypeOK, Wires, Points, Processes
<1>s. stream \notin unread \cup {0} => stream \in Streams
  BY <1>t DEF Streams
<1>1. ASSUME \/ \E p \in Tools : \/ is_connected(p) \/ WriteGuard(p) \/ Refused(p)
                                 \/ get_component_types(p) \/ send_request_http(p)
             \/ LoopGuard \/ ConnectFails \/ GiveUp
      PROVE  OneText' /\ OwnText'
  <2>1. \A q \in Tools : ~At(q, "wait")
    BY <1>1 DEF is_connected, WriteGuard, Refused, get_component_types, send_request_http,
       LoopGuard, ConnectFails, GiveUp, At
  <2>2. /\ UNCHANGED <<toGame, toClient, unread>>
        /\ stream' \in {0, stream}
    BY <1>1 DEF is_connected, WriteGuard, Refused, get_component_types, send_request_http,
       LoopGuard, ConnectFails, GiveUp, client, wire
  <2> QED
    BY <1>t, <2>1, <2>2, SilentStep
<1>2. CASE Connected
  <2>1. /\ UNCHANGED <<toGame, toClient, unread>> /\ stream' \in {0, opened + 1}
        /\ stream' # 0 => stream' \in Streams
    BY <1>2, <1>t DEF Connected, wire, Reachable, TypeOK, Streams
  <2>2. (stream \notin unread \cup {0} => NoTexts(stream))'
    <3> SUFFICES ASSUME stream' \notin unread' \cup {0}
                 PROVE  NoTexts(stream)'
      OBVIOUS
    <3>1. stream' = opened + 1 /\ stream' \in Streams /\ stream' > opened
      BY <1>t, <2>1 DEF TypeOK
    <3>2. toGame[stream'] = <<>> /\ toClient[stream'] = <<>>
      BY <1>t, <3>1 DEF Wires
    <3> QED
      BY <2>1, <3>2 DEF NoTexts
  <2> QED
    BY <2>2, SilenceIsOwn, PTL
<1>3. ASSUME NEW p \in Tools, send_message(p) PROVE OneText' /\ OwnText'
  <2>1. /\ \A q \in Tools : ~At(q, "wait")
        /\ UNCHANGED <<toClient, stream, unread, cur>>
        /\ At(p, "send")
    BY <1>3 DEF send_message, At, client
  <2>2. CASE UNCHANGED toGame
    BY <1>t, <2>1, <2>2, SilentStep
  <2>3. ASSUME stream # 0, toGame' = [toGame EXCEPT ![stream] = Append(@, Text(cur[p]))],
               Goto(p, "wait"), UNCHANGED lock, stream \notin unread
        PROVE  OneText' /\ OwnText'
    <3>1. stream \in Streams /\ NoTexts(stream)
      BY <1>t, <1>s, <2>1, <2>3, Silence
    <3>2. toGame'[stream] = <<Text(cur[p])>> /\ toClient'[stream] = toClient[stream]
      BY <1>t, <2>1, <2>3, <3>1 DEF NoTexts
    <3>3. At(p, "wait")' /\ cur'[p] = cur[p]
      BY <1>t, <2>1, <2>3 DEF At, Goto
    <3>4. OneText'
      BY <2>1, <3>1, <3>2 DEF OneText, NoTexts
    <3>5. OwnText'
      BY <2>1, <3>1, <3>2, <3>3 DEF OwnText, NoTexts
    <3> QED
      BY <3>4, <3>5
  <2>4. ASSUME stream \in unread PROVE OneText' /\ OwnText'
    BY <2>1, <2>4 DEF OneText, OwnText
  <2> QED
    BY <1>3, <2>2, <2>3, <2>4 DEF send_message
<1>4. ASSUME NEW p \in Tools, receive_message(p) PROVE OneText' /\ OwnText'
  <2>1. /\ toClient[stream] # <<>>
        /\ toClient' = [toClient EXCEPT ![stream] = Tail(@)]
        /\ UNCHANGED toGame
        /\ stream' \in {0, stream} /\ unread \subseteq unread'
        /\ Head(toClient[stream]).kind = "close" => stream' = 0
        /\ Head(toClient[stream]).kind = "ping" => stream \in unread'
    BY <1>4 DEF receive_message
  <2>2. (stream \notin unread \cup {0} => NoTexts(stream))'
    <3> SUFFICES ASSUME stream' \notin unread' \cup {0}
                 PROVE  NoTexts(stream)'
      OBVIOUS
    <3>1. stream' = stream /\ stream \in Streams /\ stream \notin unread \cup {0}
      BY <1>s, <2>1
    <3>2. /\ Head(toClient[stream]) \in Texts \cup {Ping, Close}
          /\ toClient[stream] \in Seq(Texts \cup {Ping, Close})
      BY <1>t, <2>1, <3>1, FrameTypes
    <3>3. IsText(Head(toClient[stream]))
      BY <2>1, <3>1, <3>2 DEF IsText, Texts, Text, Ping, Close
    <3>4. toClient[stream][1] = Head(toClient[stream]) /\ 1 \in 1..Len(toClient[stream])
      BY <2>1, <3>2, EmptySeq, LenProperties
    <3>5. /\ toGame[stream] = <<>>
          /\ \A j \in 1..Len(toClient[stream]) : IsText(toClient[stream][j]) => 1 = j
      BY <1>t, <3>1, <3>3, <3>4 DEF OneText
    <3>6. /\ Len(Tail(toClient[stream])) = Len(toClient[stream]) - 1
          /\ \A j \in 1..Len(Tail(toClient[stream])) :
               Tail(toClient[stream])[j] = toClient[stream][j + 1]
      BY <2>1, <3>2, HeadTailProperties
    <3>7. \A j \in 1..Len(Tail(toClient[stream])) : ~IsText(Tail(toClient[stream])[j])
      <4> SUFFICES ASSUME NEW j \in 1..Len(Tail(toClient[stream]))
                   PROVE  ~IsText(Tail(toClient[stream])[j])
        OBVIOUS
      <4>1. Len(toClient[stream]) \in Nat
        BY <3>2, LenProperties
      <4>2. j + 1 \in 1..Len(toClient[stream]) /\ j + 1 # 1
        BY <3>6, <4>1
      <4> QED
        BY <3>5, <3>6, <4>2
    <3>8. toClient'[stream] = Tail(toClient[stream])
      BY <1>t, <2>1, <3>1
    <3> QED
      BY <2>1, <3>1, <3>5, <3>7, <3>8 DEF NoTexts
  <2> QED
    BY <2>2, SilenceIsOwn, PTL
<1>5. ASSUME NEW p \in Tools, StreamEnds(p) \/ RequestTimeout(p) PROVE OneText' /\ OwnText'
  <2>1. stream' \in {0, stream} /\ unread' = unread \cup {stream}
    BY <1>5 DEF StreamEnds, RequestTimeout, client
  <2>2. stream' \in unread' \cup {0}
    BY <2>1
  <2>3. (stream \notin unread \cup {0} => NoTexts(stream))'
    BY <2>2
  <2> QED
    BY <2>3, SilenceIsOwn, PTL
(* The game reads the request, the one that is under way, and answers it.      *)
<1>6. ASSUME NEW s \in Streams, Serve(s) PROVE OneText' /\ OwnText'
  <2>1. /\ toGame[s] # <<>>
        /\ toGame' = [toGame EXCEPT ![s] = Tail(@)]
        /\ toClient' = [toClient EXCEPT ![s] = Append(@, Head(toGame[s]))]
        /\ UNCHANGED <<stream, unread, pc, lock, cur>>
    BY <1>6 DEF Serve, client, tool
  <2>2. CASE s # stream
    <3>1. stream \notin unread \cup {0} =>
            toGame'[stream] = toGame[stream] /\ toClient'[stream] = toClient[stream]
      BY <1>t, <1>s, <2>1, <2>2
    <3> QED
      BY <1>t, <2>1, <3>1 DEF OneText, OwnText, At
  <2>3. CASE s = stream /\ stream \notin unread \cup {0}
    <3>1. toGame[s] \in Seq(Texts) /\ toClient[s] \in Seq(Texts \cup {Ping, Close})
      BY <1>t
    <3>2. Len(toGame[s]) = 1
      <4>1. Len(toGame[s]) # 0 /\ Len(toGame[s]) \in Nat
        BY <2>1, <3>1, EmptySeq, LenProperties
      <4>2. Len(toGame[s]) <= 1
        BY <1>t, <2>3 DEF OneText
      <4> DEFINE n == Len(toGame[s])
      <4>3. n # 0 /\ n \in Nat /\ n <= 1
        BY <4>1, <4>2
      <4> HIDE DEF n
      <4>4. n = 1
        BY <4>3
      <4> QED
        BY <4>4 DEF n
    <3>3. Tail(toGame[s]) = <<>> /\ Head(toGame[s]) = toGame[s][1]
      <4>1. /\ Head(toGame[s]) = toGame[s][1] /\ Tail(toGame[s]) \in Seq(Texts)
            /\ Len(Tail(toGame[s])) = 0
        BY <2>1, <3>1, <3>2, HeadTailProperties
      <4>2. Tail(toGame[s]) = <<>>
        BY <4>1, EmptySeq
      <4> QED
        BY <4>1, <4>2
    <3>4. PICK p \in Tools : At(p, "wait") /\ toGame[s][1] = Text(cur[p])
      BY <1>t, <2>3, <3>2 DEF OwnText
    <3>5. \A i \in 1..Len(toClient[s]) : ~IsText(toClient[s][i])
      BY <1>t, <2>1, <2>3 DEF OneText
    <3> DEFINE new == Append(toClient[s], Text(cur[p]))
    <3>6. toGame'[stream] = <<>> /\ toClient'[stream] = new
      BY <1>t, <2>1, <2>3, <3>3, <3>4
    <3>7. /\ Len(new) = Len(toClient[s]) + 1
          /\ new[Len(new)] = Text(cur[p])
          /\ \A i \in 1..Len(toClient[s]) : new[i] = toClient[s][i]
      BY <3>1, AppendProperties
    <3>8. Len(toClient[s]) \in Nat
      BY <3>1, LenProperties
    <3> HIDE DEF new
    <3>9. \A i \in 1..Len(new) : IsText(new[i]) => i = Len(new)
      BY <3>5, <3>7, <3>8
    <3>10. At(p, "wait")' /\ cur'[p] = cur[p]
      BY <2>1, <3>4 DEF At
    <3>11. OneText'
      BY <2>1, <3>6, <3>9 DEF OneText
    <3>12. OwnText'
      <4>1. \A i \in 1..Len(new) : IsText(new[i]) => new[i] = Text(cur'[p])
        BY <3>7, <3>9, <3>10
      <4>2. stream' = stream /\ Len(toGame'[stream]) = 0
        BY <2>1, <3>6
      <4>3. (\A i \in 1..Len(toGame[stream]) :
               \E q \in Tools : At(q, "wait") /\ toGame[stream][i] = Text(cur[q]))'
        BY <4>2
      <4>4. (\A i \in 1..Len(toClient[stream]) : IsText(toClient[stream][i]) =>
               \E q \in Tools : At(q, "wait") /\ toClient[stream][i] = Text(cur[q]))'
        BY <3>6, <3>10, <4>1, <4>2 DEF At
      <4> QED
        BY <4>3, <4>4 DEF OwnText
    <3> QED
      BY <3>11, <3>12
  <2>4. CASE stream \in unread \cup {0}
    BY <2>1, <2>4 DEF OneText, OwnText
  <2> QED
    BY <2>2, <2>3, <2>4
<1>7. ASSUME NEW s \in Streams, GamePings(s) PROVE OneText' /\ OwnText'
  <2>1. /\ s = stream /\ toClient[s] = <<>> /\ toClient' = [toClient EXCEPT ![s] = <<Ping>>]
        /\ UNCHANGED <<toGame, stream, unread, pc, lock, cur>>
    BY <1>7 DEF GamePings, client, tool
  <2>2. toClient'[stream] = <<Ping>> /\ ~IsText(Ping)
    BY <1>t, <2>1 DEF IsText, Ping
  <2>3. OneText'
    BY <1>t, <2>1, <2>2 DEF OneText
  <2>4. OwnText'
    BY <1>t, <2>1, <2>2 DEF OwnText, At
  <2> QED
    BY <2>3, <2>4
<1>8. ASSUME NEW s \in Streams, LoseStream(s) PROVE OneText' /\ OwnText'
  <2>1. /\ toClient' = toClient \/ toClient' = [toClient EXCEPT ![s] = Append(@, Close)]
        /\ UNCHANGED <<toGame, stream, unread, pc, lock, cur>>
    BY <1>8 DEF LoseStream, client, tool
  <2>2. ASSUME stream \notin unread \cup {0}
        PROVE  \A i \in 1..Len(toClient'[stream]) : IsText(toClient'[stream][i]) =>
                 /\ i \in 1..Len(toClient[stream])
                 /\ toClient'[stream][i] = toClient[stream][i]
    <3>1. stream \in Streams /\ toClient[stream] \in Seq(Texts \cup {Ping, Close})
      BY <1>t, <1>s, <2>2
    <3>2. CASE toClient'[stream] = toClient[stream]
      BY <3>2
    <3>3. CASE toClient'[stream] = Append(toClient[stream], Close)
      <4>1. /\ Len(toClient'[stream]) = Len(toClient[stream]) + 1
            /\ toClient'[stream][Len(toClient[stream]) + 1] = Close
            /\ \A i \in 1..Len(toClient[stream]) : toClient'[stream][i] = toClient[stream][i]
        BY <3>1, <3>3, AppendProperties
      <4>2. Len(toClient[stream]) \in Nat /\ ~IsText(Close)
        BY <3>1, LenProperties DEF IsText, Close
      <4> QED
        BY <4>1, <4>2
    <3> QED
      BY <1>t, <2>1, <3>1, <3>2, <3>3
  <2>3. OneText'
    BY <1>t, <2>1, <2>2 DEF OneText
  <2>4. OwnText'
    BY <1>t, <2>1, <2>2 DEF OwnText, At
  <2> QED
    BY <2>3, <2>4
<1>9. CASE GoAway \/ ComeBack \/ UNCHANGED vars
  <2>1. UNCHANGED <<toGame, toClient, stream, unread, pc, lock, cur>>
    BY <1>9 DEF GoAway, ComeBack, vars, client, tool, wire
  <2> QED
    BY <1>t, <2>1 DEF OneText, OwnText, At
<1> QED
  BY <1>1, <1>2, <1>3, <1>4, <1>5, <1>6, <1>7, <1>8, <1>9 DEF Next, ToolStep, LoopStep

(* However tools, the loop and the game interleave, over any number of         *)
(* outages: a stale answer can only come from a request that ended without its *)
(* own, and a flag that says connected means a WebSocket.                      *)
THEOREM CleanAnswers == Spec => [](TypeOK /\ CleanStreamHasOwnAnswer /\ FlagMatchesStream)
<1>1. Init => ClientInv
  <2> SUFFICES ASSUME Init PROVE ClientInv
    OBVIOUS
  <2> USE BrpClientAssumption, LoopIsNoTool DEF Init
  <2>1. TypeOK
    <3>1. /\ connected \in BOOLEAN /\ cached \in BOOLEAN /\ up \in BOOLEAN
          /\ gone \subseteq Streams /\ unread \subseteq Streams
      OBVIOUS
    <3>2. /\ stream \in 0..MaxStreams /\ opened \in 0..MaxStreams
          /\ retries \in 0..MaxRetries /\ outages \in 0..MaxOutages
          /\ next \in 1..MaxRequests + 1
      OBVIOUS
    <3>3. /\ pc \in [Processes -> {"idle", "ready", "send", "wait", "post", "connect"}]
          /\ cur \in [Tools -> 0..MaxRequests] /\ answer \in [Tools -> 0..MaxRequests]
      OBVIOUS
    <3> QED
      BY <3>1, <3>2, <3>3 DEF TypeOK
  <2>2. Wires
    BY EmptySeq DEF Wires
  <2>3. GuardHeld
    BY DEF GuardHeld, Guarded, Processes
  <2>4. OneText /\ OwnText /\ FlagMatchesStream
    BY DEF OneText, OwnText, FlagMatchesStream
  <2> QED
    BY <2>1, <2>2, <2>3, <2>4 DEF ClientInv
<1>2. ClientInv /\ [Next]_vars => ClientInv'
  BY TypeStep, WiresStep, GuardStep, TextStep, FlagStep DEF ClientInv
<1>3. ClientInv => TypeOK /\ CleanStreamHasOwnAnswer /\ FlagMatchesStream
  <2> SUFFICES ASSUME ClientInv, stream \notin unread \cup {0}, NEW f \in Frames(stream),
                      f.kind = "text"
               PROVE  \E p \in Tools : At(p, "wait") /\ cur[p] = f.n
    BY DEF ClientInv, CleanStreamHasOwnAnswer
  <2>1. stream \in Streams
    BY BrpClientAssumption DEF ClientInv, TypeOK, Streams
  <2>2. toGame[stream] \in Seq(Texts) /\ toClient[stream] \in Seq(Texts \cup {Ping, Close})
    BY <2>1 DEF ClientInv, Wires
  <2>3. PICK p \in Tools : At(p, "wait") /\ f = Text(cur[p])
    BY <2>2, LenProperties DEF ClientInv, OwnText, Frames, IsText
  <2> QED
    BY <2>3 DEF Text
<1> QED
  BY <1>1, <1>2, <1>3, PTL DEF Spec

(* Over a WebSocket the client says that it is connected exactly when it has   *)
(* one, after any number of outages and errors (brp_client.rs).                *)
THEOREM FlagIsHonest == Spec => []FlagMatchesStream
  BY CleanAnswers, PTL
=============================================================================
