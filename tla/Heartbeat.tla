------------------------------ MODULE Heartbeat ------------------------------
(* The HeartbeatService of heartbeat.rs: a task that sends a ping per interval *)
(* and a task that reads pongs, over one WebSocket behind a mutex, with the    *)
(* map of pending pings and the statistics behind two more.  Neither task      *)
(* holds two of the mutexes at once.  A step is what a task does between two   *)
(* of them.                                                                    *)
(*                                                                             *)
(* Ids are UUIDs, so a ping is free to stand for a new one when no pong of it  *)
(* is to come.  Of the statistics only consecutive_failures decides anything;  *)
(* it is compared with max_missed and counted up to it.                        *)
EXTENDS Naturals, FiniteSets

CONSTANTS
  Pings,      \* ids of pings that are in use at a time
  MaxMissed,  \* config.max_missed
  None

HeartbeatAssumption ==
  /\ IsFiniteSet(Pings) /\ None \notin Pings
  /\ MaxMissed \in Nat \ {0}            \* Config::validate

VARIABLES
  hbRunning,   \* is_running
  sender,      \* where the sender task is
  sending,     \* the ping it is sending
  handler,     \* where the response handler is
  reading,     \* the pong it has read
  pending,     \* pending_pings
  atGame,      \* pings on the way to the game or with it
  pongs,       \* pongs on the way back
  linkUp,      \* whether the WebSocket works
  hbFailures,  \* consecutive_failures, counted up to max_missed
  reported     \* the failure callback was called since the last start

hbvars == <<hbRunning, sender, sending, handler, reading, pending, atGame, pongs,
            linkUp, hbFailures, reported>>

SenderPoints == {"off", "tick", "send", "sent", "failed", "clean"}
HandlerPoints == {"off", "read", "match", "count"}

Init ==
  /\ hbRunning = FALSE /\ sender = "off" /\ sending = None
  /\ handler = "off" /\ reading = None
  /\ pending = {} /\ atGame = {} /\ pongs = {}
  /\ linkUp = TRUE /\ hbFailures = 0 /\ reported = FALSE

wire == <<atGame, pongs, linkUp>>
senderVars == <<sender, sending>>
handlerVars == <<handler, reading>>

Free == Pings \ (atGame \cup pongs \cup {sending, reading})

-----------------------------------------------------------------------------
(* start on a service that runs returns at once.                              *)
Start ==
  /\ ~hbRunning
  /\ hbRunning' = TRUE /\ sender' = "tick" /\ handler' = "read" /\ reported' = FALSE
  /\ UNCHANGED <<sending, reading, pending, wire, hbFailures>>

(* stop aborts both tasks wherever they are; what they had done stays.        *)
Stop ==
  /\ hbRunning
  /\ hbRunning' = FALSE /\ sender' = "off" /\ handler' = "off"
  /\ sending' = None /\ reading' = None
  /\ UNCHANGED <<pending, wire, hbFailures, reported>>

(* The ping is pending before it is sent, so that no pong can come too early. *)
Tick ==
  /\ sender = "tick"
  /\ \E p \in Free :
       /\ pending' = pending \cup {p}
       /\ sending' = p
  /\ sender' = "send"
  /\ UNCHANGED <<hbRunning, handlerVars, wire, hbFailures, reported>>

Send ==
  /\ sender = "send"
  /\ IF linkUp
       THEN sender' = "sent" /\ atGame' = atGame \cup {sending}
       ELSE sender' = "failed" /\ UNCHANGED atGame
  /\ UNCHANGED <<hbRunning, sending, handlerVars, pending, pongs, linkUp, hbFailures, reported>>

(* Mutant: the task ends when a ping cannot be sent.                          *)
CountSendThenEnd ==
  /\ sender \in {"sent", "failed"}
  /\ sender' = IF sender = "sent" THEN "clean" ELSE "off"
  /\ IF sender = "failed" /\ hbFailures < MaxMissed
       THEN hbFailures' = hbFailures + 1
       ELSE UNCHANGED hbFailures
  /\ reported' = (reported \/ (sender = "failed" /\ hbFailures' >= MaxMissed))
  /\ UNCHANGED <<hbRunning, sending, handlerVars, pending, wire>>

(* A ping that was sent is only counted as sent.                              *)
CountSend ==
  /\ sender \in {"sent", "failed"}
  /\ sender' = "clean"
  /\ IF sender = "failed" /\ hbFailures < MaxMissed
       THEN hbFailures' = hbFailures + 1
       ELSE UNCHANGED hbFailures
  /\ reported' = (reported \/ (sender = "failed" /\ hbFailures' >= MaxMissed))
  /\ UNCHANGED <<hbRunning, sending, handlerVars, pending, wire>>

(* Pings older than the timeout and a second are forgotten; no failure is     *)
(* counted for them.                                                          *)
Clean ==
  /\ sender = "clean"
  /\ \E old \in SUBSET pending : pending' = pending \ old
  /\ sender' = "tick" /\ sending' = None
  /\ UNCHANGED <<hbRunning, handlerVars, wire, hbFailures, reported>>

(* The handler reads with a timeout of 100 ms, so that reading nothing is a   *)
(* stutter; an error or the end of the stream ends it for good.               *)
Read ==
  /\ handler = "read"
  /\ \/ \E p \in pongs : handler' = "match" /\ reading' = p /\ pongs' = pongs \ {p}
     \/ ~linkUp /\ handler' = "off" /\ UNCHANGED <<reading, pongs>>
  /\ UNCHANGED <<hbRunning, senderVars, pending, atGame, linkUp, hbFailures, reported>>

(* A pong whose ping is not pending any more is ignored.                      *)
MatchPong ==
  /\ handler = "match"
  /\ handler' = IF reading \in pending THEN "count" ELSE "read"
  /\ pending' = pending \ {reading}
  /\ reading' = None
  /\ UNCHANGED <<hbRunning, senderVars, wire, hbFailures, reported>>

CountPong ==
  /\ handler = "count"
  /\ handler' = "read" /\ hbFailures' = 0
  /\ UNCHANGED <<hbRunning, senderVars, reading, pending, wire, reported>>

(* trigger_heartbeat sends a ping for a caller, who sees an error himself: it *)
(* is pending, and then at the game unless the link is down.                  *)
Trigger ==
  /\ hbRunning
  /\ \E p \in Free :
       /\ Cardinality(Free) > 1
       /\ pending' = pending \cup {p}
       /\ atGame' = IF linkUp THEN atGame \cup {p} ELSE atGame
  /\ UNCHANGED <<hbRunning, senderVars, handlerVars, pongs, linkUp, hbFailures, reported>>

(* The game answers, or a ping or its pong is never heard of again.           *)
Answer ==
  \E p \in atGame :
    /\ linkUp
    /\ atGame' = atGame \ {p} /\ pongs' = pongs \cup {p}
    /\ UNCHANGED <<hbRunning, senderVars, handlerVars, pending, linkUp, hbFailures, reported>>

Lose ==
  /\ \E p \in atGame \cup pongs : atGame' = atGame \ {p} /\ pongs' = pongs \ {p}
  /\ UNCHANGED <<hbRunning, senderVars, handlerVars, pending, linkUp, hbFailures, reported>>

LinkFails ==
  /\ linkUp /\ linkUp' = FALSE
  /\ UNCHANGED <<hbRunning, senderVars, handlerVars, pending, atGame, pongs, hbFailures, reported>>

SenderStep == Tick \/ Send \/ CountSend \/ Clean
HandlerStep == Read \/ MatchPong \/ CountPong

Next ==
  \/ Start \/ Stop \/ SenderStep \/ HandlerStep
  \/ Trigger \/ Answer \/ Lose \/ LinkFails

LostOnDeadLink == ~linkUp /\ Lose

(* tokio runs the tasks; what is lost on a dead link is gone in the end.      *)
Fairness ==
  /\ WF_hbvars(SenderStep) /\ WF_hbvars(HandlerStep)
  /\ WF_hbvars(LostOnDeadLink)

Spec == Init /\ [][Next]_hbvars /\ Fairness

-----------------------------------------------------------------------------
TypeOK ==
  /\ hbRunning \in BOOLEAN /\ linkUp \in BOOLEAN /\ reported \in BOOLEAN
  /\ sender \in SenderPoints /\ sending \in Pings \cup {None}
  /\ handler \in HandlerPoints /\ reading \in Pings \cup {None}
  /\ pending \subseteq Pings /\ atGame \subseteq Pings /\ pongs \subseteq Pings
  /\ hbFailures \in 0..MaxMissed
  /\ ~hbRunning => sender = "off" /\ handler = "off"

DeadLink == hbRunning /\ ~linkUp
ToldOrStopped == reported \/ ~hbRunning

(* A dead link is reported: once the WebSocket fails, the failure callback is *)
(* called, whatever pongs were still on the way and however the two tasks     *)
(* interleave, unless the service is stopped (heartbeat.rs, max_missed).      *)
OutageReported == DeadLink ~> ToldOrStopped

(* config.rs and heartbeat.rs name max_missed, the missed heartbeats after    *)
(* which the connection is not healthy: a game that never answers is noticed. *)
SilenceNoticed == (hbRunning /\ hbFailures = 0) ~> (hbFailures > 0 \/ ~hbRunning)
=============================================================================
