------------------------------ MODULE Security ------------------------------
(* The security manager (security.rs) as its calls interleave: logins, the     *)
(* failures they record in tasks of their own, the check of a token before     *)
(* every tool call, and the cleanup every five minutes (mcp_server_v2.rs).     *)
(* users is a tokio lock; the sessions are a map of sharded, blocking locks.   *)
EXTENDS Naturals, FiniteSets

CONSTANTS
  Users, Callers,
  Shards,       \* the shards of the map of sessions
  MaxFailed,    \* max_failed_logins
  Lockout,      \* lockout_duration_minutes, in ticks
  Timeout,      \* session_timeout_hours, in ticks
  MaxSessions, MaxFailures, MaxTime, \* bounds on the sessions, the failures and the clock
  None

SecurityAssumption == MaxFailed > 0 /\ Shards # {}

VARIABLES
  now,
  ready,        \* whether the default users were created
  call,         \* [caller -> [at, user, good, shard]]
  failed_logins,\* [user -> [count, locked_until]], count = 0 for no entry
  pending,      \* [user -> failures still to be recorded]
  sessions,     \* active_sessions: [shard, last_activity] by number
  made,         \* how many sessions were made: every one has its token
  failures,     \* how many logins failed
  cleaner       \* whether the cleanup task still runs

securityVars == <<now, ready, call, failed_logins, pending, sessions, made, failures, cleaner>>

NoCall == [at |-> "idle", user |-> None, good |-> FALSE, shard |-> None]

Init ==
  /\ now = 0 /\ ready = FALSE /\ call = [c \in Callers |-> NoCall] /\ sessions = << >>
  /\ failed_logins = [u \in Users |-> [count |-> 0, locked_until |-> 0]]
  /\ pending = [u \in Users |-> 0] /\ made = 0 /\ failures = 0 /\ cleaner = TRUE

(* Mutant: a login still holds the users to read when it takes them to write.  *)
Readers_to_the_end == {c \in Callers : call[c].at \in {"insert", "last"}}
Readers == {c \in Callers : call[c].at = "insert"}
WriterWaits == \E c \in Callers : call[c].at = "last"

(* A call that refreshes its session inserts it under its own read guard.      *)
Held(shard) == \E c \in Callers : call[c].at = "refreshes" /\ call[c].shard = shard

-----------------------------------------------------------------------------
(* The task that new() spawns.                                                 *)
initialize_default_users ==
  /\ ~ready /\ Readers = {} /\ ready' = TRUE
  /\ UNCHANGED <<now, call, failed_logins, pending, sessions, made, failures, cleaner>>

(* The rate limiter lets a login pass or refuses it at once.                   *)
Login(c, u, good) ==
  /\ call[c].at = "idle" /\ made < MaxSessions
  /\ call' = [call EXCEPT ![c] = [at |-> "check", user |-> u, good |-> good, shard |-> None]]
  /\ UNCHANGED <<now, ready, failed_logins, pending, sessions, made, failures, cleaner>>

CheckLockout(c) ==
  /\ call[c].at = "check"
  /\ call' = IF now < failed_logins[call[c].user].locked_until THEN [call EXCEPT ![c] = NoCall]
             ELSE [call EXCEPT ![c].at = "read"]
  /\ UNCHANGED <<now, ready, failed_logins, pending, sessions, made, failures, cleaner>>

(* A wrong password, and a user that is not known, is recorded by a task.      *)
Refuse(c) ==
  /\ call[c].at = "read" /\ ~WriterWaits /\ ~(ready /\ call[c].good) /\ failures < MaxFailures
  /\ failures' = failures + 1 /\ pending' = [pending EXCEPT ![call[c].user] = @ + 1]
  /\ call' = [call EXCEPT ![c] = NoCall]
  /\ UNCHANGED <<now, ready, failed_logins, sessions, made, cleaner>>

Verified(c, shard) ==
  /\ call[c].at = "read" /\ ~WriterWaits /\ ready /\ call[c].good
  /\ failed_logins' = [failed_logins EXCEPT ![call[c].user] = [count |-> 0, locked_until |-> 0]]
  /\ call' = [call EXCEPT ![c].at = "insert", ![c].shard = shard]
  /\ UNCHANGED <<now, ready, pending, sessions, made, failures, cleaner>>

InsertSession(c) ==
  /\ call[c].at = "insert" /\ ~Held(call[c].shard) /\ made' = made + 1
  /\ sessions' = [i \in DOMAIN sessions \cup {made'} |->
       IF i = made' THEN [shard |-> call[c].shard, last_activity |-> now] ELSE sessions[i]]
  /\ call' = [call EXCEPT ![c].at = "last"]
  /\ UNCHANGED <<now, ready, failed_logins, pending, failures, cleaner>>

UpdateLastLogin(c) ==
  /\ call[c].at = "last" /\ Readers = {} /\ call' = [call EXCEPT ![c] = NoCall]
  /\ UNCHANGED <<now, ready, failed_logins, pending, sessions, made, failures, cleaner>>

(* The first failure makes the entry and is not compared with the limit.       *)
record_failed_login(u) ==
  LET e == failed_logins[u]
  IN  /\ pending[u] > 0 /\ pending' = [pending EXCEPT ![u] = @ - 1]
      /\ failed_logins' = [failed_logins EXCEPT ![u] =
           [count |-> e.count + 1,
            locked_until |-> IF e.count > 0 /\ e.count + 1 >= MaxFailed THEN now + Lockout
                             ELSE e.locked_until]]
      /\ UNCHANGED <<now, ready, call, sessions, made, failures, cleaner>>

-----------------------------------------------------------------------------
(* The check of a token: one whose session is gone is refused; for any other   *)
(* the call reads the session and, with the guard it read it by, waits to      *)
(* insert it again: nothing follows.  check_permission, revoke_token and the   *)
(* tools' authorize_tool_call begin with it.                                   *)
validate_token(c, i) ==
  /\ call[c].at = "idle" /\ i \in 1..made /\ i \in DOMAIN sessions
  /\ call' = [call EXCEPT ![c] = [NoCall EXCEPT !.at = "refreshes", !.shard = sessions[i].shard]]
  /\ UNCHANGED <<now, ready, failed_logins, pending, sessions, made, failures, cleaner>>

(* The cleanup hangs at the first expired session of a shard that is held.     *)
cleanup ==
  LET expired == {i \in DOMAIN sessions : now - sessions[i].last_activity > Timeout}
      stuck == {i \in expired : Held(sessions[i].shard)}
  IN  /\ cleaner /\ expired # {} /\ cleaner' = (stuck = {})
      /\ \E gone \in SUBSET (expired \ stuck) :
           /\ stuck = {} => gone = expired
           /\ sessions' = [i \in DOMAIN sessions \ gone |-> sessions[i]]
      /\ UNCHANGED <<now, ready, call, failed_logins, pending, made, failures>>

Tick ==
  /\ now < MaxTime /\ now' = now + 1
  /\ UNCHANGED <<ready, call, failed_logins, pending, sessions, made, failures, cleaner>>

LoginStep(c) ==
  \/ CheckLockout(c) \/ Refuse(c) \/ InsertSession(c) \/ UpdateLastLogin(c)
  \/ \E s \in Shards : Verified(c, s)

Next ==
  \/ initialize_default_users \/ cleanup \/ Tick
  \/ \E u \in Users : record_failed_login(u)
  \/ \E c \in Callers :
       \/ LoginStep(c) \/ \E i \in 1..MaxSessions : validate_token(c, i)
       \/ \E u \in Users, good \in BOOLEAN : Login(c, u, good)

(* The runtime runs a call that can go on.                                     *)
Spec == Init /\ [][Next]_securityVars
FairSpec ==
  /\ Spec /\ WF_securityVars(initialize_default_users)
  /\ \A c \in Callers : WF_securityVars(LoginStep(c))

-----------------------------------------------------------------------------
TypeOK ==
  /\ call \in [Callers -> [at : {"idle", "check", "read", "insert", "last", "refreshes"},
                           user : Users \cup {None}, good : BOOLEAN, shard : Shards \cup {None}]]
  /\ pending \in [Users -> 0..MaxFailures] /\ DOMAIN sessions \subseteq 1..made

LetIn(c) == call[c].at \in {"insert", "last"}
Out(c) == call[c].at = "idle"
Checking == \E c \in Callers : call[c].at = "refreshes"

(* A login that was let in returns its token unless some token was checked:    *)
(* logins alone, however they interleave, never wait for each other for ever.  *)
LoginsEnd == \A c \in Callers : LetIn(c) ~> Out(c) \/ Checking

(* tests/security_integration_test.rs:141: the check of a token that was just  *)
(* issued returns, "Token should be valid before revocation".                  *)
ValidationsEnd == \A c \in Callers : call[c].at = "refreshes" ~> Out(c)
=============================================================================
