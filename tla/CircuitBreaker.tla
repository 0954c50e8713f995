--------------------------- MODULE CircuitBreaker ---------------------------
(***************************************************************************)
(* The circuit breaker in front of the pooled BRP client                   *)
(* (src/circuit_breaker.rs, called from BrpClientV2::send_request).        *)
(*                                                                         *)
(* The breaker has no lock: its state is four atomics, each read and       *)
(* written with Ordering::Relaxed, and every method is several accesses.   *)
(* A step below is one access by one caller, so calls interleave between   *)
(* any two of them.  The stores of one method go to different locations;   *)
(* Relaxed does not order them, so with InOrder = FALSE they take effect   *)
(* in any order before the method returns.                                 *)
(*                                                                         *)
(* success_count feeds only the failure rate of the metrics and is left    *)
(* out.  failure_count is only compared with the threshold, so it is       *)
(* counted up to Threshold.                                                *)
(***************************************************************************)
EXTENDS Naturals, FiniteSets, FiniteSetTheorems, TLAPS

CONSTANTS
  Callers,     \* tasks that share the breaker through an Arc
  Threshold,   \* config.failure_threshold
  MaxTests,    \* config.half_open_max_requests
  InOrder,     \* TRUE: the stores of a method take effect in program order
  MayAbandon   \* TRUE: the future of an admitted request may be dropped

ASSUME CallersAssumption == IsFiniteSet(Callers) /\ Callers # {}
ASSUME ThresholdAssumption == Threshold \in Nat \ {0}   \* Config::validate
ASSUME MaxTestsAssumption == MaxTests \in Nat   \* Config::validate does not exclude 0
ASSUME BooleanAssumption == InOrder \in BOOLEAN /\ MayAbandon \in BOOLEAN

VARIABLES
  state,        \* self.state
  failures,     \* self.failure_count, counted up to Threshold
  halfOpen,     \* self.half_open_requests
  lastFailure,  \* self.last_failure_time: 0, younger or older than reset_timeout
  pc,           \* where each caller is
  seen,         \* current_state, as loaded at the start of record_failure
  target,       \* the state the caller's transition stores
  stores        \* the stores of the caller's method that are still to happen

vars == <<state, failures, halfOpen, lastFailure, pc, seen, target, stores>>

States == {"Closed", "Open", "HalfOpen"}
Ages == {"never", "recent", "elapsed"}
Fields == {"time", "state", "failures", "half"}
Points == {"idle", "openSeen", "halfSeen", "admit", "running", "failSeen", "storing"}

(* Program order of the stores: record_failure stores the time first, and  *)
(* each transition_to_* stores the state before the counters.              *)
Rank(f) == CASE f = "time" -> 0 [] f = "state" -> 1 [] f = "failures" -> 2 [] f = "half" -> 3

Init ==
  /\ state = "Closed"
  /\ failures = 0
  /\ halfOpen = 0
  /\ lastFailure = "never"
  /\ pc = [c \in Callers |-> "idle"]
  /\ seen = [c \in Callers |-> "Closed"]
  /\ target = [c \in Callers |-> "Closed"]
  /\ stores = [c \in Callers |-> {}]

Goto(c, point) == pc' = [pc EXCEPT ![c] = point]
Shared == <<state, failures, halfOpen, lastFailure>>
Locals == <<seen, target, stores>>

(* Caller c starts the stores fs of a method; the state store, if any,     *)
(* writes s.                                                               *)
BeginStores(c, s, fs) ==
  /\ Goto(c, "storing")
  /\ target' = [target EXCEPT ![c] = s]
  /\ stores' = [stores EXCEPT ![c] = fs]

transition_to_closed(c)    == BeginStores(c, "Closed", {"state", "failures", "half"})
transition_to_half_open(c) == BeginStores(c, "HalfOpen", {"state", "half"})

(* One store of c's method takes effect.  The caller of                    *)
(* transition_to_half_open goes on with its request; every other method    *)
(* that stores ends the call.                                              *)
Store(c, f) ==
  /\ pc[c] = "storing"
  /\ f \in stores[c]
  /\ InOrder => \A g \in stores[c] : Rank(f) <= Rank(g)
  /\ state' = IF f = "state" THEN target[c] ELSE state
  /\ failures' = IF f = "failures" THEN 0 ELSE failures
  /\ halfOpen' = IF f = "half" THEN 0 ELSE halfOpen
  /\ lastFailure' = IF f = "time" THEN "recent" ELSE lastFailure
  /\ stores' = [stores EXCEPT ![c] = @ \ {f}]
  /\ IF stores[c] # {f}
       THEN UNCHANGED pc
       ELSE Goto(c, IF target[c] = "HalfOpen" THEN "running" ELSE "idle")
  /\ UNCHANGED <<seen, target>>

-----------------------------------------------------------------------------
(* can_execute: load the state and dispatch on it.                         *)
can_execute(c) ==
  /\ pc[c] = "idle"
  /\ Goto(c, CASE state = "Closed" -> "running"
               [] state = "Open" -> "openSeen"
               [] state = "HalfOpen" -> "halfSeen")
  /\ UNCHANGED <<Shared, Locals>>

(* should_attempt_reset on a breaker that has never failed is FALSE.       *)
should_attempt_reset == lastFailure = "elapsed"

(* The Open branch: start the half-open test or reject the request.  The   *)
(* test request itself is not counted in half_open_requests.               *)
OpenBranch(c) ==
  /\ pc[c] = "openSeen"
  /\ IF should_attempt_reset
       THEN transition_to_half_open(c)
       ELSE Goto(c, "idle") /\ UNCHANGED <<target, stores>>
  /\ UNCHANGED <<Shared, seen>>

(* Mutant: the limit is compared with <=.                                  *)
LoadTestsLeq(c) ==
  /\ pc[c] = "halfSeen"
  /\ Goto(c, IF halfOpen <= MaxTests THEN "admit" ELSE "idle")
  /\ UNCHANGED <<Shared, Locals>>

(* The HalfOpen branch: compare the loaded counter with the limit...       *)
LoadTests(c) ==
  /\ pc[c] = "halfSeen"
  /\ Goto(c, IF halfOpen < MaxTests THEN "admit" ELSE "idle")
  /\ UNCHANGED <<Shared, Locals>>

(* ... and count the request in a second access.                           *)
CountTest(c) ==
  /\ pc[c] = "admit"
  /\ halfOpen' = halfOpen + 1
  /\ Goto(c, "running")
  /\ UNCHANGED <<state, failures, lastFailure, Locals>>

(* Mutant: a success gives its half-open slot back.                        *)
record_success_returns_slot(c) ==
  /\ pc[c] = "running"
  /\ halfOpen' = halfOpen - 1
  /\ Goto(c, "idle")
  /\ UNCHANGED <<state, failures, lastFailure, Locals>>

(* record_success: what follows the load of the state is stores only.      *)
record_success(c) ==
  /\ pc[c] = "running"
  /\ \/ state = "HalfOpen" /\ transition_to_closed(c)
     \/ state = "Closed" /\ BeginStores(c, "Closed", {"failures"})
     \/ state = "Open" /\ Goto(c, "idle") /\ UNCHANGED <<target, stores>>
  /\ UNCHANGED <<Shared, seen>>

(* record_failure: load the state...                                       *)
record_failure(c) ==
  /\ pc[c] = "running"
  /\ seen' = [seen EXCEPT ![c] = state]
  /\ Goto(c, "failSeen")
  /\ UNCHANGED <<Shared, target, stores>>

(* Mutant: a failed test does not reopen the breaker.                      *)
TripsFromClosedOnly(loaded, count) == loaded = "Closed" /\ count >= Threshold

Trips(loaded, count) == loaded = "HalfOpen" \/ (loaded = "Closed" /\ count >= Threshold)

(* Mutant: the failure time is noted only where the breaker stays Open.    *)
CountFailureLateTime(c) ==
  /\ pc[c] = "failSeen"
  /\ failures' = IF failures < Threshold THEN failures + 1 ELSE failures
  /\ CASE Trips(seen[c], failures') -> BeginStores(c, "Open", {"state", "half"})
       [] seen[c] = "Open"           -> BeginStores(c, "Open", {"time"})
       [] OTHER                      -> Goto(c, "idle") /\ UNCHANGED <<target, stores>>
  /\ UNCHANGED <<state, halfOpen, lastFailure, seen>>

(* ... count the failure, note the time, and open if the loaded state and  *)
(* the count say so.                                                       *)
CountFailure(c) ==
  /\ pc[c] = "failSeen"
  /\ failures' = IF failures < Threshold THEN failures + 1 ELSE failures
  /\ BeginStores(c, "Open",
       {"time"} \cup (IF Trips(seen[c], failures') THEN {"state", "half"} ELSE {}))
  /\ UNCHANGED <<state, halfOpen, lastFailure, seen>>

(* The manual reset of BrpClientV2::reset_circuit_breaker.                 *)
reset(c) ==
  /\ pc[c] = "idle"
  /\ transition_to_closed(c)
  /\ UNCHANGED <<Shared, seen>>

(* The future of send_request is dropped at an await: neither record_      *)
(* method is called.                                                       *)
Abandon(c) ==
  /\ MayAbandon
  /\ pc[c] = "running"
  /\ Goto(c, "idle")
  /\ UNCHANGED <<Shared, Locals>>

(* reset_timeout passes since last_failure_time.                           *)
Elapse ==
  /\ lastFailure = "recent"
  /\ lastFailure' = "elapsed"
  /\ UNCHANGED <<state, failures, halfOpen, pc, Locals>>

(* The steps a call takes once it has begun.                               *)
InCall(c) ==
  \/ \E f \in Fields : Store(c, f)
  \/ OpenBranch(c)
  \/ LoadTests(c)
  \/ CountTest(c)
  \/ record_success(c)
  \/ record_failure(c)
  \/ CountFailure(c)

Next ==
  \/ \E c \in Callers :
       \/ can_execute(c)
       \/ InCall(c)
       \/ reset(c)
       \/ Abandon(c)
  \/ Elapse

Spec == Init /\ [][Next]_vars

(* tokio polls every ready task, an admitted request ends within its       *)
(* attempts and timeouts, and time passes.  Nobody is obliged to call.     *)
Fairness == WF_vars(Elapse) /\ \A c \in Callers : WF_vars(InCall(c))

FairSpec == Spec /\ Fairness

-----------------------------------------------------------------------------
TypeOK ==
  /\ state \in States
  /\ failures \in 0..Threshold
  /\ halfOpen \in Nat
  /\ lastFailure \in Ages
  /\ pc \in [Callers -> Points]
  /\ seen \in [Callers -> States]
  /\ target \in [Callers -> States]
  /\ stores \in [Callers -> SUBSET Fields]

(* An open breaker can close again.  should_attempt_reset is FALSE while   *)
(* last_failure_time is 0, so a breaker that were Open without a failure   *)
(* time would reject requests for ever; the time is there or about to be   *)
(* stored by the failure that opens it, whatever the interleaving.         *)
OpenCanRecover ==
  state = "Open" => lastFailure # "never" \/ \E c \in Callers : "time" \in stores[c]

(* Callers that have seen a counter below the limit and not yet added.     *)
Admitting == {c \in Callers : pc[c] = "admit"}

(* The check of half_open_requests and its increment are two accesses, so  *)
(* the limit can be overrun, but never by more than the other callers      *)
(* between the two: the counter and those about to add to it stay below    *)
(* MaxTests plus the number of callers.                                    *)
TestOverrunBounded ==
  halfOpen + Cardinality(Admitting) < MaxTests + Cardinality(Callers)

(* A half-open breaker at its limit, which rejects everybody, does not do  *)
(* so for ever: half_open_requests is never left there with nobody to      *)
(* record a result.                                                        *)
HalfOpenSettles ==
  (state = "HalfOpen" /\ halfOpen >= MaxTests)
     ~> ~(state = "HalfOpen" /\ halfOpen >= MaxTests)

(* An open breaker reaches the point where the next request tests the      *)
(* service, or has been closed meanwhile.                                  *)
OpenBecomesTestable == state = "Open" ~> (state # "Open" \/ should_attempt_reset)

-----------------------------------------------------------------------------
(* Proofs, for any number of callers, any threshold and limit, and either  *)
(* order of the stores.                                                    *)

(* Every step keeps the types. *)
LEMMA TypeStep == ASSUME TypeOK, [Next]_vars PROVE TypeOK'
<1> USE ThresholdAssumption DEF TypeOK, States, Ages, Points, Fields, Goto, Shared, Locals
<1>1. CASE UNCHANGED vars
  BY <1>1 DEF vars
<1>2. ASSUME NEW c \in Callers, can_execute(c) PROVE TypeOK'
  BY <1>2 DEF can_execute
<1>3. ASSUME NEW c \in Callers, NEW f \in Fields, Store(c, f) PROVE TypeOK'
  BY <1>3 DEF Store
<1>4. ASSUME NEW c \in Callers, OpenBranch(c) PROVE TypeOK'
  BY <1>4 DEF OpenBranch, transition_to_half_open, BeginStores
<1>5. ASSUME NEW c \in Callers, LoadTests(c) PROVE TypeOK'
  BY <1>5 DEF LoadTests
<1>6. ASSUME NEW c \in Callers, CountTest(c) PROVE TypeOK'
  BY <1>6 DEF CountTest
<1>7. ASSUME NEW c \in Callers, record_success(c) PROVE TypeOK'
  BY <1>7 DEF record_success, transition_to_closed, BeginStores
<1>8. ASSUME NEW c \in Callers, record_failure(c) PROVE TypeOK'
  BY <1>8 DEF record_failure
<1>9. ASSUME NEW c \in Callers, CountFailure(c) PROVE TypeOK'
  BY <1>9 DEF CountFailure, BeginStores
<1>10. ASSUME NEW c \in Callers, reset(c) PROVE TypeOK'
  BY <1>10 DEF reset, transition_to_closed, BeginStores
<1>11. ASSUME NEW c \in Callers, Abandon(c) PROVE TypeOK'
  BY <1>11 DEF Abandon
<1>12. CASE Elapse
  BY <1>12 DEF Elapse
<1> QED
  BY <1>1, <1>2, <1>3, <1>4, <1>5, <1>6, <1>7, <1>8, <1>9, <1>10, <1>11, <1>12
  DEF Next, InCall

(* Type correctness: whatever the interleaving of the accesses, the        *)
(* breaker's atomics and every caller's locals stay in their ranges; in    *)
(* particular no method ever takes half_open_requests below zero.          *)
THEOREM TypeCorrect == Spec => []TypeOK
<1>1. Init => TypeOK
  BY ThresholdAssumption DEF Init, TypeOK, States, Ages, Points, Fields
<1>2. TypeOK /\ [Next]_vars => TypeOK'
  BY TypeStep
<1> QED
  BY <1>1, <1>2, PTL DEF Spec

-----------------------------------------------------------------------------
(* A store that opens the breaker is pending only together with a failure  *)
(* time, stored or pending: the strengthening that makes OpenCanRecover    *)
(* inductive.                                                              *)
TimeKnown == lastFailure # "never" \/ \E c \in Callers : "time" \in stores[c]

OpeningHasTime ==
  /\ state = "Open" => TimeKnown
  /\ \A c \in Callers : "state" \in stores[c] /\ target[c] = "Open" => TimeKnown

(* stores is empty outside a method's stores: needed to know that starting *)
(* new stores does not forget a pending failure time.                      *)
StoresPending == \A c \in Callers : pc[c] # "storing" => stores[c] = {}

(* A breaker that is Open has, or is about to have, a failure time, so     *)
(* should_attempt_reset cannot answer FALSE for ever: for every number of  *)
(* concurrent callers and with the relaxed stores in any order.            *)
THEOREM OpenAlwaysRecoverable == Spec => []OpenCanRecover
<1> DEFINE IInv == OpeningHasTime /\ StoresPending
<1>1. Init => IInv
  BY DEF Init, OpeningHasTime, StoresPending
<1>2. TypeOK /\ IInv /\ [Next]_vars => IInv'
  <2> SUFFICES ASSUME TypeOK, IInv, [Next]_vars PROVE IInv'
    OBVIOUS
  <2> USE DEF TypeOK, OpeningHasTime, StoresPending, TimeKnown, Goto, Shared, Locals
  <2>1. CASE UNCHANGED vars
    BY <2>1 DEF vars
  <2>2. ASSUME NEW c \in Callers, can_execute(c) PROVE IInv'
    BY <2>2 DEF can_execute, States
  <2>3. ASSUME NEW c \in Callers, NEW f \in Fields, Store(c, f) PROVE IInv'
    <3>1. StoresPending'
      BY <2>3 DEF Store
    <3>2. TimeKnown => TimeKnown'
      <4>1. CASE f = "time"
        BY <2>3, <4>1 DEF Store
      <4>2. CASE f # "time"
        BY <2>3, <4>2 DEF Store
      <4> QED
        BY <4>1, <4>2
    <3>3. \A d \in Callers : stores'[d] \subseteq stores[d] /\ target'[d] = target[d]
      BY <2>3 DEF Store
    <3>4. state' = "Open" => state = "Open" \/ ("state" \in stores[c] /\ target[c] = "Open")
      BY <2>3 DEF Store
    <3> QED
      BY <3>1, <3>2, <3>3, <3>4
  <2>4. ASSUME NEW c \in Callers, OpenBranch(c) PROVE IInv'
    BY <2>4 DEF OpenBranch, transition_to_half_open, BeginStores
  <2>5. ASSUME NEW c \in Callers, LoadTests(c) PROVE IInv'
    BY <2>5 DEF LoadTests
  <2>6. ASSUME NEW c \in Callers, CountTest(c) PROVE IInv'
    BY <2>6 DEF CountTest
  <2>7. ASSUME NEW c \in Callers, record_success(c) PROVE IInv'
    BY <2>7 DEF record_success, transition_to_closed, BeginStores
  <2>8. ASSUME NEW c \in Callers, record_failure(c) PROVE IInv'
    BY <2>8 DEF record_failure
  <2>9. ASSUME NEW c \in Callers, CountFailure(c) PROVE IInv'
    <3>1. "time" \in stores'[c]
      BY <2>9 DEF CountFailure, BeginStores
    <3>2. TimeKnown'
      BY <3>1
    <3>3. StoresPending'
      BY <2>9 DEF CountFailure, BeginStores
    <3> QED
      BY <3>2, <3>3
  <2>10. ASSUME NEW c \in Callers, reset(c) PROVE IInv'
    BY <2>10 DEF reset, transition_to_closed, BeginStores
  <2>11. ASSUME NEW c \in Callers, Abandon(c) PROVE IInv'
    BY <2>11 DEF Abandon
  <2>12. CASE Elapse
    BY <2>12 DEF Elapse
  <2> QED
    BY <2>1, <2>2, <2>3, <2>4, <2>5, <2>6, <2>7, <2>8, <2>9, <2>10, <2>11, <2>12
    DEF Next, InCall
<1>3. IInv => OpenCanRecover
  BY DEF OpeningHasTime, TimeKnown, OpenCanRecover
<1> QED
  BY <1>1, <1>2, <1>3, TypeCorrect, PTL DEF Spec

-----------------------------------------------------------------------------
(* The set of callers between the comparison and the increment is finite.  *)
LEMMA AdmittingFinite ==
  /\ IsFiniteSet(Admitting)
  /\ Cardinality(Admitting) \in Nat
  /\ Cardinality(Admitting) <= Cardinality(Callers)
  /\ Cardinality(Callers) \in Nat
<1>1. Admitting \subseteq Callers
  BY DEF Admitting
<1> QED
  BY <1>1, CallersAssumption, FS_Subset, FS_CardinalityType

(* The sum that TestOverrunBounded bounds, as a fact about numbers and     *)
(* sets: it does not grow when the counter and the set do not.             *)
LEMMA SmallerStaysBounded ==
  ASSUME NEW h \in Nat, NEW k \in Nat, NEW A, NEW B, A \subseteq Callers,
         B \subseteq A, k <= h,
         h + Cardinality(A) < MaxTests + Cardinality(Callers)
  PROVE  k + Cardinality(B) < MaxTests + Cardinality(Callers)
<1>1. IsFiniteSet(A)
  BY CallersAssumption, FS_Subset
<1>2. IsFiniteSet(B) /\ Cardinality(B) <= Cardinality(A)
  BY <1>1, FS_Subset
<1>3. Cardinality(A) \in Nat /\ Cardinality(B) \in Nat /\ Cardinality(Callers) \in Nat
  BY <1>1, <1>2, CallersAssumption, FS_CardinalityType
<1> QED
  BY <1>2, <1>3, MaxTestsAssumption

(* The half-open limit is overrun by fewer requests than there are         *)
(* callers, however the comparison and the increment of                    *)
(* half_open_requests interleave.                                          *)
THEOREM TestOverrun == Spec => []TestOverrunBounded
<1>1. Init => TestOverrunBounded
  <2> SUFFICES ASSUME Init PROVE TestOverrunBounded
    OBVIOUS
  <2>1. Admitting = {}
    BY DEF Init, Admitting
  <2>2. Cardinality(Admitting) = 0
    BY <2>1, FS_EmptySet
  <2>3. Cardinality(Callers) \in Nat /\ Cardinality(Callers) # 0
    BY AdmittingFinite, CallersAssumption, FS_EmptySet
  <2> QED
    BY <2>2, <2>3, MaxTestsAssumption DEF Init, TestOverrunBounded
<1>2. TypeOK /\ TestOverrunBounded /\ [Next]_vars => TestOverrunBounded'
  <2> SUFFICES ASSUME TypeOK, TestOverrunBounded, [Next]_vars PROVE TestOverrunBounded'
    OBVIOUS
  <2> USE DEF TestOverrunBounded
  <2>a. halfOpen \in Nat /\ halfOpen' \in Nat
    BY TypeStep DEF TypeOK
  <2>b. Admitting \subseteq Callers /\ Admitting' \subseteq Callers
    BY DEF Admitting
  \* A step that moves no caller to "admit" and does not raise the counter.
  <2>d. ASSUME halfOpen' <= halfOpen, Admitting' \subseteq Admitting
        PROVE TestOverrunBounded'
    BY <2>a, <2>b, <2>d, SmallerStaysBounded
  <2>1. CASE UNCHANGED vars
    <3>1. halfOpen' <= halfOpen /\ Admitting' \subseteq Admitting
      BY <2>1, <2>a DEF vars, Admitting
    <3> QED
      BY <3>1, <2>d
  <2>2. ASSUME NEW c \in Callers, can_execute(c) PROVE TestOverrunBounded'
    <3>1. halfOpen' = halfOpen /\ halfOpen' <= halfOpen
      BY <2>2, <2>a DEF can_execute, Shared
    <3>2. Admitting' \subseteq Admitting
      BY <2>2 DEF can_execute, Admitting, TypeOK, Goto, States
    <3> QED
      BY <3>1, <3>2, <2>d
  <2>3. ASSUME NEW c \in Callers, NEW f \in Fields, Store(c, f)
        PROVE TestOverrunBounded'
    <3>1. halfOpen' <= halfOpen
      BY <2>3, <2>a DEF Store
    <3>2. Admitting' \subseteq Admitting
      BY <2>3 DEF Store, Admitting, TypeOK, Goto
    <3> QED
      BY <3>1, <3>2, <2>d
  <2>4. ASSUME NEW c \in Callers, OpenBranch(c) PROVE TestOverrunBounded'
    <3>1. halfOpen' = halfOpen /\ halfOpen' <= halfOpen
      BY <2>4, <2>a DEF OpenBranch, Shared
    <3>2. Admitting' \subseteq Admitting
      BY <2>4 DEF OpenBranch, transition_to_half_open, BeginStores, Admitting, TypeOK, Goto
    <3> QED
      BY <3>1, <3>2, <2>d
  <2>5. ASSUME NEW c \in Callers, LoadTests(c) PROVE TestOverrunBounded'
    <3>1. halfOpen' = halfOpen /\ halfOpen' <= halfOpen
      BY <2>5, <2>a DEF LoadTests, Shared
    <3>2. CASE halfOpen < MaxTests
      <4>1. IsFiniteSet(Admitting') /\ Cardinality(Admitting') <= Cardinality(Callers)
        BY <2>b, CallersAssumption, FS_Subset
      <4>2. Cardinality(Admitting') \in Nat /\ Cardinality(Callers) \in Nat
        BY <4>1, CallersAssumption, FS_CardinalityType
      <4> QED
        BY <3>1, <3>2, <4>1, <4>2, <2>a, MaxTestsAssumption
    <3>3. CASE ~(halfOpen < MaxTests)
      <4>1. Admitting' \subseteq Admitting
        BY <2>5, <3>3 DEF LoadTests, Admitting, TypeOK, Goto
      <4> QED
        BY <3>1, <4>1, <2>d
    <3> QED
      BY <3>2, <3>3
  <2>6. ASSUME NEW c \in Callers, CountTest(c) PROVE TestOverrunBounded'
    <3>1. halfOpen' = halfOpen + 1
      BY <2>6 DEF CountTest
    <3>2. c \in Admitting /\ Admitting' = Admitting \ {c}
      BY <2>6 DEF CountTest, Admitting, TypeOK, Goto
    <3>3. Cardinality(Admitting') = Cardinality(Admitting) - 1
      BY <3>2, AdmittingFinite, FS_RemoveElement
    <3> QED
      BY <3>1, <3>3, <2>a, AdmittingFinite, MaxTestsAssumption
  <2>7. ASSUME NEW c \in Callers, record_success(c) PROVE TestOverrunBounded'
    <3>1. halfOpen' = halfOpen /\ halfOpen' <= halfOpen
      BY <2>7, <2>a DEF record_success, Shared
    <3>2. Admitting' \subseteq Admitting
      BY <2>7 DEF record_success, transition_to_closed, BeginStores, Admitting, TypeOK, Goto
    <3> QED
      BY <3>1, <3>2, <2>d
  <2>8. ASSUME NEW c \in Callers, record_failure(c) PROVE TestOverrunBounded'
    <3>1. halfOpen' = halfOpen /\ halfOpen' <= halfOpen
      BY <2>8, <2>a DEF record_failure, Shared
    <3>2. Admitting' \subseteq Admitting
      BY <2>8 DEF record_failure, Admitting, TypeOK, Goto
    <3> QED
      BY <3>1, <3>2, <2>d
  <2>9. ASSUME NEW c \in Callers, CountFailure(c) PROVE TestOverrunBounded'
    <3>1. halfOpen' = halfOpen /\ halfOpen' <= halfOpen
      BY <2>9, <2>a DEF CountFailure
    <3>2. Admitting' \subseteq Admitting
      BY <2>9 DEF CountFailure, BeginStores, Admitting, TypeOK, Goto
    <3> QED
      BY <3>1, <3>2, <2>d
  <2>10. ASSUME NEW c \in Callers, reset(c) PROVE TestOverrunBounded'
    <3>1. halfOpen' = halfOpen /\ halfOpen' <= halfOpen
      BY <2>10, <2>a DEF reset, Shared
    <3>2. Admitting' \subseteq Admitting
      BY <2>10 DEF reset, transition_to_closed, BeginStores, Admitting, TypeOK, Goto
    <3> QED
      BY <3>1, <3>2, <2>d
  <2>11. ASSUME NEW c \in Callers, Abandon(c) PROVE TestOverrunBounded'
    <3>1. halfOpen' = halfOpen /\ halfOpen' <= halfOpen
      BY <2>11, <2>a DEF Abandon, Shared
    <3>2. Admitting' \subseteq Admitting
      BY <2>11 DEF Abandon, Admitting, TypeOK, Goto
    <3> QED
      BY <3>1, <3>2, <2>d
  <2>12. CASE Elapse
    <3>1. halfOpen' <= halfOpen /\ Admitting' \subseteq Admitting
      BY <2>12, <2>a DEF Elapse, Admitting
    <3> QED
      BY <3>1, <2>d
  <2> QED
    BY <2>1, <2>2, <2>3, <2>4, <2>5, <2>6, <2>7, <2>8, <2>9, <2>10, <2>11, <2>12
    DEF Next, InCall
<1> QED
  BY <1>1, <1>2, TypeCorrect, PTL DEF Spec
=============================================================================
