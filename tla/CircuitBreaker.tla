--------------------------- MODULE CircuitBreaker ---------------------------
(***************************************************************************)
(* storage/circuit_breaker.go: the breaker CachingStorage puts in front of *)
(* its InfluxDB writes.                                                    *)
(*                                                                         *)
(* Execute holds cb.mu from its first line to its return, the protected    *)
(* call included, so every call of Execute is one atomic step here: the    *)
(* breaker admits the call and it succeeds (Success), admits it and it     *)
(* fails (Failure), or refuses it with ErrCircuitBreakerOpen (Reject).     *)
(*                                                                         *)
(* Two counters are kept only as far as the code can tell their values     *)
(* apart: "failures" is compared with >= failureThreshold only, and        *)
(* "elapsed", the time since lastStateChange, with > resetTimeout only, so *)
(* each saturates at the first value that passes its test.  lastError is   *)
(* written and never read, and is left out.                                *)
(***************************************************************************)
EXTENDS Naturals

CONSTANTS
  FailureThreshold,         \* failures that trip a closed breaker
  ResetTimeout,             \* time an open breaker refuses calls
  HalfOpenSuccessThreshold  \* successes counted before a half-open one closes

ASSUME BreakerAssumption ==
  /\ FailureThreshold \in Nat \ {0}
  /\ ResetTimeout \in Nat
  /\ HalfOpenSuccessThreshold \in Nat \ {0}

VARIABLES
  state,              \* cb.state
  failures,           \* cb.failures, saturating at FailureThreshold
  halfOpenSuccesses,  \* cb.halfOpenSuccesses
  elapsed             \* time.Since(cb.lastStateChange), saturating

breakerVars == <<state, failures, halfOpenSuccesses, elapsed>>

Closed   == "Closed"
Open     == "Open"
HalfOpen == "HalfOpen"
States   == {Closed, Open, HalfOpen}

\* NewCircuitBreaker; lastStateChange is the zero time, long past.
Init ==
  /\ state = Closed
  /\ failures = 0
  /\ halfOpenSuccesses = 0
  /\ elapsed = ResetTimeout + 1
-----------------------------------------------------------------------------
\* The reset timeout of an open breaker has passed: the next call is a probe.
Probing == state = Open /\ elapsed > ResetTimeout

\* The calls that reach the common code after the switch: those of a closed
\* breaker, and the probe, which has just moved the breaker to half-open.
FallsThrough == state = Closed \/ Probing
Entered      == IF Probing THEN HalfOpen ELSE Closed

\* Mutant: successes are not counted.
HalfOpenSucceedsUncounted ==
  /\ state = HalfOpen
  /\ UNCHANGED breakerVars

\* The half-open branch of the switch: a call that succeeds is counted, ...
HalfOpenSucceeds ==
  /\ state = HalfOpen
  /\ halfOpenSuccesses' = halfOpenSuccesses + 1
  /\ IF halfOpenSuccesses' >= HalfOpenSuccessThreshold
     THEN state' = Closed /\ failures' = 0
     ELSE UNCHANGED <<state, failures>>
  /\ UNCHANGED elapsed

\* ... and one that fails opens the breaker again, leaving failures as it is.
HalfOpenFails ==
  /\ state = HalfOpen
  /\ state' = Open
  /\ elapsed' = 0
  /\ UNCHANGED <<failures, halfOpenSuccesses>>

\* A probe begins a half-open episode, whose successes are counted afresh.
Restarts == halfOpenSuccesses' = IF Probing THEN 0 ELSE halfOpenSuccesses

\* Mutant: the probe's success is counted, but not held against the threshold.
CallSucceedsCounted ==
  /\ FallsThrough
  /\ failures' = 0
  /\ state' = Entered
  /\ halfOpenSuccesses' = IF Probing THEN 1 ELSE halfOpenSuccesses
  /\ UNCHANGED elapsed

\* The common code: a success resets the failure count.  The probe's success
\* leaves the breaker half-open and is not counted in halfOpenSuccesses.
CallSucceeds ==
  /\ FallsThrough
  /\ failures' = 0
  /\ state' = Entered
  /\ Restarts
  /\ UNCHANGED elapsed

\* A failure of the common code is counted, ...
Counts ==
  /\ FallsThrough
  /\ failures' = IF failures < FailureThreshold THEN failures + 1 ELSE failures

\* ... and the breaker trips, or not.
Trips(reached) ==
  IF reached
  THEN state' = Open /\ elapsed' = 0
  ELSE state' = Entered /\ UNCHANGED elapsed

\* Mutant: the breaker trips one failure early.
CallFailsEarly == Counts /\ Restarts /\ Trips(failures' + 1 >= FailureThreshold)

\* Mutant: the threshold must be passed, not reached.
CallFailsLate == Counts /\ Restarts /\ Trips(failures >= FailureThreshold)

\* Mutant: a probe that fails goes on with the count of the last episode.
CallFailsKeepsCount ==
  Counts /\ Trips(failures' >= FailureThreshold) /\ UNCHANGED halfOpenSuccesses

\* The common code: a failure that reaches the threshold trips the breaker.  A
\* probe that fails below the threshold stays half-open.
CallFails == Counts /\ Restarts /\ Trips(failures' >= FailureThreshold)

\* Execute, by outcome.
Success == HalfOpenSucceeds \/ CallSucceeds
Failure == HalfOpenFails \/ CallFails
Reject  == state = Open /\ ~Probing /\ UNCHANGED breakerVars

\* Time passes.
Tick ==
  /\ elapsed <= ResetTimeout
  /\ elapsed' = elapsed + 1
  /\ UNCHANGED <<state, failures, halfOpenSuccesses>>

Next == Success \/ Failure \/ Reject \/ Tick

Spec == Init /\ [][Next]_breakerVars
-----------------------------------------------------------------------------
TypeOK ==
  /\ state \in States
  /\ failures \in 0..FailureThreshold
  /\ halfOpenSuccesses \in 0..HalfOpenSuccessThreshold
  /\ elapsed \in 0..(ResetTimeout + 1)

\* The breaker lets calls through only while it has counted fewer than
\* FailureThreshold failures: an open breaker whose failure count was never
\* reset cannot leave half-open or closed with the count still at the
\* threshold, whatever the order of probes, successes and failures.
AdmittingBelowThreshold == state # Open => failures < FailureThreshold

\* A half-open breaker has always a success still to wait for.
HalfOpenUndecided ==
  state = HalfOpen => halfOpenSuccesses < HalfOpenSuccessThreshold
=============================================================================
