-------------------------- MODULE MCCircuitBreaker --------------------------
(***************************************************************************)
(* Model checking of CircuitBreaker.  Two history variables record what    *)
(* the callers saw: the calls that failed since the last success, and the  *)
(* calls that succeeded since the last failure.                            *)
(***************************************************************************)
EXTENDS CircuitBreaker

VARIABLES
  failRun,   \* failed calls since the last success, saturating
  okRun      \* successful calls since the last failure, saturating

vars == <<breakerVars, failRun, okRun>>

Capped(n, limit) == IF n < limit THEN n + 1 ELSE n

MCInit == Init /\ failRun = 0 /\ okRun = 0

Succeeds ==
  /\ Success
  /\ failRun' = 0
  /\ okRun' = Capped(okRun, HalfOpenSuccessThreshold)

Fails ==
  /\ Failure
  /\ failRun' = Capped(failRun, FailureThreshold)
  /\ okRun' = 0

Idles == (Reject \/ Tick) /\ UNCHANGED <<failRun, okRun>>

MCNext == Succeeds \/ Fails \/ Idles

MCSpec == MCInit /\ [][MCNext]_vars

\* Callers keep calling and time passes: in the program the data writer calls
\* for every reading that arrives.
MCFairSpec == MCSpec /\ WF_vars(Succeeds) /\ WF_vars(Tick /\ UNCHANGED <<failRun, okRun>>)
-----------------------------------------------------------------------------
\* A closed breaker opens only on FailureThreshold failures in a row, however
\* many half-open episodes went before (Execute: cb.failures is reset by every
\* success and by closing, and never by opening).
TripNeedsFailures ==
  [][state = Closed /\ state' = Open => failRun' >= FailureThreshold]_vars

\* A breaker closes only on HalfOpenSuccessThreshold successes in a row: a
\* failed call in between, the probe's included, starts the count again.
CloseNeedsSuccesses ==
  [][state # Closed /\ state' = Closed
       => okRun' >= HalfOpenSuccessThreshold]_vars

\* Once calls stop failing the breaker ends up closed for good: no state of the
\* counters keeps an open or half-open breaker from recovering.
Recovers == <>[][~Fails]_vars => <>[](state = Closed)
=============================================================================
