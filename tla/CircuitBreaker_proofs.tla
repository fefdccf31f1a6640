----------------------- MODULE CircuitBreaker_proofs ------------------------
(***************************************************************************)
(* The invariants of CircuitBreaker, and what a trip and a recovery take,  *)
(* for every threshold and timeout.                                        *)
(*                                                                         *)
(* The three invariants are proved together: that a half-open breaker has  *)
(* a success to wait for bounds its counter (TypeOK), and that the count   *)
(* of failures is below the threshold in an admitting breaker is what      *)
(* CallFails and HalfOpenSucceeds start from.  What the callers saw is in  *)
(* the history variables of MCCircuitBreaker: a closed breaker has counted *)
(* no failure that was not in a row, a half-open one no such success       *)
(* (HistoryInv).                                                           *)
(***************************************************************************)
EXTENDS MCCircuitBreaker, TLAPS

BreakerInv == TypeOK /\ AdmittingBelowThreshold /\ HalfOpenUndecided

LEMMA BreakerInit == Init => BreakerInv
BY BreakerAssumption
DEF Init, BreakerInv, TypeOK, AdmittingBelowThreshold, HalfOpenUndecided, States,
    Closed, Open, HalfOpen

LEMMA BreakerNext == BreakerInv /\ [Next]_breakerVars => BreakerInv'
<1>. SUFFICES ASSUME BreakerInv, [Next]_breakerVars
              PROVE  BreakerInv'
  OBVIOUS
<1>. USE BreakerAssumption
     DEF BreakerInv, TypeOK, AdmittingBelowThreshold, HalfOpenUndecided, States,
         Closed, Open, HalfOpen
<1>1. CASE HalfOpenSucceeds
  BY <1>1 DEF HalfOpenSucceeds
<1>2. CASE HalfOpenFails
  BY <1>2 DEF HalfOpenFails
<1>3. CASE CallSucceeds
  BY <1>3 DEF CallSucceeds, Restarts, FallsThrough, Entered, Probing
<1>4. CASE CallFails
  BY <1>4 DEF CallFails, Counts, Restarts, Trips, FallsThrough, Entered, Probing
<1>5. CASE Reject
  BY <1>5 DEF Reject, breakerVars
<1>6. CASE Tick
  BY <1>6 DEF Tick
<1>7. CASE UNCHANGED breakerVars
  BY <1>7 DEF breakerVars
<1>. QED
  BY <1>1, <1>2, <1>3, <1>4, <1>5, <1>6, <1>7 DEF Next, Success, Failure

LEMMA BreakerInvariant == Spec => []BreakerInv
BY BreakerInit, BreakerNext, PTL DEF Spec

\* Execute: the counters stay within their thresholds, whatever the calls.
THEOREM BreakerTyped == Spec => []TypeOK
<1>1. BreakerInv => TypeOK
  BY DEF BreakerInv
<1>. QED
  BY <1>1, BreakerInvariant, PTL

\* Execute: no breaker lets calls through with a count of failures that should
\* have tripped it.
THEOREM BreakerSafe == Spec => []AdmittingBelowThreshold
<1>1. BreakerInv => AdmittingBelowThreshold
  BY DEF BreakerInv
<1>. QED
  BY <1>1, BreakerInvariant, PTL
-----------------------------------------------------------------------------
\* The failures of a closed breaker are among those in a row, and the successes
\* of a half-open one are too.
HistoryInv ==
  /\ BreakerInv
  /\ failRun \in 0..FailureThreshold /\ okRun \in 0..HalfOpenSuccessThreshold
  /\ state = Closed => failures <= failRun
  /\ state = HalfOpen => halfOpenSuccesses <= okRun

LEMMA HistoryInit == MCInit => HistoryInv
BY BreakerInit, BreakerAssumption DEF MCInit, HistoryInv, Init, Closed, HalfOpen

\* What each step does to the history, and the two transitions of interest.
TripsRightly  == state = Closed /\ state' = Open => failRun' >= FailureThreshold
ClosesRightly ==
  state # Closed /\ state' = Closed => okRun' >= HalfOpenSuccessThreshold

LEMMA HistoryNext ==
  HistoryInv /\ [MCNext]_vars => HistoryInv' /\ TripsRightly /\ ClosesRightly
<1>. SUFFICES ASSUME HistoryInv, [MCNext]_vars
              PROVE  HistoryInv' /\ TripsRightly /\ ClosesRightly
  OBVIOUS
<1>1. BreakerInv'
  BY BreakerNext DEF HistoryInv, MCNext, Succeeds, Fails, Idles, Next, vars
<1>. USE BreakerAssumption
     DEF HistoryInv, BreakerInv, TypeOK, AdmittingBelowThreshold, HalfOpenUndecided,
         States, Closed, Open, HalfOpen, TripsRightly, ClosesRightly
<1>2. CASE Succeeds
  <2>1. failRun' = 0 /\ okRun' = Capped(okRun, HalfOpenSuccessThreshold)
    BY <1>2 DEF Succeeds
  <2>2. CASE HalfOpenSucceeds
    BY <1>1, <2>1, <2>2 DEF HalfOpenSucceeds, Capped
  <2>3. CASE CallSucceeds
    BY <1>1, <2>1, <2>3
    DEF CallSucceeds, Restarts, FallsThrough, Entered, Probing, Capped
  <2>. QED
    BY <1>2, <2>2, <2>3 DEF Succeeds, Success
<1>3. CASE Fails
  <2>1. okRun' = 0 /\ failRun' = Capped(failRun, FailureThreshold)
    BY <1>3 DEF Fails
  <2>2. CASE HalfOpenFails
    BY <1>1, <2>1, <2>2 DEF HalfOpenFails, Capped
  <2>3. CASE CallFails
    BY <1>1, <2>1, <2>3
    DEF CallFails, Counts, Restarts, Trips, FallsThrough, Entered, Probing, Capped
  <2>. QED
    BY <1>3, <2>2, <2>3 DEF Fails, Failure
<1>4. CASE Idles \/ UNCHANGED vars
  BY <1>1, <1>4 DEF Idles, Reject, Tick, vars, breakerVars
<1>. QED
  BY <1>2, <1>3, <1>4 DEF MCNext

LEMMA HistoryInvariant == MCSpec => []HistoryInv
BY HistoryInit, HistoryNext, PTL DEF MCSpec

\* Execute: a closed breaker opens only when FailureThreshold calls in a row have
\* failed, however many half-open episodes there were before.
THEOREM BreakerTrips == MCSpec => TripNeedsFailures
<1>1. HistoryInv /\ [MCNext]_vars
        => [state = Closed /\ state' = Open => failRun' >= FailureThreshold]_vars
  BY HistoryNext DEF TripsRightly
<1>. QED
  BY <1>1, HistoryInvariant, PTL DEF MCSpec, TripNeedsFailures

\* Execute: a breaker closes only when HalfOpenSuccessThreshold calls in a row
\* have succeeded; a failure in between starts the count again.
THEOREM BreakerCloses == MCSpec => CloseNeedsSuccesses
<1>1. HistoryInv /\ [MCNext]_vars
        => [state # Closed /\ state' = Closed
              => okRun' >= HalfOpenSuccessThreshold]_vars
  BY HistoryNext DEF ClosesRightly
<1>. QED
  BY <1>1, HistoryInvariant, PTL DEF MCSpec, CloseNeedsSuccesses
=============================================================================
