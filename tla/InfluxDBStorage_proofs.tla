------------------------ MODULE InfluxDBStorage_proofs ------------------------
(***************************************************************************)
(* A batch stops at the reading that is refused, and Close delivers what   *)
(* the client held, for any writers, callers of Close and batches.         *)
(*                                                                         *)
(* A call under way is at the reading after those it handed over (AtNext); *)
(* of the callers of Close one does the closing (OneCloses), and what the  *)
(* client held when it began is in the client or gone (OwedKept).  That    *)
(* the client is never handed more points than there are readings takes    *)
(* those that are still to come into account (Amounts).                    *)
(***************************************************************************)
EXTENDS InfluxDBStorage, FiniteSetTheorems, TLAPS

\* What TypeOK says of flags and places, and of the calls.
Places ==
  /\ done \in BOOLEAN /\ closed \in BOOLEAN /\ up \in BOOLEAN
  /\ handler \in {"select", "done"} /\ retrier \in {"select", "done"}
  /\ closer \in [Closers -> {"idle", "cancel", "queue", "wait", "flush",
                             "returned", "other"}]
  /\ lossy \in BOOLEAN /\ errors \in BOOLEAN

CallsTyped ==
  /\ batch \in [Writers -> BoundedSeq(Readings, MaxBatch)]
  /\ next \in [Writers -> 1..(MaxBatch + 1)]
  /\ at \in [Writers -> {"idle", "check", "put"}]
  /\ answer \in [Writers -> {"none", "nil", "error", "nilslice"}]
  /\ callerDone \in [Writers -> BOOLEAN]
  /\ handed \in [Writers -> 0..MaxBatch]

\* The points that calls under way may still hand over; with those the client was
\* handed they are no more than the batches begun can have.
Due ==
  {p \in Writers \X (1..MaxBatch) : at[p[1]] # "idle" /\ p[2] > handed[p[1]]}

Amounts ==
  /\ calls \in 0..MaxCalls /\ pending \in Nat /\ gone \in Nat /\ owed \in Nat
  /\ pending + gone + Cardinality(Due) <= calls * MaxBatch

\* A call under way has handed over the readings before the one it is at.
AtNext ==
  \A w \in Writers :
    /\ at[w] # "idle" => answer[w] = "none" /\ next[w] = handed[w] + 1
    /\ at[w] = "check" => next[w] <= Len(batch[w]) + 1
    /\ at[w] = "put" => next[w] <= Len(batch[w])

\* The calls of Close that do the closing: one, which closes the queue once.
Effective == {c \in Closers : closer[c] \notin {"idle", "other"}}

OneCloses ==
  /\ Effective # {} => closed
  /\ \A c, d \in Effective : c = d
  /\ closings \in 0..1
  /\ closings = 1 => closed /\ \A c \in Closers : closer[c] \notin {"cancel", "queue"}

\* What the client held when it began is in the client or gone.
OwedKept ==
  /\ owed <= gone + pending
  /\ \A c \in Closers : closer[c] = "returned" => owed <= gone

InfluxInv ==
  /\ Places /\ CallsTyped /\ Amounts
  /\ AtNext /\ BatchStopsAtRefused
  /\ OneCloses /\ OwedKept
-----------------------------------------------------------------------------
LEMMA BatchLength ==
  ASSUME NEW b \in BoundedSeq(Readings, MaxBatch)
  PROVE  b \in Seq(Readings) /\ Len(b) \in 0..MaxBatch
BY InfluxAssumption DEF BoundedSeq, SeqOf

LEMMA NoBatch == << >> \in BoundedSeq(Readings, MaxBatch)
<1>1. << >> \in [1..0 -> Readings] /\ 0 \in 0..MaxBatch
  BY InfluxAssumption
<1>. QED
  BY <1>1 DEF BoundedSeq, SeqOf

\* The points due are finitely many, and fewer if they are a part of what they were.
LEMMA DueFinite ==
  /\ IsFiniteSet(Due) /\ Cardinality(Due) \in Nat
  /\ IsFiniteSet(Due') /\ Cardinality(Due') \in Nat
<1>1. IsFiniteSet(1..MaxBatch)
  BY FS_Interval, InfluxAssumption
<1>2. IsFiniteSet(Writers \X (1..MaxBatch))
  BY <1>1, FS_Product, InfluxAssumption
<1>3. Due \subseteq Writers \X (1..MaxBatch) /\ Due' \subseteq Writers \X (1..MaxBatch)
  BY DEF Due
<1>. QED
  BY <1>2, <1>3, FS_Subset, FS_CardinalityType

\* A call just begun has all of its batch to hand over, which adds at most MaxBatch.
LEMMA RowOfBatch ==
  ASSUME NEW w
  PROVE  /\ IsFiniteSet({w} \X (1..MaxBatch))
         /\ Cardinality({w} \X (1..MaxBatch)) = MaxBatch
<1>1. IsFiniteSet({w}) /\ Cardinality({w}) = 1
  BY FS_Singleton
<1>2. IsFiniteSet(1..MaxBatch) /\ Cardinality(1..MaxBatch) = MaxBatch
  <2>1. 1 \in Int /\ MaxBatch \in Int
    BY InfluxAssumption
  <2>2. Cardinality(1..MaxBatch) = IF 1 > MaxBatch THEN 0 ELSE MaxBatch - 1 + 1
    BY <2>1, FS_Interval
  <2>. QED
    BY <2>1, <2>2, FS_Interval, InfluxAssumption
<1>. DEFINE S == {w}  T == 1..MaxBatch
<1>3. /\ IsFiniteSet(S \X T)
      /\ Cardinality(S \X T) = Cardinality(S) * Cardinality(T)
  <2>. HIDE DEF S, T
  <2>. QED
    BY <1>1, <1>2, FS_Product DEF S, T
<1>. QED
  BY <1>1, <1>2, <1>3, InfluxAssumption

LEMMA UnionBound ==
  ASSUME NEW S, IsFiniteSet(S), NEW T, IsFiniteSet(T), NEW U, U \subseteq S \cup T
  PROVE  Cardinality(U) <= Cardinality(S) + Cardinality(T)
<1>1. /\ IsFiniteSet(S \cup T)
      /\ Cardinality(S \cup T)
           = Cardinality(S) + Cardinality(T) - Cardinality(S \cap T)
  BY FS_Union
<1>2. IsFiniteSet(S \cap T)
  BY FS_Intersection
<1>3. /\ Cardinality(S \cap T) \in Nat /\ Cardinality(S) \in Nat
      /\ Cardinality(T) \in Nat /\ Cardinality(S \cup T) \in Nat
  BY <1>1, <1>2, FS_CardinalityType
<1>4. IsFiniteSet(U) /\ Cardinality(U) <= Cardinality(S \cup T)
  BY <1>1, FS_Subset
<1>5. Cardinality(U) \in Nat
  BY <1>4, FS_CardinalityType
<1>. QED
  BY <1>1, <1>3, <1>4, <1>5

LEMMA InfluxInit == Init => InfluxInv
<1>. SUFFICES ASSUME Init PROVE InfluxInv
  OBVIOUS
<1>1. Places
  BY DEF Init, Places
<1>2. CallsTyped
  BY NoBatch, InfluxAssumption DEF Init, CallsTyped
<1>3. Amounts
  <2>1. Due = {}
    BY DEF Init, Due
  <2>2. Cardinality(Due) = 0
    BY <2>1, FS_EmptySet
  <2>3. calls = 0 /\ pending = 0 /\ gone = 0 /\ owed = 0
    BY DEF Init
  <2>. QED
    BY <2>2, <2>3, InfluxAssumption DEF Amounts
<1>4. AtNext /\ BatchStopsAtRefused
  BY DEF Init, AtNext, BatchStopsAtRefused
<1>5. OneCloses /\ OwedKept
  BY DEF Init, OneCloses, Effective, OwedKept
<1>. QED
  BY <1>1, <1>2, <1>3, <1>4, <1>5 DEF InfluxInv
-----------------------------------------------------------------------------
\* What is owed stays owed while the client is handed points.
LEMMA OwedStays ==
  ASSUME OwedKept, owed' = owed, gone' = gone, closer' = closer,
         pending \in Nat, gone \in Nat, owed \in Nat,
         pending' = pending \/ pending' = pending + 1
  PROVE  OwedKept'
<1>1. owed' <= gone' + pending'
  BY DEF OwedKept
<1>2. \A c \in Closers : closer'[c] = "returned" => owed' <= gone'
  BY DEF OwedKept
<1>. QED
  BY <1>1, <1>2 DEF OwedKept

\* What the steps of a call leave alone, points apart.
LEMMA CallKeepsClose ==
  ASSUME InfluxInv, ByCall, UNCHANGED <<gone, lossy, errors>>,
         pending' \in {pending, pending + 1}
  PROVE  Places' /\ OneCloses' /\ OwedKept'
<1>1. UNCHANGED <<done, closed, closings, handler, retrier, closer, owed, up>>
  BY DEF ByCall, closeVars
<1>2. Places' /\ OneCloses'
  BY <1>1 DEF InfluxInv, Places, OneCloses, Effective
<1>3. pending \in Nat /\ gone \in Nat /\ owed \in Nat
  BY DEF InfluxInv, Amounts
<1>4. OwedKept'
  BY <1>1, <1>3, OwedStays DEF InfluxInv
<1>. QED
  BY <1>2, <1>4

\* Points that move or are no longer due leave the balance as it was.
LEMMA AmountsKept ==
  ASSUME InfluxInv, Due' \subseteq Due, UNCHANGED calls, owed' \in Nat,
         pending' \in Nat, gone' \in Nat, pending' + gone' = pending + gone
  PROVE  Amounts'
<1>1. Cardinality(Due') <= Cardinality(Due)
  BY DueFinite, FS_Subset
<1>2. /\ calls \in 0..MaxCalls /\ pending \in Nat /\ gone \in Nat
      /\ calls * MaxBatch \in Int
      /\ pending + gone + Cardinality(Due) <= calls * MaxBatch
  BY InfluxAssumption DEF InfluxInv, Amounts
<1>3. pending' + gone' + Cardinality(Due') <= calls * MaxBatch
  <2>1. pending' + gone' = pending + gone /\ pending' \in Int /\ gone' \in Int
    OBVIOUS
  <2>2. pending \in Int /\ gone \in Int /\ calls * MaxBatch \in Int
    BY <1>2
  <2>3. pending + gone + Cardinality(Due) <= calls * MaxBatch
    BY <1>2
  <2>4. \A k \in Int : pending + gone + Cardinality(Due) <= k
                         => pending + gone + Cardinality(Due') <= k
    BY <1>1, <2>2, DueFinite
  <2>. QED
    BY <2>1, <2>2, <2>3, <2>4
<1>4. calls' \in 0..MaxCalls /\ calls' * MaxBatch = calls * MaxBatch
  BY <1>2
<1>5. pending' + gone' + Cardinality(Due') <= calls' * MaxBatch
  BY <1>3, <1>4
<1>. QED
  BY <1>4, <1>5, DueFinite, InfluxAssumption DEF Amounts

\* WriteBatch and RefusesNilSlice.
LEMMA BeginsKeeps ==
  ASSUME InfluxInv, NEW w \in Writers, NEW b \in BoundedSeq(Readings, MaxBatch),
         NEW place, NEW a, Begins(w, b, place, a),
         \/ place = "check" /\ a = "none"
         \/ place = "idle" /\ a = "nilslice"
  PROVE  InfluxInv'
<1>1. /\ batch' = [batch EXCEPT ![w] = b]
      /\ at' = [at EXCEPT ![w] = place]
  BY DEF Begins
<1>2. /\ at[w] = "idle" /\ calls < MaxCalls /\ calls' = calls + 1
      /\ next' = [next EXCEPT ![w] = 1] /\ answer' = [answer EXCEPT ![w] = a]
      /\ handed' = [handed EXCEPT ![w] = 0]
      /\ callerDone' = [callerDone EXCEPT ![w] = FALSE]
      /\ ByCall /\ UNCHANGED <<pending, gone, lossy, errors>>
  BY DEF Begins, client
<1>3. Len(b) \in Nat
  BY BatchLength
<1>4. CallsTyped'
  BY <1>1, <1>2, InfluxAssumption DEF InfluxInv, CallsTyped
<1>5. AtNext' /\ BatchStopsAtRefused'
  BY <1>1, <1>2, <1>3 DEF InfluxInv, CallsTyped, AtNext, BatchStopsAtRefused
<1>6. Amounts'
  <2>1. /\ calls \in 0..MaxCalls /\ pending \in Nat /\ gone \in Nat /\ owed \in Nat
        /\ pending + gone + Cardinality(Due) <= calls * MaxBatch
    BY DEF InfluxInv, Amounts
  <2>2. Due' \subseteq Due \cup ({w} \X (1..MaxBatch))
    BY <1>1, <1>2 DEF Due, InfluxInv, CallsTyped
  <2>3. Cardinality(Due') <= Cardinality(Due) + MaxBatch
    BY <2>2, DueFinite, RowOfBatch, UnionBound
  <2>4. (calls + 1) * MaxBatch = calls * MaxBatch + MaxBatch
    BY <2>1, InfluxAssumption
  <2>5. calls' \in 0..MaxCalls /\ UNCHANGED owed
    BY <1>2, <2>1, InfluxAssumption DEF ByCall, closeVars
  <2>. QED
    BY <1>2, <2>1, <2>3, <2>4, <2>5, DueFinite, InfluxAssumption DEF Amounts
<1>. QED
  BY <1>2, <1>4, <1>5, <1>6, CallKeepsClose DEF InfluxInv

LEMMA BatchEndsKeeps ==
  ASSUME InfluxInv, NEW w \in Writers, NEW a \in {"nil", "error"}, Answers(w, a),
         IF a = "nil" THEN at[w] = "check" /\ next[w] > Len(batch[w]) ELSE Refused(w)
  PROVE  InfluxInv'
<1>1. /\ at' = [at EXCEPT ![w] = "idle"] /\ answer' = [answer EXCEPT ![w] = a]
      /\ ByCall /\ UNCHANGED <<calls, batch, next, callerDone, handed>>
      /\ UNCHANGED <<pending, gone, lossy, errors>>
  BY DEF Answers, client
<1>2. at[w] = "check" /\ next[w] = handed[w] + 1 /\ next[w] <= Len(batch[w]) + 1
  BY DEF InfluxInv, AtNext, Refused
<1>3. batch[w] \in Seq(Readings) /\ Len(batch[w]) \in Nat /\ handed[w] \in Nat
  BY BatchLength DEF InfluxInv, CallsTyped
<1>4. CallsTyped'
  BY <1>1 DEF InfluxInv, CallsTyped
<1>5. AtNext'
  BY <1>1 DEF InfluxInv, CallsTyped, AtNext
<1>6. BatchStopsAtRefused'
  <2>. SUFFICES ASSUME NEW v \in Writers
                PROVE  /\ answer'[v] = "nil" => handed[v] = Len(batch[v])
                       /\ answer'[v] = "error" =>
                            /\ handed[v] < Len(batch[v])
                            /\ callerDone[v] \/ batch[v][handed[v] + 1] = "invalid"
                       /\ answer'[v] = "nilslice" => handed[v] = 0
    BY <1>1 DEF BatchStopsAtRefused
  <2>1. CASE v # w
    BY <1>1, <2>1 DEF InfluxInv, CallsTyped, BatchStopsAtRefused
  <2>2. CASE v = w
    <3>1. answer'[w] = a
      BY <1>1 DEF InfluxInv, CallsTyped
    <3>2. CASE a = "nil"
      BY <1>2, <1>3, <2>2, <3>1, <3>2
    <3>3. CASE a = "error"
      <4>1. /\ next[w] <= Len(batch[w])
            /\ callerDone[w] \/ batch[w][next[w]] = "invalid"
        BY <3>3 DEF Refused
      <4>. QED
        BY <1>2, <1>3, <2>2, <3>1, <3>3, <4>1
    <3>. QED
      BY <3>2, <3>3
  <2>. QED
    BY <2>1, <2>2
<1>7. Amounts'
  <2>1. Due' \subseteq Due
    BY <1>1 DEF InfluxInv, CallsTyped, Due
  <2>2. UNCHANGED <<calls, owed, pending, gone>>
    BY <1>1 DEF ByCall, closeVars
  <2>. QED
    BY <2>1, <2>2, AmountsKept DEF InfluxInv, Amounts
<1>. QED
  BY <1>1, <1>4, <1>5, <1>6, <1>7, CallKeepsClose DEF InfluxInv

\* Passes and CallerCancels.
LEMMA CallGoesOnKeeps ==
  ASSUME InfluxInv, NEW w \in Writers, Passes(w) \/ CallerCancels(w)
  PROVE  InfluxInv'
<1>1. /\ at[w] # "idle"
      /\ at' = [at EXCEPT ![w] = IF Passes(w) THEN "put" ELSE @]
      /\ callerDone' \in [Writers -> BOOLEAN]
      /\ \A v \in Writers : callerDone[v] => callerDone'[v]
      /\ Passes(w) => at[w] = "check" /\ next[w] <= Len(batch[w])
      /\ ByCall /\ UNCHANGED <<calls, batch, next, answer, handed>>
      /\ UNCHANGED <<pending, gone, lossy, errors>>
  BY DEF Passes, CallerCancels, client, InfluxInv, CallsTyped
<1>2. CallsTyped'
  BY <1>1 DEF InfluxInv, CallsTyped
<1>3. AtNext'
  BY <1>1 DEF InfluxInv, CallsTyped, AtNext
<1>4. BatchStopsAtRefused'
  BY <1>1 DEF InfluxInv, BatchStopsAtRefused
<1>5. Amounts'
  <2>1. Due' \subseteq Due
    BY <1>1 DEF InfluxInv, CallsTyped, Due
  <2>2. UNCHANGED <<calls, owed, pending, gone>>
    BY <1>1 DEF ByCall, closeVars
  <2>. QED
    BY <2>1, <2>2, AmountsKept DEF InfluxInv, Amounts
<1>. QED
  BY <1>1, <1>2, <1>3, <1>4, <1>5, CallKeepsClose DEF InfluxInv

LEMMA WritePointKeeps ==
  ASSUME InfluxInv, NEW w \in Writers, WritePoint(w)
  PROVE  InfluxInv'
<1>1. /\ at[w] = "put" /\ pending' = pending + 1
      /\ handed' = [handed EXCEPT ![w] = @ + 1] /\ next' = [next EXCEPT ![w] = @ + 1]
      /\ at' = [at EXCEPT ![w] = "check"]
      /\ ByCall /\ UNCHANGED <<calls, batch, answer, callerDone>>
      /\ UNCHANGED <<gone, lossy, errors>>
  BY DEF WritePoint
<1>2. /\ next[w] = handed[w] + 1 /\ next[w] <= Len(batch[w])
      /\ answer[w] = "none"
  BY <1>1 DEF InfluxInv, AtNext
<1>3. /\ batch[w] \in Seq(Readings) /\ Len(batch[w]) \in 0..MaxBatch
      /\ handed[w] \in Nat
  BY BatchLength DEF InfluxInv, CallsTyped
<1>4. handed[w] + 1 \in 1..MaxBatch /\ next[w] + 1 \in 1..(MaxBatch + 1)
  BY <1>2, <1>3, InfluxAssumption
<1>5. CallsTyped'
  BY <1>1, <1>4, InfluxAssumption DEF InfluxInv, CallsTyped
<1>6. AtNext'
  BY <1>1, <1>2, <1>3 DEF InfluxInv, CallsTyped, AtNext
<1>7. BatchStopsAtRefused'
  BY <1>1, <1>2 DEF InfluxInv, CallsTyped, BatchStopsAtRefused
<1>8. Amounts'
  <2>1. <<w, handed[w] + 1>> \in Due
    BY <1>1, <1>3, <1>4 DEF Due
  <2>2. Due' \subseteq Due \ {<<w, handed[w] + 1>>}
    <3>. SUFFICES ASSUME NEW v \in Writers, NEW i \in 1..MaxBatch,
                         at'[v] # "idle", i > handed'[v]
                  PROVE  at[v] # "idle" /\ i > handed[v] /\ (v = w => i # handed[w] + 1)
      BY DEF Due
    <3>. QED
      BY <1>1, <1>3, InfluxAssumption DEF InfluxInv, CallsTyped
  <2>3. Cardinality(Due') <= Cardinality(Due) - 1
    <3>1. /\ IsFiniteSet(Due \ {<<w, handed[w] + 1>>})
          /\ Cardinality(Due \ {<<w, handed[w] + 1>>}) = Cardinality(Due) - 1
      BY <2>1, DueFinite, FS_RemoveElement
    <3>. QED
      BY <2>2, <3>1, FS_Subset
  <2>4. Amounts /\ UNCHANGED <<calls, owed, gone>>
    BY <1>1 DEF InfluxInv, ByCall, closeVars
  <2>. QED
    BY <1>1, <2>3, <2>4, DueFinite, InfluxAssumption DEF Amounts
<1>. QED
  BY <1>1, <1>5, <1>6, <1>7, <1>8, CallKeepsClose DEF InfluxInv

LEMMA CallsKeep ==
  ASSUME InfluxInv, NEW w \in Writers, Calls(w)
  PROVE  InfluxInv'
<1>1. CASE WriteBatch(w) \/ RefusesNilSlice(w)
  BY <1>1, NoBatch, BeginsKeeps DEF WriteBatch, RefusesNilSlice
<1>2. CASE BatchEnds(w)
  BY <1>2, BatchEndsKeeps DEF BatchEnds
<1>3. CASE Refuses(w)
  BY <1>3, BatchEndsKeeps DEF Refuses
<1>4. CASE Passes(w)
  BY <1>4, CallGoesOnKeeps
<1>5. CASE WritePoint(w)
  BY <1>5, WritePointKeeps
<1>6. CASE CallerCancels(w)
  BY <1>6, CallGoesOnKeeps
<1>. QED
  BY <1>1, <1>2, <1>3, <1>4, <1>5, <1>6 DEF Calls
-----------------------------------------------------------------------------
\* No step of the client, the goroutines or Close touches a call under way.
LEMMA KeepsCalls ==
  ASSUME InfluxInv, UNCHANGED callVars, owed' \in Nat,
         pending' \in Nat, gone' \in Nat, pending' + gone' = pending + gone
  PROVE  CallsTyped' /\ AtNext' /\ BatchStopsAtRefused' /\ Amounts'
<1>1. UNCHANGED <<calls, batch, next, at, answer, callerDone, handed>>
  BY DEF callVars
<1>2. CallsTyped' /\ AtNext' /\ BatchStopsAtRefused'
  BY <1>1 DEF InfluxInv, CallsTyped, AtNext, BatchStopsAtRefused
<1>3. Due' \subseteq Due
  BY <1>1 DEF Due
<1>4. Amounts'
  BY <1>1, <1>3, AmountsKept
<1>. QED
  BY <1>2, <1>4

LEMMA DeliversAll ==
  ASSUME InfluxInv, Delivers
  PROVE  /\ pending' \in Nat /\ gone' \in Nat /\ pending' + gone' = pending + gone
         /\ lossy' \in BOOLEAN /\ errors' \in BOOLEAN
         /\ gone' >= gone /\ owed <= gone' /\ pending' = 0
<1>1. pending \in Nat /\ gone \in Nat /\ owed \in Nat /\ owed <= gone + pending
  BY DEF InfluxInv, Amounts, OwedKept
<1>2. pending' = 0 /\ gone' = gone + pending
  BY DEF Delivers
<1>3. lossy' \in BOOLEAN /\ errors' \in BOOLEAN
  BY DEF Delivers, InfluxInv, Places
<1>. QED
  BY <1>1, <1>2, <1>3

LEMMA ClientSendsKeeps ==
  ASSUME InfluxInv, ClientSends
  PROVE  InfluxInv'
<1>1. /\ UNCHANGED <<done, closed, closings, handler, retrier, closer, owed, up>>
      /\ UNCHANGED callVars /\ Delivers
  BY DEF ClientSends, closeVars
<1>2. owed' \in Nat
  BY <1>1 DEF InfluxInv, Amounts
<1>3. CallsTyped' /\ AtNext' /\ BatchStopsAtRefused' /\ Amounts'
  BY <1>1, <1>2, DeliversAll, KeepsCalls
<1>4. Places'
  BY <1>1, DeliversAll DEF InfluxInv, Places
<1>5. OneCloses'
  BY <1>1 DEF InfluxInv, OneCloses, Effective
<1>6. OwedKept'
  <2>1. owed' <= gone' + pending' /\ owed' <= gone'
    BY <1>1, <1>2, DeliversAll
  <2>. QED
    BY <2>1 DEF OwedKept
<1>. QED
  BY <1>3, <1>4, <1>5, <1>6 DEF InfluxInv

\* Outage, and the steps of the two goroutines.
LEMMA GoroutinesKeep ==
  ASSUME InfluxInv, Outage \/ HandlesError \/ HandlerEnds \/ RetrierEnds
  PROVE  InfluxInv'
<1>1. /\ UNCHANGED <<done, closed, closings, closer, owed, callVars, pending, gone>>
      /\ UNCHANGED lossy
  BY DEF Outage, HandlesError, HandlerEnds, RetrierEnds, closeVars, client
<1>2. /\ up' \in BOOLEAN /\ errors' \in BOOLEAN
      /\ handler' \in {"select", "done"} /\ retrier' \in {"select", "done"}
  BY DEF Outage, HandlesError, HandlerEnds, RetrierEnds, closeVars, client,
         InfluxInv, Places
<1>3. CallsTyped' /\ AtNext' /\ BatchStopsAtRefused' /\ Amounts'
  BY <1>1, KeepsCalls DEF InfluxInv, Amounts
<1>4. Places'
  BY <1>1, <1>2 DEF InfluxInv, Places
<1>5. OneCloses' /\ OwedKept'
  BY <1>1 DEF InfluxInv, OneCloses, Effective, OwedKept
<1>. QED
  BY <1>3, <1>4, <1>5 DEF InfluxInv
-----------------------------------------------------------------------------
\* A step of Close: what it leaves alone, whatever it does with the queue.
LEMMA CloserSteps ==
  ASSUME InfluxInv, NEW c \in Closers, NEW to \in {"queue", "wait", "flush"},
         \/ Steps(c, "cancel", "queue") /\ to = "queue" /\ closings' = closings
         \/ Steps(c, "queue", "wait") /\ to = "wait" /\ closings' = closings + 1
         \/ Steps(c, "wait", "flush") /\ to = "flush" /\ closings' = closings,
         ByClose, UNCHANGED <<closed, owed, pending, gone, lossy, errors>>,
         done' \in BOOLEAN
  PROVE  InfluxInv'
<1>1. /\ closer' = [closer EXCEPT ![c] = to]
      /\ c \in Effective
      /\ UNCHANGED <<callVars, handler, retrier, up>>
  BY DEF Steps, ByClose, Effective
<1>2. CallsTyped' /\ AtNext' /\ BatchStopsAtRefused' /\ Amounts'
  BY <1>1, KeepsCalls DEF InfluxInv, Amounts
<1>3. Places'
  BY <1>1 DEF InfluxInv, Places
<1>4. Effective' = Effective
  BY <1>1 DEF InfluxInv, Places, Effective
<1>5. \A d \in Closers : d # c => closer'[d] \in {"idle", "other"}
  BY <1>1 DEF InfluxInv, Places, OneCloses, Effective
<1>6. closings \in 0..1 /\ closer'[c] = to
  BY <1>1 DEF InfluxInv, Places, OneCloses
<1>7. closings' \in 0..1 /\ (closings' = 1 => closer'[c] \notin {"cancel", "queue"})
  <2>1. closings = 1 => closer[c] \notin {"cancel", "queue"}
    BY DEF InfluxInv, OneCloses
  <2>. QED
    BY <1>6, <2>1 DEF Steps
<1>8. OneCloses'
  BY <1>1, <1>4, <1>5, <1>7 DEF InfluxInv, OneCloses
<1>9. OwedKept'
  BY <1>1 DEF InfluxInv, Places, OwedKept
<1>. QED
  BY <1>2, <1>3, <1>8, <1>9 DEF InfluxInv

LEMMA CloseKeeps ==
  ASSUME InfluxInv, NEW c \in Closers, Close(c)
  PROVE  InfluxInv'
<1>1. /\ closer[c] = "idle"
      /\ UNCHANGED <<callVars, handler, retrier, up, done, closings>>
      /\ UNCHANGED <<pending, gone, lossy, errors>>
  BY DEF Close, Steps, ByClose, client
<1>2. pending \in Nat /\ gone \in Nat /\ owed \in Nat
  BY DEF InfluxInv, Amounts
<1>3. CASE closed
  <2>1. closer' = [closer EXCEPT ![c] = "other"] /\ UNCHANGED <<closed, owed>>
    BY <1>3 DEF Close, Steps
  <2>2. CallsTyped' /\ AtNext' /\ BatchStopsAtRefused' /\ Amounts'
    BY <1>1, <1>2, <2>1, KeepsCalls
  <2>3. Places'
    BY <1>1, <2>1 DEF InfluxInv, Places
  <2>4. Effective' = Effective
    BY <1>1, <2>1 DEF InfluxInv, Places, Effective
  <2>5. OneCloses'
    BY <1>1, <2>1, <2>4 DEF InfluxInv, Places, OneCloses
  <2>6. OwedKept'
    BY <1>1, <2>1 DEF InfluxInv, Places, OwedKept
  <2>. QED
    BY <2>2, <2>3, <2>5, <2>6 DEF InfluxInv
<1>4. CASE ~closed
  <2>1. /\ closer' = [closer EXCEPT ![c] = "cancel"]
        /\ closed' = TRUE /\ owed' = gone + pending
    BY <1>4 DEF Close, Steps
  <2>2. owed' \in Nat /\ owed' <= gone' + pending'
    BY <1>1, <1>2, <2>1
  <2>3. CallsTyped' /\ AtNext' /\ BatchStopsAtRefused' /\ Amounts'
    BY <1>1, <1>2, <2>2, KeepsCalls
  <2>4. Places'
    BY <1>1, <2>1 DEF InfluxInv, Places
  <2>5. \A d \in Closers : closer[d] \in {"idle", "other"}
    BY <1>4 DEF InfluxInv, OneCloses, Effective
  <2>6. Effective' = {c} /\ \A d \in Closers : closer'[d] # "returned"
    BY <2>1, <2>5 DEF InfluxInv, Places, Effective
  <2>7. OneCloses'
    <3>1. closings \in 0..1 /\ closings # 1
      BY <1>4 DEF InfluxInv, OneCloses
    <3>. QED
      BY <1>1, <2>1, <2>6, <3>1 DEF OneCloses
  <2>8. OwedKept'
    BY <2>2, <2>6 DEF OwedKept
  <2>. QED
    BY <2>3, <2>4, <2>7, <2>8 DEF InfluxInv
<1>. QED
  BY <1>3, <1>4 DEF InfluxInv, Places

LEMMA FlushesAndClosesKeeps ==
  ASSUME InfluxInv, NEW c \in Closers, FlushesAndCloses(c)
  PROVE  InfluxInv'
<1>1. /\ closer[c] = "flush" /\ closer' = [closer EXCEPT ![c] = "returned"]
      /\ UNCHANGED <<callVars, handler, retrier, up, done, closed, closings, owed>>
      /\ Delivers
  BY DEF FlushesAndCloses, Steps, ByClose
<1>2. owed' \in Nat
  BY <1>1 DEF InfluxInv, Amounts
<1>3. CallsTyped' /\ AtNext' /\ BatchStopsAtRefused' /\ Amounts'
  BY <1>1, <1>2, DeliversAll, KeepsCalls
<1>4. Places'
  BY <1>1, DeliversAll DEF InfluxInv, Places
<1>5. Effective' = Effective
  BY <1>1 DEF InfluxInv, Places, Effective
<1>6. OneCloses'
  BY <1>1, <1>5 DEF InfluxInv, Places, OneCloses
<1>7. OwedKept'
  <2>1. owed' <= gone' + pending' /\ owed' <= gone'
    BY <1>1, <1>2, DeliversAll
  <2>. QED
    BY <2>1 DEF OwedKept
<1>. QED
  BY <1>3, <1>4, <1>6, <1>7 DEF InfluxInv

LEMMA ClosesKeep ==
  ASSUME InfluxInv, NEW c \in Closers, Closes(c)
  PROVE  InfluxInv'
<1>. USE DEF client
<1>1. CASE Close(c)
  BY <1>1, CloseKeeps
<1>2. CASE CancelsContext(c)
  BY <1>2, CloserSteps DEF CancelsContext
<1>3. CASE ClosesQueue(c)
  <2>1. done' \in BOOLEAN
    BY <1>3 DEF ClosesQueue, InfluxInv, Places
  <2>. QED
    BY <1>3, <2>1, CloserSteps DEF ClosesQueue
<1>4. CASE HandlersEnded(c)
  <2>1. done' \in BOOLEAN
    BY <1>4 DEF HandlersEnded, InfluxInv, Places
  <2>. QED
    BY <1>4, <2>1, CloserSteps DEF HandlersEnded
<1>5. CASE FlushesAndCloses(c)
  BY <1>5, FlushesAndClosesKeeps
<1>. QED
  BY <1>1, <1>2, <1>3, <1>4, <1>5 DEF Closes

LEMMA InfluxNext == InfluxInv /\ [Next]_vars => InfluxInv'
<1>. SUFFICES ASSUME InfluxInv, [Next]_vars PROVE InfluxInv'
  OBVIOUS
<1>1. ASSUME NEW w \in Writers, Calls(w) PROVE InfluxInv'
  BY <1>1, CallsKeep
<1>2. ASSUME NEW c \in Closers, Closes(c) PROVE InfluxInv'
  BY <1>2, ClosesKeep
<1>3. CASE ClientSends
  BY <1>3, ClientSendsKeeps
<1>4. CASE Outage \/ HandlesError \/ HandlerEnds \/ RetrierEnds
  BY <1>4, GoroutinesKeep
<1>5. CASE UNCHANGED vars
  <2>1. /\ UNCHANGED <<done, closed, closings, handler, retrier, closer, owed, up>>
        /\ UNCHANGED <<callVars, pending, gone, lossy, errors>>
    BY <1>5 DEF vars, closeVars, client
  <2>2. CallsTyped' /\ AtNext' /\ BatchStopsAtRefused' /\ Amounts'
    BY <2>1, KeepsCalls DEF InfluxInv, Amounts
  <2>3. Places' /\ OneCloses' /\ OwedKept'
    BY <2>1 DEF InfluxInv, Places, OneCloses, Effective, OwedKept
  <2>. QED
    BY <2>2, <2>3 DEF InfluxInv
<1>. QED
  BY <1>1, <1>2, <1>3, <1>4, <1>5 DEF Next
-----------------------------------------------------------------------------
LEMMA SpecInflux == Spec => []InfluxInv
<1>. QED
  BY InfluxInit, InfluxNext, PTL DEF Spec

\* InfluxDBStorage: the state keeps its types and bounds: the queue is closed at
\* most once, and the client is never handed more points than the batches have.
THEOREM InfluxTyped == Spec => []TypeOK
<1>1. InfluxInv => TypeOK
  <2>. SUFFICES ASSUME InfluxInv PROVE TypeOK
    OBVIOUS
  <2>1. /\ calls \in 0..MaxCalls /\ pending \in Nat /\ gone \in Nat /\ owed \in Nat
        /\ pending + gone + Cardinality(Due) <= calls * MaxBatch
        /\ owed <= gone + pending
    BY DEF InfluxInv, Amounts, OwedKept
  <2>2. calls * MaxBatch <= Points
    BY <2>1, InfluxAssumption DEF Points
  <2>3. Cardinality(Due) \in Nat /\ calls * MaxBatch \in Int /\ Points \in Int
    BY <2>1, DueFinite, InfluxAssumption DEF Points
  <2>4. pending \in 0..Points /\ gone \in 0..Points /\ owed \in 0..Points
    <3>. HIDE DEF Points
    <3>. QED
      BY <2>1, <2>2, <2>3
  <2>5. closings \in 0..1
    BY DEF InfluxInv, OneCloses
  <2>. QED
    BY <2>1, <2>4, <2>5 DEF InfluxInv, Places, CallsTyped, TypeOK
<1>. QED
  BY <1>1, SpecInflux, PTL

\* WriteBatch: a batch hands over its readings up to the one that is refused, and
\* answers nil for all of them only.
THEOREM BatchesStop == Spec => []BatchStopsAtRefused
<1>1. InfluxInv => BatchStopsAtRefused
  BY DEF InfluxInv
<1>. QED
  BY <1>1, SpecInflux, PTL

\* Close: the client let go of all that it held when the closing call began,
\* however many call Close at once and whatever is written meanwhile.
THEOREM CloseDelivered == Spec => []CloseDelivers
<1>1. InfluxInv => CloseDelivers
  BY DEF InfluxInv, Amounts, OwedKept, CloseDelivers
<1>. QED
  BY <1>1, SpecInflux, PTL
=============================================================================
