------------------------ MODULE CachingStorage_proofs -------------------------
(***************************************************************************)
(* CachingStorage loses no acknowledged reading, for any writers, readings *)
(* and batches, any number of outages, refusals, disk faults, crashes and  *)
(* restarts, and whether or not the breaker is set: it implements          *)
(* DurableStore.                                                           *)
(*                                                                         *)
(* The two invariants are not inductive.  That the replay loop deletes     *)
(* only what InfluxDB has needs the rest of its slice to be cached still,  *)
(* each reading in it once; that a refusal keeps nothing needs the         *)
(* readings of unfinished calls to be in no store and in no other call.    *)
(***************************************************************************)
EXTENDS CachingStorage, FiniteSetTheorems, TLAPS

Typed ==
  /\ pc \in [Writers -> {"idle", "write", "failed", "cache"}]
  /\ todo \in [Writers -> Seq(Readings)]
  /\ cachedAt \in [Readings -> Nat]
  /\ clock \in Nat \ {0}
  /\ listed \in Seq(Readings)
  /\ at \in Nat
  /\ crashes \in 0..MaxCrashes

\* The readings of a call that has not returned, none if there is no call.
Pending(w) == Range(todo[w])

CallsPending == \A w \in Writers : pc[w] = "idle" <=> todo[w] = <<>>

\* They are in the call once, and nowhere else: not stored, cached or answered.
PendingOnce == \A w \in Writers : IsInjective(todo[w])
PendingNew ==
  \A w \in Writers :
    Pending(w) \subseteq submitted \ (acked \cup refused \cup stored \cup Cached)
PendingApart ==
  \A v, w \in Writers : v # w => Pending(v) \cap Pending(w) = {}

KeptSubmitted == acked \cup refused \cup stored \cup Cached \subseteq submitted

\* The rest of the replay loop's slice is cached, each reading in it once.
ReplayListed ==
  replay \in {"write", "delete"} =>
    /\ at \in DOMAIN listed
    /\ IsInjective(listed)
    /\ \A i \in DOMAIN listed : at <= i => listed[i] \in Cached

\* A process that has ended has no replay loop.
EndedWaits ==
  /\ ~Alive => replay \in {"wait", "exited"}
  /\ process = "crashed" => crashes > 0

CallsInv  == CallsPending /\ PendingOnce /\ PendingNew /\ PendingApart
ReplayInv == ReplayListed /\ ReplayDeletesStored
StoreInv ==
  /\ Typed
  /\ CallsInv
  /\ KeptSubmitted
  /\ ReplayInv
  /\ EndedWaits
  /\ NoSilentLoss

\* What each step is shown to do: it keeps the invariant, and it is a step of
\* DurableStore or leaves that as it is.
Promises == StoreInv' /\ [Promised!Next]_(Promised!vars)
-----------------------------------------------------------------------------
\* A slice without its first reading.
LEMMA HeadAndTail ==
  ASSUME NEW s \in Seq(Readings), s # <<>>, IsInjective(s)
  PROVE  /\ Head(s) \in Range(s)
         /\ Head(s) \in Readings
         /\ Tail(s) \in Seq(Readings)
         /\ IsInjective(Tail(s))
         /\ Range(Tail(s)) = Range(s) \ {Head(s)}
         /\ Len(s) = 1 <=> Tail(s) = <<>>
<1>1. /\ Len(s) \in Nat \ {0} /\ DOMAIN s = 1..Len(s)
      /\ Tail(s) \in Seq(Readings) /\ DOMAIN Tail(s) = 1..(Len(s) - 1)
      /\ Len(Tail(s)) = Len(s) - 1
      /\ Head(s) = s[1]
  OBVIOUS
<1>2. \A i \in DOMAIN Tail(s) : Tail(s)[i] = s[i + 1] /\ i + 1 \in DOMAIN s
  BY <1>1
<1>3. Head(s) \in Range(s) /\ Head(s) \in Readings
  BY <1>1 DEF Range
<1>4. IsInjective(Tail(s))
  <2>. SUFFICES ASSUME NEW i \in DOMAIN Tail(s), NEW j \in DOMAIN Tail(s),
                       Tail(s)[i] = Tail(s)[j]
                PROVE  i = j
    BY DEF IsInjective
  <2>1. i + 1 = j + 1
    BY <1>2 DEF IsInjective
  <2>. QED
    BY <2>1, <1>1
<1>5. Range(Tail(s)) \subseteq Range(s) \ {Head(s)}
  <2>. SUFFICES ASSUME NEW i \in DOMAIN Tail(s)
                PROVE  Tail(s)[i] \in Range(s) /\ Tail(s)[i] # Head(s)
    BY DEF Range
  <2>1. 1 \in DOMAIN s /\ i + 1 # 1
    BY <1>1
  <2>. QED
    BY <1>1, <1>2, <2>1 DEF Range, IsInjective
<1>6. Range(s) \ {Head(s)} \subseteq Range(Tail(s))
  <2>. SUFFICES ASSUME NEW j \in DOMAIN s, s[j] # Head(s)
                PROVE  s[j] \in Range(Tail(s))
    BY DEF Range
  <2>1. j - 1 \in DOMAIN Tail(s) /\ (j - 1) + 1 = j
    BY <1>1
  <2>. QED
    BY <1>2, <2>1 DEF Range
<1>7. Len(s) = 1 <=> Tail(s) = <<>>
  BY <1>1
<1>. QED
  BY <1>1, <1>3, <1>4, <1>5, <1>6, <1>7

\* The reading a writer is at, while it is in a call.
LEMMA CurrentPending ==
  ASSUME StoreInv, NEW w \in Writers, pc[w] # "idle"
  PROVE  /\ Current(w) \in Readings
         /\ Current(w) \in Pending(w)
         /\ Current(w) \in submitted
         /\ Current(w) \notin acked \cup refused \cup stored \cup Cached
<1>1. todo[w] \in Seq(Readings) /\ todo[w] # <<>> /\ IsInjective(todo[w])
  BY DEF StoreInv, Typed, CallsInv, CallsPending, PendingOnce
<1>2. Current(w) \in Readings /\ Current(w) \in Pending(w)
  BY <1>1, HeadAndTail DEF Current, Pending
<1>. QED
  BY <1>2 DEF StoreInv, CallsInv, PendingNew

\* The empty sequence.
LEMMA NothingPending == IsInjective(<<>>) /\ Range(<<>>) = {} /\ <<>> \in Seq(Readings)
BY DEF IsInjective, Range

\* The replay loop is left alone, and no store loses a reading.
LEMMA ReplayUndisturbed ==
  ASSUME StoreInv, UNCHANGED replayVars,
         stored \subseteq stored', Cached \subseteq Cached'
  PROVE  ReplayInv'
BY DEF StoreInv, ReplayInv, ReplayListed, ReplayDeletesStored, replayVars

\* Steps that leave the calls, their answers, the stores and the replay alone.
LEMMA QuietKeeps ==
  ASSUME StoreInv, UNCHANGED <<todo, submitted, answers, stored, cachedAt, expired>>,
         pc' \in [Writers -> {"idle", "write", "failed", "cache"}],
         \A w \in Writers : pc[w] = "idle" <=> pc'[w] = "idle",
         clock' \in Nat \ {0}, listed' \in Seq(Readings), at' \in Nat,
         crashes' \in 0..MaxCrashes,
         ReplayInv', EndedWaits'
  PROVE  Promises
<1>1. UNCHANGED Cached
  BY DEF Cached, LC!Files
<1>2. Typed' /\ KeptSubmitted' /\ NoSilentLoss'
  BY <1>1 DEF StoreInv, Typed, KeptSubmitted, NoSilentLoss, answers
<1>3. CallsInv'
  BY <1>1 DEF StoreInv, CallsInv, CallsPending, PendingOnce, PendingNew,
              PendingApart, Pending, answers
<1>4. UNCHANGED Promised!vars
  BY <1>1 DEF Promised!vars, answers
<1>. QED
  BY <1>2, <1>3, <1>4 DEF Promises, StoreInv
-----------------------------------------------------------------------------
\* WriteReading returns nil, the reading being in InfluxDB or in the cache now.
LEMMA AcknowledgeKeeps ==
  ASSUME StoreInv, NEW w \in Writers, pc[w] # "idle", Acknowledge(w),
         UNCHANGED <<replayVars, expired, process, crashes>>,
         cachedAt' \in [Readings -> Nat], clock' \in Nat \ {0},
         stored \subseteq stored', Cached \subseteq Cached',
         stored' \cup Cached' = stored \cup Cached \cup {Current(w)}
  PROVE  Promises
<1>. DEFINE r == Current(w)
<1>1. /\ r \in Readings /\ r \in Pending(w) /\ r \in submitted
      /\ r \notin acked \cup refused \cup stored \cup Cached
  BY CurrentPending
<1>2. /\ todo[w] \in Seq(Readings) /\ todo[w] # <<>> /\ IsInjective(todo[w])
      /\ r = Head(todo[w])
  BY DEF StoreInv, Typed, CallsInv, CallsPending, PendingOnce, Current
<1>3. /\ Tail(todo[w]) \in Seq(Readings)
      /\ IsInjective(Tail(todo[w]))
      /\ Range(Tail(todo[w])) = Pending(w) \ {r}
      /\ Len(todo[w]) = 1 <=> Tail(todo[w]) = <<>>
  BY <1>2, HeadAndTail DEF Pending
<1>4. /\ todo'[w] = Tail(todo[w])
      /\ \A v \in Writers : v # w => todo'[v] = todo[v] /\ pc'[v] = pc[v]
      /\ pc'[w] = IF Len(todo[w]) = 1 THEN "idle" ELSE "write"
      /\ acked' = acked \cup {r} /\ UNCHANGED <<refused, submitted>>
  BY DEF Acknowledge, StoreInv, Typed
<1>5. Pending(w)' = Pending(w) \ {r}
  BY <1>3, <1>4 DEF Pending
<1>6. \A v \in Writers : v # w => Pending(v)' = Pending(v) /\ r \notin Pending(v)
  BY <1>1, <1>4 DEF Pending, StoreInv, CallsInv, PendingApart
<1>7. Typed'
  BY <1>3 DEF Acknowledge, StoreInv, Typed, replayVars
<1>8. CallsInv'
  <2>1. CallsPending'
    BY <1>3, <1>4 DEF StoreInv, CallsInv, CallsPending
  <2>2. PendingOnce'
    BY <1>3, <1>4 DEF StoreInv, CallsInv, PendingOnce
  <2>3. PendingNew'
    BY <1>4, <1>5, <1>6 DEF StoreInv, CallsInv, PendingNew
  <2>4. PendingApart'
    BY <1>5, <1>6 DEF StoreInv, CallsInv, PendingApart
  <2>. QED
    BY <2>1, <2>2, <2>3, <2>4 DEF CallsInv
<1>9. KeptSubmitted' /\ NoSilentLoss'
  BY <1>1, <1>4 DEF StoreInv, KeptSubmitted, NoSilentLoss
<1>10. ReplayInv' /\ EndedWaits'
  BY ReplayUndisturbed DEF StoreInv, EndedWaits, Alive, replayVars
<1>11. Promised!Accept(r)
  BY <1>1, <1>4 DEF Promised!Accept
<1>. QED
  BY <1>1, <1>7, <1>8, <1>9, <1>10, <1>11 DEF Promises, StoreInv, Promised!Next

\* WriteReading returns an error; the disk may have kept the reading all the same.
LEMMA RefuseKeeps ==
  ASSUME StoreInv, NEW w \in Writers, pc[w] # "idle", Refuse(w),
         UNCHANGED <<replayVars, expired, process, crashes, stored>>,
         cachedAt' \in [Readings -> Nat], clock' \in Nat \ {0},
         \/ Cached' = Cached
         \/ Cached' = Cached \cup {Current(w)} /\ LC!MayFail({"write"})
  PROVE  Promises
<1>. DEFINE r == Current(w)
            kept == IF Cached' = Cached THEN {} ELSE {r}
<1>1. /\ r \in Readings /\ r \in Pending(w)
      /\ kept \subseteq {r} /\ Cached' = Cached \cup kept
      /\ kept = {} \/ LC!MayFail({"write"})
  BY CurrentPending
<1>2. /\ todo'[w] = <<>> /\ pc'[w] = "idle"
      /\ \A v \in Writers : v # w => todo'[v] = todo[v] /\ pc'[v] = pc[v]
      /\ refused' = refused \cup Pending(w) /\ UNCHANGED <<acked, submitted>>
  BY DEF Refuse, Pending, StoreInv, Typed
<1>3. Pending(w)' = {}
  BY <1>2, NothingPending DEF Pending
<1>4. \A v \in Writers : v # w => Pending(v)' = Pending(v)
                                  /\ Pending(v) \cap Pending(w) = {}
  BY <1>2 DEF Pending, StoreInv, CallsInv, PendingApart
<1>5. Pending(w) \cap (acked \cup refused \cup stored \cup Cached) = {}
      /\ Pending(w) \subseteq submitted
  BY DEF StoreInv, CallsInv, PendingNew
<1>. HIDE DEF r, kept
<1>6. Typed'
  BY NothingPending DEF Refuse, StoreInv, Typed, replayVars
<1>7. CallsInv'
  <2>1. CallsPending'
    BY <1>2 DEF StoreInv, CallsInv, CallsPending
  <2>2. PendingOnce'
    BY <1>2, NothingPending DEF StoreInv, CallsInv, PendingOnce
  <2>3. PendingNew'
    BY <1>1, <1>2, <1>3, <1>4 DEF StoreInv, CallsInv, PendingNew
  <2>4. PendingApart'
    BY <1>3, <1>4 DEF StoreInv, CallsInv, PendingApart
  <2>. QED
    BY <2>1, <2>2, <2>3, <2>4 DEF CallsInv
<1>8. KeptSubmitted' /\ NoSilentLoss'
  BY <1>1, <1>2, <1>5 DEF StoreInv, KeptSubmitted, NoSilentLoss
<1>9. ReplayInv' /\ EndedWaits'
  BY <1>1, ReplayUndisturbed DEF StoreInv, EndedWaits, Alive, replayVars
<1>10. Pending(w) \in SUBSET Readings
  <2>1. todo[w] \in Seq(Readings)
    BY DEF StoreInv, Typed
  <2>. QED
    BY <2>1 DEF Pending, Range
<1>11. kept \in Promised!Remnants(Pending(w))
  <2>1. kept = {} \/ (kept = {r} /\ LC!MayFail({"write"}))
    BY <1>1
  <2>. QED
    BY <1>1, <2>1 DEF Promised!Remnants
<1>12. Promised!Refuse(Pending(w), kept)
  BY <1>1, <1>2, <1>5 DEF Promised!Refuse
<1>. QED
  BY <1>6, <1>7, <1>8, <1>9, <1>10, <1>11, <1>12
  DEF Promises, StoreInv, Promised!Next

\* A batch of readings not handed over before.
LEMMA WriteBatchKeeps ==
  ASSUME StoreInv, NEW w \in Writers, WriteBatch(w)
  PROVE  Promises
<1>1. PICK batch \in Batches :
        /\ todo' = [todo EXCEPT ![w] = batch]
        /\ submitted' = submitted \cup Range(batch)
  BY DEF WriteBatch
<1>2. PICK n \in 1..MaxBatch : batch \in [1..n -> Readings \ submitted]
  BY DEF Batches
<1>3. /\ batch \in Seq(Readings) /\ batch # <<>> /\ IsInjective(batch)
      /\ Range(batch) \cap submitted = {}
  <2>1. n \in Nat \ {0}
    BY CachingAssumption
  <2>2. IsInjective(batch) /\ Range(batch) \cap submitted = {}
    BY <1>2 DEF Batches, Range
  <2>3. batch \in Seq(Readings) /\ Len(batch) = n
    BY <1>2, <2>1
  <2>. QED
    BY <2>1, <2>2, <2>3
<1>4. /\ todo'[w] = batch /\ pc'[w] = "write"
      /\ \A v \in Writers : v # w => todo'[v] = todo[v] /\ pc'[v] = pc[v]
  BY <1>1 DEF WriteBatch, StoreInv, Typed
<1>5. UNCHANGED <<Cached, stored, acked, refused, expired, replayVars, crashes,
                  process>>
  BY DEF WriteBatch, ByWriter, answers, cacheVars, Cached, LC!Files
<1>6. Pending(w)' = Range(batch)
  BY <1>4 DEF Pending
<1>7. \A v \in Writers : v # w => Pending(v)' = Pending(v)
                                  /\ Pending(v) \subseteq submitted
  BY <1>4 DEF Pending, StoreInv, CallsInv, PendingNew
<1>8. Typed'
  BY <1>1, <1>3, <1>5 DEF WriteBatch, StoreInv, Typed, replayVars, cacheVars
<1>9. CallsInv'
  <2>1. CallsPending'
    BY <1>3, <1>4 DEF StoreInv, CallsInv, CallsPending
  <2>2. PendingOnce'
    BY <1>3, <1>4 DEF StoreInv, CallsInv, PendingOnce
  <2>3. PendingNew'
    BY <1>1, <1>3, <1>5, <1>6, <1>7
    DEF StoreInv, CallsInv, PendingNew, KeptSubmitted
  <2>4. PendingApart'
    BY <1>3, <1>6, <1>7 DEF StoreInv, CallsInv, PendingApart
  <2>. QED
    BY <2>1, <2>2, <2>3, <2>4 DEF CallsInv
<1>10. KeptSubmitted' /\ NoSilentLoss'
  BY <1>1, <1>5 DEF StoreInv, KeptSubmitted, NoSilentLoss
<1>11. ReplayInv' /\ EndedWaits'
  BY <1>5, ReplayUndisturbed DEF StoreInv, EndedWaits, Alive, replayVars
<1>. QED
  BY <1>5, <1>8, <1>9, <1>10, <1>11 DEF Promises, StoreInv, Promised!vars
-----------------------------------------------------------------------------
\* The replay goroutine goes to a step outside its loop.
LEMMA ReplayGoesKeeps ==
  ASSUME StoreInv, Alive, NEW from, NEW to,
         to \notin {"write", "delete"}, ReplayGoes(from, to)
  PROVE  Promises
<1>1. ReplayInv' /\ EndedWaits'
  BY DEF ReplayGoes, ByReplay, lifecycle, ReplayInv, ReplayListed,
         ReplayDeletesStored, EndedWaits, Alive, StoreInv
<1>2. UNCHANGED <<pc, todo, submitted, answers, stored, cachedAt, expired, clock,
                  listed, at, crashes>>
  BY DEF ReplayGoes, ByReplay, lifecycle, calls, cacheVars
<1>. QED
  BY <1>1, <1>2, QuietKeeps DEF StoreInv, Typed

\* What ListCachedReadings returns names each reading it could read once.
LEMMA ListingsInjective ==
  ASSUME StoreInv, NEW rs \in Readable, NEW s \in InOrder(rs)
  PROVE  /\ s \in Seq(Readings)
         /\ IsInjective(s)
         /\ s # <<>> => 1 \in DOMAIN s
         /\ \A i \in DOMAIN s : s[i] \in Cached
<1>1. IsFiniteSet(rs) /\ rs \subseteq Cached /\ rs \subseteq Readings
  BY CachingAssumption, FS_Subset DEF Readable, Cached, LC!Files
<1>2. Cardinality(rs) \in Nat
  BY <1>1, FS_CardinalityType
<1>3. /\ s \in [1..Cardinality(rs) -> rs]
      /\ \A i, j \in DOMAIN s : i < j => cachedAt[s[i]] < cachedAt[s[j]]
  BY DEF InOrder
<1>4. IsInjective(s)
  <2>. SUFFICES ASSUME NEW i \in DOMAIN s, NEW j \in DOMAIN s, s[i] = s[j]
                PROVE  i = j
    BY DEF IsInjective
  <2>1. i \in Nat /\ j \in Nat /\ s[i] \in Readings
    BY <1>1, <1>2, <1>3
  <2>2. cachedAt[s[i]] \in Nat
    BY <2>1 DEF StoreInv, Typed
  <2>. QED
    BY <1>3, <2>1, <2>2
<1>5. s \in Seq(Readings)
  BY <1>1, <1>2, <1>3
<1>6. s # <<>> => 1 \in DOMAIN s
  BY <1>5
<1>. QED
  BY <1>1, <1>3, <1>4, <1>5, <1>6

LEMMA ListCachedKeeps ==
  ASSUME StoreInv, ListCached
  PROVE  Promises
<1>1. /\ listed' \in Seq(Readings) /\ IsInjective(listed')
      /\ listed' # <<>> => 1 \in DOMAIN listed'
      /\ \A i \in DOMAIN listed' : listed'[i] \in Cached
  BY ListingsInjective DEF ListCached
<1>2. /\ UNCHANGED <<pc, todo, submitted, answers, stored, cachedAt, expired, clock,
                     crashes, process, Cached>>
      /\ at' = 1 /\ Alive
      /\ replay' = IF listed' = <<>> THEN "disable" ELSE "write"
  BY DEF ListCached, ReplayAt, ByReplay, lifecycle, calls, cacheVars, Cached, LC!Files
<1>3. ReplayInv' /\ EndedWaits'
  BY <1>1, <1>2
  DEF ReplayInv, ReplayListed, ReplayDeletesStored, EndedWaits, Alive, StoreInv
<1>. QED
  BY <1>1, <1>2, <1>3, QuietKeeps DEF StoreInv, Typed

\* The loop goes on: the readings after the current one are still cached.
LEMMA AdvanceKeeps ==
  ASSUME StoreInv, replay \in {"write", "delete"}, Alive, Advance,
         \A i \in DOMAIN listed : at < i => listed[i] \in Cached'
  PROVE  ReplayInv' /\ EndedWaits' /\ at' \in Nat
<1>1. /\ at \in DOMAIN listed /\ IsInjective(listed)
      /\ DOMAIN listed = 1..Len(listed) /\ Len(listed) \in Nat
  BY DEF StoreInv, Typed, ReplayInv, ReplayListed
<1>2. /\ at' = at + 1 /\ UNCHANGED <<listed, process, crashes>>
      /\ replay' = IF at < Len(listed) THEN "write" ELSE "disable"
  BY DEF Advance, ByReplay, lifecycle
<1>3. at' \in Nat /\ (replay' = "write" => at' \in DOMAIN listed)
  BY <1>1, <1>2
<1>4. \A i \in DOMAIN listed : at' <= i => at < i
  BY <1>1, <1>2
<1>5. ReplayListed'
  BY <1>1, <1>2, <1>3, <1>4 DEF ReplayListed
<1>. QED
  BY <1>2, <1>3, <1>5 DEF ReplayInv, ReplayDeletesStored, EndedWaits, Alive, StoreInv

LEMMA ReplaySkipKeeps ==
  ASSUME StoreInv, ReplaySkip
  PROVE  Promises
<1>1. /\ replay = "write" /\ Alive /\ Advance
      /\ UNCHANGED <<pc, todo, submitted, answers, stored, cachedAt, expired, clock,
                     crashes, listed, Cached>>
  BY DEF ReplaySkip, ReplayWriteFails, ReplayAt, Advance, ByReplay,
         lifecycle, calls, cacheVars, Cached, LC!Files
<1>2. \A i \in DOMAIN listed : at < i => listed[i] \in Cached'
  <2>. SUFFICES ASSUME NEW i \in DOMAIN listed, at < i PROVE listed[i] \in Cached
    BY <1>1
  <2>. QED
    BY <1>1 DEF StoreInv, Typed, ReplayInv, ReplayListed
<1>3. ReplayInv' /\ EndedWaits' /\ at' \in Nat
  BY <1>1, <1>2, AdvanceKeeps
<1>. QED
  BY <1>1, <1>3, QuietKeeps DEF StoreInv, Typed

\* InfluxDB has the reading, and the cache has it still.
LEMMA ReplayWriteKeeps ==
  ASSUME StoreInv, ReplayWrite
  PROVE  Promises
<1>1. /\ replay = "write" /\ replay' = "delete" /\ Alive
      /\ stored' = stored \cup {listed[at]}
      /\ UNCHANGED <<pc, todo, submitted, acked, refused, cachedAt, expired, clock,
                     crashes, process, listed, at, Cached>>
  BY DEF ReplayWrite, ReplayAt, ByReplay, lifecycle, calls, answers,
         cacheVars, Cached, LC!Files
<1>2. at \in DOMAIN listed /\ listed[at] \in Cached
  BY <1>1 DEF StoreInv, Typed, ReplayInv, ReplayListed
<1>3. ReplayInv' /\ EndedWaits'
  BY <1>1, <1>2
  DEF StoreInv, ReplayInv, ReplayListed, ReplayDeletesStored, EndedWaits, Alive
<1>4. Typed' /\ KeptSubmitted' /\ NoSilentLoss'
  BY <1>1, <1>2 DEF StoreInv, Typed, KeptSubmitted, NoSilentLoss
<1>5. CallsInv'
  BY <1>1, <1>2
  DEF StoreInv, CallsInv, CallsPending, PendingOnce, PendingNew, PendingApart, Pending
<1>6. UNCHANGED Promised!vars
  BY <1>1, <1>2 DEF Promised!vars
<1>. QED
  BY <1>3, <1>4, <1>5, <1>6 DEF Promises, StoreInv

\* A cached reading InfluxDB has leaves the cache, or its file cannot be removed.
LEMMA ReplayDeleteKeeps ==
  ASSUME StoreInv, ReplayDelete
  PROVE  Promises
<1>. DEFINE r == listed[at]
<1>1. /\ replay = "delete" /\ Alive /\ Advance
      /\ UNCHANGED <<pc, todo, submitted, acked, refused, stored, expired, crashes,
                     listed>>
  BY DEF ReplayDelete, ReplayAt, Advance, ByReplay, lifecycle, calls, answers
<1>2. /\ at \in DOMAIN listed /\ r \in stored \cap Cached /\ IsInjective(listed)
      /\ \A i \in DOMAIN listed : at < i => listed[i] \in Cached /\ listed[i] # r
  <2>1. /\ at \in DOMAIN listed /\ r \in stored \cap Cached /\ IsInjective(listed)
        /\ \A i \in DOMAIN listed : at <= i => listed[i] \in Cached
    BY <1>1 DEF StoreInv, ReplayInv, ReplayListed, ReplayDeletesStored
  <2>2. ASSUME NEW i \in DOMAIN listed, at < i
        PROVE  at <= i /\ i # at
    BY <2>1, <2>2 DEF StoreInv, Typed
  <2>3. \A i \in DOMAIN listed : i # at => listed[i] # r
    BY <2>1 DEF IsInjective
  <2>. QED
    BY <2>1, <2>2, <2>3
<1>3. /\ cachedAt' \in [Readings -> Nat] /\ clock' = clock
      /\ Cached' \subseteq Cached /\ Cached \subseteq Cached' \cup {r}
  <2>1. CASE LC!DeleteCached(r)
    BY <1>2, <2>1
    DEF LC!DeleteCached, LC!NoFile, LC!Files, Cached, StoreInv, Typed
  <2>2. CASE LC!DeleteFails
    BY <2>2 DEF LC!DeleteFails, LC!cacheVars, LC!Files, Cached, StoreInv, Typed
  <2>. QED
    BY <2>1, <2>2 DEF ReplayDelete
<1>4. ReplayInv' /\ EndedWaits' /\ at' \in Nat
  BY <1>1, <1>2, <1>3, AdvanceKeeps
<1>5. Typed' /\ KeptSubmitted' /\ NoSilentLoss'
  BY <1>1, <1>2, <1>3, <1>4 DEF StoreInv, Typed, KeptSubmitted, NoSilentLoss
<1>6. CallsInv'
  BY <1>1, <1>3
  DEF StoreInv, CallsInv, CallsPending, PendingOnce, PendingNew, PendingApart, Pending
<1>7. UNCHANGED Promised!vars
  BY <1>1, <1>2, <1>3 DEF Promised!vars
<1>. QED
  BY <1>4, <1>5, <1>6, <1>7 DEF Promises, StoreInv
-----------------------------------------------------------------------------
\* The process dies: the calls and the replay are gone, the cache is not.
LEMMA DiesKeeps ==
  ASSUME StoreInv, NEW how \in {"crashed", "panicked"}, Dies(how),
         crashes' \in 0..MaxCrashes, how = "crashed" => crashes' > 0,
         UNCHANGED <<cachedAt, clock>>
  PROVE  Promises
<1>1. /\ \A w \in Writers : pc'[w] = "idle" /\ todo'[w] = <<>>
      /\ pc' \in [Writers -> {"idle", "write", "failed", "cache"}]
      /\ todo' \in [Writers -> Seq(Readings)]
      /\ replay' = "wait" /\ listed' = <<>> /\ at' = 0 /\ process' = how
      /\ UNCHANGED <<submitted, acked, refused, stored, expired>>
  BY NothingPending DEF Dies, ReplayWaits, answers
<1>2. UNCHANGED Cached
  BY DEF Cached, LC!Files
<1>3. Typed' /\ EndedWaits'
  BY <1>1, <1>2, NothingPending DEF StoreInv, Typed, EndedWaits
<1>4. CallsInv'
  BY <1>1, NothingPending
  DEF CallsInv, CallsPending, PendingOnce, PendingNew, PendingApart, Pending
<1>5. ReplayInv'
  BY <1>1 DEF ReplayInv, ReplayListed, ReplayDeletesStored
<1>6. KeptSubmitted' /\ NoSilentLoss'
  BY <1>1, <1>2 DEF StoreInv, KeptSubmitted, NoSilentLoss
<1>7. UNCHANGED Promised!vars
  BY <1>1, <1>2 DEF Promised!vars
<1>. QED
  BY <1>3, <1>4, <1>5, <1>6, <1>7 DEF Promises, StoreInv

LEMMA CrashKeeps ==
  ASSUME StoreInv, Crash
  PROVE  Promises
<1>1. UNCHANGED <<cachedAt, clock>>
  BY DEF Crash, cacheVars, LC!Tear
<1>2. crashes' \in 0..MaxCrashes /\ crashes' > 0
  BY CachingAssumption DEF Crash, StoreInv, Typed
<1>. QED
  BY <1>1, <1>2, DiesKeeps DEF Crash

\* The new process gives up the cached readings that are past their age, and
\* keeps every other one.
LEMMA RestartKeeps ==
  ASSUME StoreInv, Restart
  PROVE  Promises
<1>1. /\ process' = "running" /\ expired' = expired \cup GivenUp
      /\ replay' = "wait" /\ listed' = <<>> /\ at' = 0
      /\ UNCHANGED <<pc, todo, submitted, acked, refused, stored, crashes>>
  BY DEF Restart, Starts, ReplayWaits, calls, answers
<1>2. PICK skipped \in LC!Skipped, torn \in LC!TornCounted, gone \in LC!Removable :
        LC!CleanupOld(gone, EntrySize * LC!Cardinality(LC!Files \ skipped) + torn)
  BY DEF Restart, LC!NewLocalCache
<1>3. \A r \in gone : r \in Cached /\ LC!Expired(r)
  BY DEF LC!Removable, Cached
<1>4. /\ cachedAt' \in [Readings -> Nat] /\ clock' = clock
      /\ Cached' = Cached \ gone
      /\ \A r \in Cached : cachedAt'[r] = LC!NoFile <=> r \in gone
  BY <1>2 DEF LC!CleanupOld, LC!NoFile, LC!Files, Cached, StoreInv, Typed
<1>5. GivenUp = gone \ stored
  BY <1>3, <1>4 DEF GivenUp
<1>6. /\ stored' \cup Cached' = (stored \cup Cached) \ GivenUp
      /\ GivenUp \in SUBSET (stored \cup Cached)
      /\ GivenUp \subseteq {r \in Cached : LC!Expired(r)}
  BY <1>1, <1>3, <1>4, <1>5
<1>7. Typed' /\ KeptSubmitted' /\ NoSilentLoss'
  BY <1>1, <1>4, <1>6, NothingPending DEF StoreInv, Typed, KeptSubmitted, NoSilentLoss
<1>8. CallsInv'
  BY <1>1, <1>4
  DEF StoreInv, CallsInv, CallsPending, PendingOnce, PendingNew, PendingApart, Pending
<1>9. ReplayInv' /\ EndedWaits'
  BY <1>1 DEF ReplayInv, ReplayListed, ReplayDeletesStored, EndedWaits
<1>10. Promised!Expire(GivenUp)
  BY <1>1, <1>6 DEF Promised!Expire
<1>. QED
  BY <1>6, <1>7, <1>8, <1>9, <1>10 DEF Promises, StoreInv, Promised!Next

\* The steps of Close, of InfluxDB and of time.
LEMMA OthersKeep ==
  ASSUME StoreInv, Close \/ CloseReturns \/ Environment
  PROVE  Promises
<1>1. /\ UNCHANGED <<pc, todo, submitted, answers, stored, cachedAt, expired, replay,
                     listed, at, crashes, Cached>>
      /\ \/ process' = process \/ process' = "closing"
         \/ process' = "closed" /\ replay = "exited"
  BY DEF Close, CloseReturns, Environment, InfluxDown, InfluxUp, BreakerWaits,
         FilesAge, ByEnvironment, ByOthers, lifecycle, calls, replayVars, cacheVars,
         LC!Elapse, Cached, LC!Files
<1>2. clock' \in Nat \ {0}
  BY DEF StoreInv, Typed, Close, CloseReturns, Environment, InfluxDown, InfluxUp,
         BreakerWaits, FilesAge, cacheVars, LC!Elapse
<1>3. ReplayInv' /\ EndedWaits'
  BY <1>1
  DEF StoreInv, ReplayInv, ReplayListed, ReplayDeletesStored, EndedWaits, Alive
<1>. QED
  BY <1>1, <1>2, <1>3, QuietKeeps DEF StoreInv, Typed

\* The steps of WriteReading, after the call was made.
LEMMA WriterKeeps ==
  ASSUME StoreInv, NEW w \in Writers, Writer(w)
  PROVE  Promises
<1>1. CASE WriteStores(w)
  <2>1. /\ pc[w] # "idle" /\ Acknowledge(w) /\ stored' = stored \cup {Current(w)}
        /\ UNCHANGED <<replayVars, expired, process, crashes, cachedAt, clock, Cached>>
    BY <1>1 DEF WriteStores, WriterAt, ByWriter, cacheVars, Cached, LC!Files
  <2>2. cachedAt' \in [Readings -> Nat] /\ clock' \in Nat \ {0}
    BY <2>1 DEF StoreInv, Typed
  <2>. QED
    BY <2>1, <2>2, AcknowledgeKeeps
<1>2. CASE CacheReading(w)
  <2>1. /\ pc[w] # "idle" /\ Acknowledge(w) /\ LC!Write(Current(w))
        /\ UNCHANGED <<replayVars, expired, process, crashes, stored>>
    BY <1>2 DEF CacheReading, WriterAt, ByWriter
  <2>2. Current(w) \in Readings
    BY <2>1, CurrentPending
  <2>3. /\ cachedAt' \in [Readings -> Nat] /\ clock' \in Nat \ {0}
        /\ Cached' = Cached \cup {Current(w)}
    BY <2>1, <2>2 DEF LC!Write, LC!Files, LC!NoFile, Cached, StoreInv, Typed
  <2>. QED
    BY <2>1, <2>3, AcknowledgeKeeps
<1>3. CASE CacheRefuses(w)
  <2>1. /\ pc[w] # "idle" /\ Refuse(w)
        /\ UNCHANGED <<replayVars, expired, process, crashes, stored>>
        /\ LC!WriteRefused \/ LC!WriteFails(Current(w))
    BY <1>3 DEF CacheRefuses, WriterAt, ByWriter
  <2>2. Current(w) \in Readings
    BY <2>1, CurrentPending
  <2>3. /\ cachedAt' \in [Readings -> Nat] /\ clock' \in Nat \ {0}
        /\ \/ Cached' = Cached
           \/ Cached' = Cached \cup {Current(w)} /\ LC!MayFail({"write"})
    <3>1. CASE LC!WriteRefused \/ (LC!WriteFails(Current(w)) /\ LC!LeavesPart)
      BY <3>1 DEF LC!WriteRefused, LC!WriteFails, LC!LeavesPart, LC!cacheVars, LC!Files,
                  Cached, StoreInv, Typed
    <3>2. CASE LC!WriteFails(Current(w)) /\ LC!LeavesWhole(Current(w))
      BY <2>2, <3>2 DEF LC!WriteFails, LC!LeavesWhole, LC!Files, LC!NoFile, Cached,
                        StoreInv, Typed
    <3>. QED
      BY <2>1, <3>1, <3>2 DEF LC!WriteFails
  <2>. QED
    BY <2>1, <2>3, RefuseKeeps
<1>4. CASE WriteFails(w) \/ EnableCache(w)
  <2>1. UNCHANGED <<todo, submitted, answers, stored, cachedAt, expired, clock, process,
                    replay, listed, at, crashes, replayVars, Cached>>
    BY <1>4 DEF WriteFails, EnableCache, WriterGoes, ByWriter, calls, cacheVars,
                replayVars, Cached, LC!Files
  <2>2. /\ pc' \in [Writers -> {"idle", "write", "failed", "cache"}]
        /\ \A v \in Writers : pc[v] = "idle" <=> pc'[v] = "idle"
    BY <1>4 DEF WriteFails, EnableCache, WriterGoes, WriterAt, calls, StoreInv, Typed
  <2>3. ReplayInv' /\ EndedWaits'
    BY <2>1, ReplayUndisturbed DEF StoreInv, EndedWaits, Alive
  <2>. QED
    BY <2>1, <2>2, <2>3, QuietKeeps DEF StoreInv, Typed
<1>5. CASE WritePanics(w)
  <2>1. crashes' \in 0..MaxCrashes /\ UNCHANGED <<cachedAt, clock>>
    BY <1>5 DEF WritePanics, cacheVars, StoreInv, Typed
  <2>. QED
    BY <1>5, <2>1, DiesKeeps DEF WritePanics
<1>. QED
  BY <1>1, <1>2, <1>3, <1>4, <1>5 DEF Writer

\* The steps of the replay goroutine.
LEMMA ReplayerKeeps ==
  ASSUME StoreInv, Replayer
  PROVE  Promises
<1>1. CASE ReplayTick
  BY <1>1, ReplayGoesKeeps DEF ReplayTick, Alive
<1>2. CASE HealthCheck \/ ListFails
  BY <1>2, ReplayGoesKeeps DEF HealthCheck, ListFails
<1>3. CASE ReplayExits
  BY <1>3, ReplayGoesKeeps DEF ReplayExits, Alive
<1>4. CASE DisableCache
  <2>1. /\ UNCHANGED <<pc, todo, submitted, answers, stored, cachedAt, expired, clock,
                       crashes, process>>
        /\ replay' = "wait" /\ listed' = <<>> /\ at' = 0
    BY <1>4 DEF DisableCache, ReplayAt, ReplayWaits, ByReplay, lifecycle, calls,
                cacheVars
  <2>2. ReplayInv' /\ EndedWaits'
    BY <2>1 DEF ReplayInv, ReplayListed, ReplayDeletesStored, EndedWaits, StoreInv
  <2>. QED
    BY <2>1, <2>2, NothingPending, QuietKeeps DEF StoreInv, Typed
<1>. QED
  BY <1>1, <1>2, <1>3, <1>4, ListCachedKeeps, ReplayWriteKeeps, ReplaySkipKeeps,
     ReplayDeleteKeeps DEF Replayer
-----------------------------------------------------------------------------
LEMMA StoreInit == Init => StoreInv /\ Promised!Init
<1>. SUFFICES ASSUME Init PROVE StoreInv /\ Promised!Init
  OBVIOUS
<1>1. Cached = {} /\ stored = {} /\ submitted = {} /\ acked = {} /\ refused = {}
      /\ expired = {} /\ replay = "wait" /\ process = "running"
      /\ \A w \in Writers : pc[w] = "idle" /\ todo[w] = <<>>
  BY DEF Init, LC!Init, LC!Files, Cached
<1>2. Typed
  BY NothingPending, CachingAssumption DEF Init, LC!Init, LC!NoFile, Typed
<1>3. CallsInv
  BY <1>1, NothingPending
  DEF CallsInv, CallsPending, PendingOnce, PendingNew, PendingApart, Pending
<1>4. KeptSubmitted /\ ReplayInv /\ EndedWaits /\ NoSilentLoss
  BY <1>1 DEF KeptSubmitted, ReplayInv, ReplayListed, ReplayDeletesStored, EndedWaits,
              Alive, NoSilentLoss
<1>5. Promised!Init
  BY <1>1 DEF Promised!Init
<1>. QED
  BY <1>2, <1>3, <1>4, <1>5 DEF StoreInv

LEMMA StoreStep == StoreInv /\ [Next]_vars => Promises
<1>. SUFFICES ASSUME StoreInv, [Next]_vars PROVE Promises
  OBVIOUS
<1>1. CASE UNCHANGED vars
  <2>1. /\ UNCHANGED <<pc, todo, submitted, answers, stored, cachedAt, expired, clock,
                       listed, at, crashes, process, replay, replayVars, Cached>>
    BY <1>1 DEF vars, lifecycle, calls, replayVars, cacheVars, Cached, LC!Files
  <2>2. ReplayInv' /\ EndedWaits'
    BY <2>1, ReplayUndisturbed DEF StoreInv, EndedWaits, Alive
  <2>. QED
    BY <2>1, <2>2, QuietKeeps DEF StoreInv, Typed
<1>2. CASE Next
  BY <1>2, WriteBatchKeeps, WriterKeeps, ReplayerKeeps, OthersKeep, CrashKeeps,
     RestartKeeps DEF Next
<1>. QED
  BY <1>1, <1>2

LEMMA StoreInvariant == Spec => []StoreInv
<1>1. Init => StoreInv
  BY StoreInit
<1>2. StoreInv /\ [Next]_vars => StoreInv'
  BY StoreStep DEF Promises
<1>. QED
  BY <1>1, <1>2, PTL DEF Spec

\* A reading whose WriteReading returned nil is in InfluxDB, in the cache, or was
\* given up for its age: cache.go's writes and replay, however they interleave
\* and wherever the process is killed.
THEOREM StorageLosesNothing == Spec => []NoSilentLoss
<1>1. StoreInv => NoSilentLoss
  BY DEF StoreInv
<1>. QED
  BY <1>1, StoreInvariant, PTL

\* replayCachedData deletes no file of a reading that InfluxDB does not have, and
\* none that a restart or another delete has taken away before.
THEOREM StorageReplaySafe == Spec => []ReplayDeletesStored
<1>1. StoreInv => ReplayDeletesStored
  BY DEF StoreInv, ReplayInv
<1>. QED
  BY <1>1, StoreInvariant, PTL

\* CachingStorage implements DurableStore: InfluxDB and the cache together keep
\* a reading in the step that acknowledges it, keep nothing of a call that
\* returns an error but what a failing disk kept, and give up only what a restart
\* finds too old.
THEOREM StorageImplements == Spec => ImplementsDurableStore
<1>1. Init => StoreInv /\ Promised!Init
  BY StoreInit
<1>2. StoreInv /\ [Next]_vars => StoreInv' /\ [Promised!Next]_(Promised!vars)
  BY StoreStep DEF Promises
<1>. QED
  BY <1>1, <1>2, PTL DEF Spec, ImplementsDurableStore, Promised!Spec

\* What follows for every implementation of DurableStore whose disk does not keep
\* what it fails to write: a reading whose write returned an error is nowhere, and
\* no other write of it was acknowledged.
RefusedIsNowhere == refused \cap (acked \cup stored \cup Cached) = {}

LEMMA PromiseStep ==
  ASSUME ~LC!MayFail({"write"}), RefusedIsNowhere, [Promised!Next]_(Promised!vars)
  PROVE  RefusedIsNowhere'
<1>1. CASE UNCHANGED Promised!vars
  BY <1>1 DEF Promised!vars, RefusedIsNowhere
<1>2. ASSUME NEW r \in Readings, Promised!Accept(r) PROVE RefusedIsNowhere'
  BY <1>2 DEF Promised!Accept, RefusedIsNowhere
<1>3. ASSUME NEW rs \in SUBSET Readings, NEW kept \in Promised!Remnants(rs),
             Promised!Refuse(rs, kept)
      PROVE  RefusedIsNowhere'
  BY <1>3 DEF Promised!Remnants, Promised!Refuse, RefusedIsNowhere
<1>4. ASSUME NEW rs \in SUBSET (stored \cup Cached), Promised!Expire(rs)
      PROVE  RefusedIsNowhere'
  BY <1>4 DEF Promised!Expire, RefusedIsNowhere
<1>. QED
  BY <1>1, <1>2, <1>3, <1>4 DEF Promised!Next

\* WriteReading and WriteBatch, where a disk write that fails leaves no complete
\* file behind: a caller that is told of an error may write the reading elsewhere,
\* since neither InfluxDB nor the cache has it or ever will.
THEOREM StorageRefusesCleanly ==
  ASSUME "write" \notin Faults PROVE Spec => []RefusedIsNowhere
<1>. ~LC!MayFail({"write"})
  BY DEF LC!MayFail
<1>1. Promised!Init => RefusedIsNowhere
  BY DEF Promised!Init, RefusedIsNowhere
<1>2. Promised!Spec => []RefusedIsNowhere
  BY <1>1, PromiseStep, PTL DEF Promised!Spec
<1>. QED
  BY <1>2, StorageImplements, PTL DEF ImplementsDurableStore
-----------------------------------------------------------------------------
\* InfluxDB has no cached reading but those whose file outlived their replay and
\* the one about to be deleted.
CachedNotStored ==
  \A r \in stored \cap Cached : r \in undeleted \/ (replay = "delete" /\ r = listed[at])

\* Steps that store nothing and write no file keep it, and so do the replay's where
\* it deletes nothing.
LEMMA OnceQuiet ==
  ASSUME CachedNotStored,
         stored' = stored, Cached' \subseteq Cached, undeleted \subseteq undeleted',
         UNCHANGED <<replay, listed, at>> \/ replay # "delete"
  PROVE  CachedNotStored'
BY DEF CachedNotStored

LEMMA OnceStep ==
  ASSUME StoreInv, CachedNotStored, [Next]_vars
  PROVE  CachedNotStored'
<1>1. CASE UNCHANGED vars \/ Close \/ CloseReturns \/ Environment
  <2>1. UNCHANGED <<stored, cachedAt, undeleted, replay, listed, at>>
    BY <1>1 DEF vars, Close, CloseReturns, Environment, InfluxDown, InfluxUp,
         BreakerWaits, FilesAge, ByEnvironment, ByOthers, LC!Elapse, replayVars, cacheVars
  <2>. QED
    BY <2>1, OnceQuiet DEF Cached, LC!Files
<1>2. ASSUME NEW w \in Writers, WriteBatch(w) \/ WriteFails(w) \/ EnableCache(w)
      PROVE  CachedNotStored'
  <2>1. UNCHANGED <<stored, cachedAt, undeleted, replay, listed, at>>
    BY <1>2 DEF WriteBatch, WriteFails, EnableCache, ByWriter, replayVars, cacheVars
  <2>. QED
    BY <2>1, OnceQuiet DEF Cached, LC!Files
<1>3. ASSUME NEW w \in Writers, WriteStores(w) \/ CacheReading(w) \/ CacheRefuses(w)
      PROVE  CachedNotStored'
  <2>1. Current(w) \in Readings /\ Current(w) \notin stored \cup Cached
    BY <1>3, CurrentPending DEF WriteStores, CacheReading, CacheRefuses, WriterAt
  <2>2. UNCHANGED <<replay, listed, at, undeleted>>
    BY <1>3 DEF WriteStores, CacheReading, CacheRefuses, ByWriter, replayVars
  <2>3. \/ stored' = stored \cup {Current(w)} /\ Cached' = Cached
        \/ stored' = stored /\ Cached' \subseteq Cached \cup {Current(w)}
    BY <1>3, <2>1 DEF WriteStores, CacheReading, CacheRefuses, cacheVars, LC!Write,
         LC!WriteRefused, LC!WriteFails, LC!LeavesPart, LC!LeavesWhole, LC!cacheVars,
         LC!Files, Cached, StoreInv, Typed
  <2>. QED
    BY <2>1, <2>2, <2>3 DEF CachedNotStored
<1>4. CASE ReplayWrite
  BY <1>4 DEF ReplayWrite, ReplayAt, CachedNotStored, cacheVars, Cached, LC!Files
<1>5. CASE ReplayDelete
  <2>1. /\ replay = "delete" /\ stored' = stored
        /\ \/ LC!DeleteCached(listed[at]) /\ undeleted' = undeleted \ {listed[at]}
           \/ LC!DeleteFails /\ undeleted' = undeleted \cup {listed[at]}
    BY <1>5 DEF ReplayDelete, ReplayAt, Advance
  <2>2. CASE LC!DeleteCached(listed[at]) /\ undeleted' = undeleted \ {listed[at]}
    <3>1. Cached' \subseteq Cached \ {listed[at]}
      BY <2>2 DEF LC!DeleteCached, LC!Files, Cached, StoreInv, Typed
    <3>. QED
      BY <2>1, <2>2, <3>1 DEF CachedNotStored
  <2>3. CASE LC!DeleteFails /\ undeleted' = undeleted \cup {listed[at]}
    <3>1. Cached' = Cached
      BY <2>3 DEF LC!DeleteFails, LC!cacheVars, LC!Files, Cached
    <3>. QED
      BY <2>1, <2>3, <3>1 DEF CachedNotStored
  <2>. QED
    BY <2>1, <2>2, <2>3
<1>6. CASE ReplayTick \/ HealthCheck \/ ReplayExits \/ ListCached \/ ListFails
           \/ ReplaySkip \/ DisableCache
  <2>1. UNCHANGED <<stored, cachedAt, undeleted>> /\ replay # "delete"
    BY <1>6 DEF ReplayTick, HealthCheck, ReplayExits, ReplayGoes, ListCached, ListFails,
         ReplaySkip, ReplayWriteFails, ReplayAt, Advance, DisableCache, cacheVars
  <2>. QED
    BY <2>1, OnceQuiet DEF Cached, LC!Files
<1>7. ASSUME NEW how, Dies(how), cachedAt' = cachedAt
      PROVE  CachedNotStored'
  <2>1. /\ stored' = stored /\ Cached' = Cached
        /\ undeleted' = undeleted \cup {r \in Cached : replay = "delete" /\ r = listed[at]}
    BY <1>7 DEF Dies, Cached, LC!Files
  <2>. QED
    BY <2>1 DEF CachedNotStored
<1>8. CASE Crash
  <2>1. Dies("crashed") /\ cachedAt' = cachedAt
    BY <1>8 DEF Crash, LC!Tear, cacheVars
  <2>. QED
    BY <1>7, <2>1
<1>9. ASSUME NEW w \in Writers, WritePanics(w) PROVE CachedNotStored'
  <2>1. Dies("panicked") /\ cachedAt' = cachedAt
    BY <1>9 DEF WritePanics, cacheVars
  <2>. QED
    BY <1>7, <2>1
<1>10. CASE Restart
  <2>1. PICK skipped \in LC!Skipped, torn \in LC!TornCounted, gone \in LC!Removable :
          LC!CleanupOld(gone, EntrySize * LC!Cardinality(LC!Files \ skipped) + torn)
    BY <1>10 DEF Restart, LC!NewLocalCache
  <2>2. /\ Cached' \subseteq Cached /\ stored' = stored /\ undeleted' = undeleted
        /\ replay # "delete"
    BY <1>10, <2>1 DEF LC!CleanupOld, LC!NoFile, LC!Files, Cached, StoreInv, Typed,
         Restart, Starts, EndedWaits
  <2>. QED
    BY <2>2, OnceQuiet
<1>. QED
  BY <1>1, <1>2, <1>3, <1>4, <1>5, <1>6, <1>8, <1>9, <1>10 DEF Next, Writer, Replayer

\* A reading reaches InfluxDB once: the replay writes none that a direct write or an
\* earlier replay wrote, but for one whose file that replay failed to delete or did
\* not live to.
THEOREM StorageWritesOnce == Spec => WrittenOnce
<1>1. Init => CachedNotStored
  BY DEF Init, LC!Init, LC!Files, Cached, CachedNotStored
<1>2. StoreInv /\ CachedNotStored /\ [Next]_vars => CachedNotStored'
  BY OnceStep
<1>3. StoreInv /\ CachedNotStored /\ [Next]_vars
        => [replay = "write" /\ replay' = "delete"
              => listed[at] \notin stored \/ listed[at] \in undeleted]_vars
  <2>. SUFFICES ASSUME StoreInv, CachedNotStored, replay = "write"
                PROVE  listed[at] \notin stored \/ listed[at] \in undeleted
    OBVIOUS
  <2>1. listed[at] \in Cached
    BY DEF StoreInv, Typed, ReplayInv, ReplayListed
  <2>. QED
    BY <2>1 DEF CachedNotStored
<1>. QED
  BY <1>1, <1>2, <1>3, StoreInvariant, PTL DEF Spec, WrittenOnce
-----------------------------------------------------------------------------
\* What is proved of the breaker and of the local cache is used here: of their
\* steps, CachingStorage takes no other but the new process's fresh breaker and
\* the file that a killed one leaves torn.  The breaker's histories play no part.
Breaker == INSTANCE CircuitBreaker_proofs WITH failRun <- 0, okRun <- 0
Cache   == INSTANCE LocalCache_proofs WITH Attempts <- Readings

LEMMA BreakerConstants == Breaker!BreakerAssumption
BY CachingAssumption DEF Breaker!BreakerAssumption

LEMMA CacheConstants == Cache!CacheAssumption
BY CachingAssumption
DEF Cache!CacheAssumption, Cache!FileOperations, LC!FileOperations, IsFiniteSet,
    Cache!IsFiniteSet

\* CachingStorage's breaker and cache are those the proofs are about.
LEMMA BreakerSame ==
  (CB!Success \/ CB!Failure \/ CB!Reject \/ CB!Tick) => Breaker!Next
BY DEF CB!Success, CB!HalfOpenSucceeds, CB!CallSucceeds, CB!Failure, CB!HalfOpenFails,
       CB!CallFails, CB!Counts, CB!Restarts, CB!Trips, CB!FallsThrough, CB!Entered,
       CB!Probing, CB!Reject, CB!Tick, CB!breakerVars, CB!Closed, CB!Open, CB!HalfOpen,
       Breaker!Next, Breaker!Success, Breaker!HalfOpenSucceeds, Breaker!CallSucceeds,
       Breaker!Failure, Breaker!HalfOpenFails, Breaker!CallFails, Breaker!Counts,
       Breaker!Restarts, Breaker!Trips, Breaker!FallsThrough, Breaker!Entered,
       Breaker!Probing, Breaker!Reject, Breaker!Tick, Breaker!breakerVars,
       Breaker!Closed, Breaker!Open, Breaker!HalfOpen

LEMMA CardinalitySame == \A S : Cache!Cardinality(S) = LC!Cardinality(S)
BY DEF LC!Cardinality, Cache!Cardinality

LEMMA CacheSame ==
  /\ \A r \in Readings : LC!Write(r) /\ r \notin Cached => Cache!Next
  /\ \A r \in Readings : LC!WriteFails(r) /\ r \notin Cached => Cache!Next
  /\ \A r \in Readings : LC!DeleteCached(r) => Cache!Next
  /\ LC!WriteRefused \/ LC!DeleteFails \/ LC!Elapse \/ LC!Tear => Cache!Next
  /\ LC!NewLocalCache => Cache!Next
<1>. USE DEF Cached, LC!HasRoom, LC!cacheVars, LC!Files, LC!NoFile, LC!MayFail,
             Cache!Next, Cache!HasRoom, Cache!cacheVars, Cache!Files, Cache!NoFile,
             Cache!MayFail
<1>1. ASSUME NEW r \in Readings, LC!Write(r), r \notin Cached PROVE Cache!Next
  BY <1>1 DEF LC!Write, Cache!Write
<1>2. ASSUME NEW r \in Readings, LC!WriteFails(r), r \notin Cached PROVE Cache!Next
  BY <1>2 DEF LC!WriteFails, LC!LeavesPart, LC!LeavesWhole, Cache!WriteFails,
              Cache!LeavesPart, Cache!LeavesWhole
<1>3. ASSUME NEW r \in Readings, LC!DeleteCached(r) PROVE Cache!Next
  BY <1>3 DEF LC!DeleteCached, Cache!DeleteCached
<1>4. LC!WriteRefused => Cache!Next
  BY DEF LC!WriteRefused, Cache!WriteRefused
<1>5. LC!DeleteFails => Cache!Next
  BY DEF LC!DeleteFails, Cache!DeleteFails
<1>6. LC!Elapse => Cache!Next
  BY DEF LC!Elapse, Cache!Elapse
<1>7. LC!Tear => Cache!Next
  BY DEF LC!Tear, Cache!Tear
<1>8. LC!NewLocalCache => Cache!NewLocalCache
  BY CardinalitySame
  DEF LC!NewLocalCache, LC!CleanupOld, LC!Removable, LC!Expired, LC!Skipped,
      LC!TornCounted, Cache!NewLocalCache, Cache!CleanupOld, Cache!Removable,
      Cache!Expired, Cache!Skipped, Cache!TornCounted
<1>. QED
  BY <1>1, <1>2, <1>3, <1>4, <1>5, <1>6, <1>7, <1>8

LEMMA BreakerStep ==
  ASSUME Breaker!BreakerInv, [Next]_vars
  PROVE  Breaker!BreakerInv'
<1>1. CASE Restart
  <2>1. /\ state' = "Closed" /\ failures' = 0 /\ halfOpenSuccesses' = 0
        /\ elapsed' = ResetTimeout + 1
    BY <1>1 DEF Restart, Starts, CB!Closed
  <2>. QED
    BY <2>1, CachingAssumption
    DEF Breaker!BreakerInv, Breaker!TypeOK, Breaker!AdmittingBelowThreshold,
        Breaker!HalfOpenUndecided, Breaker!States, Breaker!Closed, Breaker!Open,
        Breaker!HalfOpen
<1>2. CASE ~Restart
  <2>1. [Breaker!Next]_(Breaker!breakerVars)
    <3>1. CASE UNCHANGED breakerVars
      BY <3>1 DEF breakerVars, Breaker!breakerVars
    <3>2. CASE CB!Success \/ CB!Failure \/ CB!Reject \/ CB!Tick
      BY <3>2, BreakerSame
    <3>3. UNCHANGED breakerVars \/ CB!Success \/ CB!Failure \/ CB!Reject \/ CB!Tick
      BY <1>2
      DEF Next, WriteBatch, Writer, WriteStores, WriteFails, WritePanics, EnableCache,
          CacheReading, CacheRefuses, Replayer, ReplayTick, HealthCheck, ReplayExits,
          ReplayGoes, ListCached, ListFails, ReplayWrite, ReplaySkip, ReplayDelete,
          Advance, DisableCache, ByReplay, Close, CloseReturns, Crash, Dies, Environment, InfluxDown,
          InfluxUp, BreakerWaits, FilesAge, vars
    <3>. QED
      BY <3>1, <3>2, <3>3
  <2>. QED
    BY <2>1, BreakerConstants, Breaker!BreakerNext
<1>. QED
  BY <1>1, <1>2

\* Every step is one of the cache's, or leaves it alone.
LEMMA CacheMaps ==
  ASSUME StoreInv, [Next]_vars
  PROVE  [Cache!Next]_(Cache!cacheVars)
<1>. SUFFICES Cache!Next \/ UNCHANGED cacheVars
  BY DEF cacheVars, Cache!cacheVars
<1>1. CASE Crash
  BY <1>1, CacheSame DEF Crash
<1>2. CASE Restart
  BY <1>2, CacheSame DEF Restart
<1>3. ASSUME NEW w \in Writers, CacheReading(w) \/ CacheRefuses(w)
      PROVE  Cache!Next
  <2>1. Current(w) \in Readings /\ Current(w) \notin Cached
    BY <1>3, CurrentPending DEF CacheReading, CacheRefuses, WriterAt
  <2>2. LC!Write(Current(w)) \/ LC!WriteRefused \/ LC!WriteFails(Current(w))
    BY <1>3 DEF CacheReading, CacheRefuses
  <2>. QED
    BY <2>1, <2>2, CacheSame
<1>4. CASE ReplayDelete
  <2>1. LC!DeleteFails \/ \E r \in Readings : LC!DeleteCached(r)
    BY <1>4 DEF ReplayDelete, LC!DeleteCached, LC!Files
  <2>. QED
    BY <2>1, CacheSame
<1>5. CASE FilesAge
  BY <1>5, CacheSame DEF FilesAge
<1>6. CASE \/ UNCHANGED vars \/ Close \/ CloseReturns \/ InfluxDown \/ InfluxUp
           \/ BreakerWaits \/ ReplayTick \/ HealthCheck \/ ListCached \/ ListFails
           \/ ReplayWrite \/ ReplaySkip \/ DisableCache \/ ReplayExits
           \/ \E w \in Writers : \/ WriteBatch(w) \/ WriteStores(w) \/ WriteFails(w)
                                 \/ WritePanics(w) \/ EnableCache(w)
  BY <1>6
  DEF vars, Close, CloseReturns, InfluxDown, InfluxUp, BreakerWaits, ReplayTick,
      HealthCheck, ReplayGoes, ListCached, ListFails, ReplayWrite, ReplaySkip,
      DisableCache, ReplayExits, WriteBatch, WriteStores, WriteFails, WritePanics,
      EnableCache
<1>. QED
  BY <1>1, <1>2, <1>3, <1>4, <1>5, <1>6 DEF Next, Writer, Replayer, Environment

LEMMA CacheStep ==
  ASSUME StoreInv, Cache!CacheInv, [Next]_vars
  PROVE  Cache!CacheInv' /\ Cache!Bounded
BY CacheMaps, CacheConstants, Cache!CacheNext

\* The rest of TypeOK: flags, places and what the readings were handed over as.
Kinds ==
  /\ wired \in BOOLEAN /\ up \in BOOLEAN /\ cacheEnabled \in BOOLEAN
  /\ outages \in 0..MaxOutages
  /\ process \in {"running", "closing", "closed", "crashed", "panicked"}
  /\ submitted \subseteq Readings /\ expired \subseteq Readings
  /\ replay \in {"wait", "health", "list", "write", "delete", "disable", "exited"}

LEMMA KindsStep ==
  ASSUME Kinds, [Next]_vars
  PROVE  Kinds'
<1>1. CASE \E w \in Writers : WriteBatch(w) \/ Writer(w)
  <2>1. /\ UNCHANGED <<wired, up, outages, expired>>
        /\ process' = process \/ process' = "panicked"
        /\ cacheEnabled' = cacheEnabled \/ cacheEnabled' = TRUE
        /\ replay' = replay \/ replay' = "wait"
    BY <1>1
    DEF WriteBatch, Writer, WriteStores, WriteFails, WritePanics, EnableCache,
        CacheReading, CacheRefuses, ByWriter, Dies, ReplayWaits, influx, replayVars
  <2>2. submitted' \subseteq Readings
    <3>1. CASE \E w \in Writers : WriteBatch(w)
      <4>1. PICK batch \in Batches : submitted' = submitted \cup Range(batch)
        BY <3>1 DEF WriteBatch
      <4>2. Range(batch) \subseteq Readings
        BY DEF Batches, Range
      <4>. QED
        BY <4>1, <4>2 DEF Kinds
    <3>2. CASE \E w \in Writers : Writer(w)
      BY <3>2
      DEF Writer, WriteStores, WriteFails, WritePanics, EnableCache, CacheReading,
          CacheRefuses, Acknowledge, Refuse, WriterGoes, Dies, Kinds
    <3>. QED
      BY <1>1, <3>1, <3>2
  <2>. QED
    BY <2>1, <2>2 DEF Kinds
<1>2. CASE Replayer
  <2>1. /\ UNCHANGED <<wired, up, outages, process, submitted, expired>>
        /\ cacheEnabled' = cacheEnabled \/ cacheEnabled' = FALSE
    BY <1>2
    DEF Replayer, ReplayTick, HealthCheck, ReplayExits, ReplayGoes, ListCached,
        ListFails, ReplayWrite, ReplaySkip, ReplayDelete, Advance, DisableCache, ByReplay, influx,
        lifecycle, calls
  <2>2. replay' \in {"wait", "health", "list", "write", "delete", "disable", "exited"}
    BY <1>2
    DEF Replayer, ReplayTick, HealthCheck, ReplayExits, ReplayGoes, ListCached,
        ListFails, ReplayWrite, ReplaySkip, ReplayDelete, Advance, DisableCache, ReplayWaits
  <2>. QED
    BY <2>1, <2>2 DEF Kinds
<1>3. CASE Close \/ CloseReturns \/ Crash \/ Restart \/ UNCHANGED vars
  <2>1. /\ UNCHANGED <<wired, up, outages, submitted>>
        /\ cacheEnabled' = cacheEnabled \/ cacheEnabled' = FALSE
    BY <1>3
    DEF Close, CloseReturns, Crash, Dies, Restart, Starts, vars, ByOthers, influx,
        calls
  <2>2. /\ process' \in {process, "running", "closing", "closed", "crashed"}
        /\ replay' \in {replay, "wait"}
    BY <1>3
    DEF Close, CloseReturns, Crash, Dies, Restart, Starts, vars, ByOthers, ReplayWaits,
        lifecycle, replayVars
  <2>3. expired' \subseteq expired \cup Readings
    BY <1>3 DEF Close, CloseReturns, Crash, Dies, Restart, GivenUp, vars, Cached, LC!Files
  <2>. QED
    BY <2>1, <2>2, <2>3 DEF Kinds
<1>4. CASE Environment
  <2>1. /\ UNCHANGED <<wired, process, replay, submitted, expired, cacheEnabled>>
        /\ up' \in {up, TRUE, FALSE}
    BY <1>4
    DEF Environment, InfluxDown, InfluxUp, BreakerWaits, FilesAge, ByEnvironment,
        ByOthers, lifecycle, calls, replayVars
  <2>2. outages' \in 0..MaxOutages
    <3>1. outages' = outages \/ (outages < MaxOutages /\ outages' = outages + 1)
      BY <1>4 DEF Environment, InfluxDown, InfluxUp, BreakerWaits, FilesAge
    <3>2. outages \in 0..MaxOutages
      BY DEF Kinds
    <3>. QED
      BY <3>1, <3>2, CachingAssumption
  <2>. QED
    BY <2>1, <2>2 DEF Kinds
<1>. QED
  BY <1>1, <1>2, <1>3, <1>4 DEF Next

\* The replay leaves files undeleted of readings only.
UndeletedTyped == undeleted \subseteq Readings

LEMMA UndeletedStep ==
  ASSUME StoreInv, UndeletedTyped, [Next]_vars
  PROVE  UndeletedTyped'
<1>1. undeleted' \subseteq undeleted \cup Readings
  <2>1. CASE ReplayDelete
    <3>1. listed[at] \in Readings
      BY <2>1 DEF ReplayDelete, ReplayAt, StoreInv, Typed, ReplayInv, ReplayListed, Cached,
                  LC!Files
    <3>. QED
      BY <2>1, <3>1 DEF ReplayDelete
  <2>2. CASE Crash \/ \E w \in Writers : WritePanics(w)
    BY <2>2 DEF Crash, WritePanics, Dies, Cached, LC!Files
  <2>3. CASE Replayer /\ ~ReplayDelete
    BY <2>3 DEF Replayer, ReplayTick, HealthCheck, ReplayExits, ReplayGoes, ListCached,
         ListFails, ReplayWrite, ReplaySkip, DisableCache
  <2>4. CASE \E w \in Writers : WriteBatch(w) \/ (Writer(w) /\ ~WritePanics(w))
    BY <2>4 DEF WriteBatch, Writer, WriteStores, WriteFails, EnableCache, CacheReading,
         CacheRefuses, ByWriter
  <2>5. CASE Close \/ CloseReturns \/ Restart \/ Environment \/ UNCHANGED vars
    BY <2>5 DEF Close, CloseReturns, Restart, Starts, Environment, InfluxDown, InfluxUp,
         BreakerWaits, FilesAge, ByEnvironment, ByOthers, vars
  <2>. QED
    BY <2>1, <2>2, <2>3, <2>4, <2>5 DEF Next
<1>. QED
  BY <1>1 DEF UndeletedTyped

LEMMA UndeletedInvariant == Spec => []UndeletedTyped
<1>1. Init => UndeletedTyped
  BY DEF Init, UndeletedTyped
<1>2. StoreInv /\ UndeletedTyped /\ [Next]_vars => UndeletedTyped'
  BY UndeletedStep
<1>. QED
  BY <1>1, <1>2, StoreInvariant, PTL DEF Spec

LEMMA PartsInit == Init => Kinds /\ Breaker!BreakerInv /\ Cache!CacheInv
<1>. SUFFICES ASSUME Init PROVE Kinds /\ Breaker!BreakerInv /\ Cache!CacheInv
  OBVIOUS
<1>1. Kinds
  <2>1. wired \in BOOLEAN /\ up \in BOOLEAN /\ cacheEnabled \in BOOLEAN
    BY CachingAssumption, Zenon DEF Init
  <2>2. outages \in 0..MaxOutages
    <3>1. outages = 0
      BY DEF Init
    <3>. QED
      BY <3>1, CachingAssumption
  <2>. QED
    BY <2>1, <2>2 DEF Init, Kinds
<1>2. Breaker!BreakerInv
  <2>1. Breaker!Init
    BY DEF Init, CB!Init, CB!Closed, Breaker!Init, Breaker!Closed
  <2>. QED
    BY <2>1, BreakerConstants, Breaker!BreakerInit
<1>3. Cache!CacheInv
  <2>1. Cache!Init
    BY DEF Init, LC!Init, LC!NoFile, Cache!Init, Cache!NoFile
  <2>. QED
    BY <2>1, CacheConstants, Cache!CacheInit
<1>. QED
  BY <1>1, <1>2, <1>3

LEMMA PartsInvariant ==
  Spec => [](StoreInv /\ Kinds /\ Breaker!BreakerInv /\ Cache!CacheInv)
<1>1. Init => StoreInv /\ Kinds /\ Breaker!BreakerInv /\ Cache!CacheInv
  BY StoreInit, PartsInit
<1>2. StoreInv /\ Kinds /\ Breaker!BreakerInv /\ Cache!CacheInv /\ [Next]_vars
        => (StoreInv /\ Kinds /\ Breaker!BreakerInv /\ Cache!CacheInv)'
  BY StoreStep, KindsStep, BreakerStep, CacheStep DEF Promises
<1>. QED
  BY <1>1, <1>2, PTL DEF Spec

\* cache.go: the state keeps its types and bounds, the breaker's counters and the
\* cache's running total among them, through crashes and restarts.
THEOREM StorageTyped == Spec => []TypeOK
<1>1. StoreInv /\ Kinds /\ UndeletedTyped /\ Breaker!BreakerInv /\ Cache!CacheInv
        => TypeOK
  <2>. SUFFICES ASSUME StoreInv, Kinds, UndeletedTyped, Breaker!BreakerInv,
                       Cache!CacheInv
                PROVE  TypeOK
    OBVIOUS
  <2>1. CB!TypeOK
    BY DEF Breaker!BreakerInv, Breaker!TypeOK, Breaker!States, Breaker!Closed,
           Breaker!Open, Breaker!HalfOpen, CB!TypeOK, CB!States, CB!Closed, CB!Open,
           CB!HalfOpen
  <2>2. LC!TypeOK
    BY DEF Cache!CacheInv, Cache!TypeOK, LC!TypeOK
  <2>3. stored \subseteq Readings /\ acked \subseteq Readings /\ refused \subseteq Readings
    BY DEF StoreInv, KeptSubmitted, Kinds
  <2>. QED
    BY <2>1, <2>2, <2>3 DEF StoreInv, Typed, Kinds, UndeletedTyped, TypeOK
<1>. QED
  BY <1>1, PartsInvariant, UndeletedInvariant, PTL

\* cache.go keeps what its parts promise while writers, replay and crashes
\* interleave and file operations fail: no breaker, a restarted one included, lets
\* calls through with a count that should have tripped it; the cache's running
\* total drifts by no more than what was never counted; and no write takes the
\* cache further past its size limit than that and one file.
THEOREM StorageKeepsParts ==
  Spec => /\ [](CB!AdmittingBelowThreshold /\ LC!SizeAccounted)
          /\ LC!CacheBounded
<1>1. Breaker!BreakerInv => CB!AdmittingBelowThreshold
  BY DEF Breaker!BreakerInv, Breaker!AdmittingBelowThreshold, Breaker!Open,
         CB!AdmittingBelowThreshold, CB!Open
<1>2. Cache!CacheInv => LC!SizeAccounted
  BY CardinalitySame
  DEF Cache!CacheInv, Cache!SizeAccounted, Cache!DirectorySize, Cache!MayFail,
      Cache!Files, Cache!NoFile, LC!SizeAccounted, LC!DirectorySize, LC!MayFail,
      LC!Files, LC!NoFile
<1>3. StoreInv /\ Cache!CacheInv /\ [Next]_vars
        => [LC!Cardinality(LC!Files') > LC!Cardinality(LC!Files) =>
              EntrySize * LC!Cardinality(LC!Files')
                < MaxSize + EntrySize + uncounted']_(LC!cacheVars)
  <2>. SUFFICES ASSUME StoreInv, Cache!CacheInv, [Next]_vars,
                       LC!Cardinality(LC!Files') > LC!Cardinality(LC!Files)
                PROVE  EntrySize * LC!Cardinality(LC!Files')
                         < MaxSize + EntrySize + uncounted'
    OBVIOUS
  <2>1. Cache!Bounded
    BY CacheStep
  <2>2. LC!Files = Cache!Files /\ LC!Files' = Cache!Files'
    BY DEF LC!Files, LC!NoFile, Cache!Files, Cache!NoFile
  <2>. QED
    BY <2>1, <2>2, CardinalitySame DEF Cache!Bounded
<1>. QED
  BY <1>1, <1>2, <1>3, PartsInvariant, PTL DEF Spec, LC!CacheBounded
=============================================================================
