--------------------------- MODULE CachingStorage ---------------------------
(***************************************************************************)
(* storage/cache.go: CachingStorage, the storage the program writes to.    *)
(* It writes to InfluxDB through a circuit breaker; a reading whose write  *)
(* fails goes to the local cache; a background goroutine looks every       *)
(* healthCheckInterval whether InfluxDB is back, replays what is cached    *)
(* and turns the cache off.  CircuitBreaker and LocalCache are the modules *)
(* of those parts; their mutexes make each of their operations one step.   *)
(*                                                                         *)
(* The actors are the goroutines that call WriteReading or WriteBatch      *)
(* (Writers), the replay goroutine, InfluxDB going away and coming back,   *)
(* time, and the process, which is closed, killed and started again.       *)
(* cacheMutex is held for single reads and writes of cacheEnabled, so the  *)
(* writers and the replay goroutine interleave everywhere else.            *)
(*                                                                         *)
(* The wrapped interfaces.TimeSeriesStorage either stores a reading or     *)
(* returns an error, as CachingStorage takes it to and the mocks of        *)
(* storage/cache_test.go do; the module InfluxDBStorage shows that the     *)
(* real one answers before it knows.  Alerts change no state of this       *)
(* component: the time they take is that between two steps.                *)
(***************************************************************************)
EXTENDS Integers, Sequences, FiniteSets, Functions

CONSTANTS
  Writers,       \* goroutines that write
  Readings,      \* readings, each handed over once
  Invalid,       \* those the wrapped storage rejects whatever its health
  MaxBatch,      \* bound of this model: readings of one WriteBatch
  MaxOutages,    \* bound of this model: times InfluxDB goes away
  MaxCrashes,    \* bound of this model: times the process is killed
  Wirings,       \* {FALSE}: cs.cb is nil, as main leaves it; {TRUE}: it is set
  FailureThreshold, ResetTimeout, HalfOpenSuccessThreshold,  \* CircuitBreaker
  EntrySize, MaxSize, MaxAge, MaxClock, Faults               \* LocalCache

VARIABLES
  wired,         \* cs.cb is set
  up,            \* InfluxDB answers
  outages,       \* times it went away
  stored,        \* readings InfluxDB has
  process,       \* running, closing, closed, crashed or panicked
  crashes,       \* times the process was killed
  pc,            \* where each writer is in WriteReading
  todo,          \* rest of each writer's batch, the current reading first
  submitted,     \* readings handed to a call
  acked,         \* readings whose WriteReading returned nil
  refused,       \* readings whose WriteReading, or batch, returned an error
  cacheEnabled,  \* cs.cacheEnabled
  replay,        \* where monitorAndReplay is
  listed,        \* its slice of cached readings
  at,            \* index of the one it is at
  expired,       \* readings only the cache had and the age limit removed
  undeleted,     \* history: replayed readings whose file was not deleted then
  state, failures, halfOpenSuccesses, elapsed,   \* CircuitBreaker
  cachedAt, currentSize, tornBytes, uncounted, clock   \* LocalCache

CB == INSTANCE CircuitBreaker
LC == INSTANCE LocalCache WITH Attempts <- Readings

ASSUME CachingAssumption ==
  /\ IsFiniteSet(Readings)
  /\ Invalid \subseteq Readings
  /\ MaxBatch \in Nat \ {0}
  /\ MaxOutages \in Nat
  /\ MaxCrashes \in Nat
  /\ Wirings \subseteq BOOLEAN
  /\ FailureThreshold \in Nat \ {0}
  /\ ResetTimeout \in Nat
  /\ HalfOpenSuccessThreshold \in Nat \ {0}
  /\ EntrySize \in Nat \ {0}
  /\ MaxSize \in Nat \ {0}
  /\ MaxAge \in Nat
  /\ MaxClock \in Nat
  /\ Faults \subseteq LC!FileOperations

influx      == <<wired, up, outages>>
lifecycle   == <<process, crashes>>
calls       == <<pc, todo, submitted>>
answers     == <<acked, refused>>
replayVars  == <<replay, listed, at>>
breakerVars == <<state, failures, halfOpenSuccesses, elapsed>>
cacheVars   == <<cachedAt, currentSize, tornBytes, uncounted, clock>>
vars == <<influx, stored, lifecycle, calls, answers, cacheEnabled, replayVars,
          expired, undeleted, breakerVars, cacheVars>>

\* The readings in the cache.
Cached == LC!Files

Init ==
  /\ wired \in Wirings
  /\ up = TRUE
  /\ outages = 0
  /\ stored = {}
  /\ process = "running"
  /\ crashes = 0
  /\ pc = [w \in Writers |-> "idle"]
  /\ todo = [w \in Writers |-> <<>>]
  /\ submitted = {}
  /\ acked = {}
  /\ refused = {}
  /\ cacheEnabled = FALSE
  /\ replay = "wait"
  /\ listed = <<>>
  /\ at = 0
  /\ expired = {}
  /\ undeleted = {}
  /\ CB!Init
  /\ LC!Init
-----------------------------------------------------------------------------
\* The process executes, its goroutines included.
Alive == process \in {"running", "closing"}

\* A writer and the replay goroutine are at a step of theirs; what their steps
\* leave alone, and those of InfluxDB, of the process and of time.
WriterAt(w, step) == Alive /\ pc[w] = step
ReplayAt(step)    == Alive /\ replay = step
ByWriter  == UNCHANGED <<influx, crashes, replayVars, expired, undeleted>>
ByReplay  == UNCHANGED <<influx, lifecycle, calls, answers, expired, breakerVars>>
ByOthers  == UNCHANGED <<stored, calls, answers, cacheEnabled, replayVars, undeleted>>

\* The reading a writer is at, and what the wrapped storage answers to one.
Current(w) == Head(todo[w])
Accepts(r) == up /\ r \notin Invalid

\* WriteReading returns nil: the writer goes on with its batch, ...
Acknowledge(w) ==
  /\ acked' = acked \cup {Current(w)}
  /\ todo' = [todo EXCEPT ![w] = Tail(@)]
  /\ pc' = [pc EXCEPT ![w] = IF Len(todo[w]) = 1 THEN "idle" ELSE "write"]
  /\ UNCHANGED <<refused, submitted>>

\* ... and it returns an error: WriteBatch gives up the rest as well.
Refuse(w) ==
  /\ refused' = refused \cup Range(todo[w])
  /\ todo' = [todo EXCEPT ![w] = <<>>]
  /\ pc' = [pc EXCEPT ![w] = "idle"]
  /\ UNCHANGED <<acked, submitted>>

\* The writer goes on to another step of WriteReading.
WriterGoes(w, step) ==
  pc' = [pc EXCEPT ![w] = step] /\ UNCHANGED <<todo, submitted, answers>>

\* The batches a caller may hand over: readings not handed over before.
Batches ==
  {b \in UNION {[1..n -> Readings \ submitted] : n \in 1..MaxBatch} : IsInjective(b)}

\* WriteReading is called (a batch of one), or WriteBatch.
WriteBatch(w) ==
  /\ process = "running" /\ pc[w] = "idle"
  /\ \E batch \in Batches :
       /\ todo' = [todo EXCEPT ![w] = batch]
       /\ submitted' = submitted \cup Range(batch)
  /\ pc' = [pc EXCEPT ![w] = "write"]
  /\ ByWriter
  /\ UNCHANGED <<stored, process, answers, cacheEnabled, breakerVars, cacheVars>>

\* WriteReading, the write to InfluxDB: it succeeds, ...
WriteStores(w) ==
  /\ WriterAt(w, "write") /\ wired
  /\ Accepts(Current(w))
  /\ CB!Success
  /\ stored' = stored \cup {Current(w)}
  /\ Acknowledge(w)
  /\ ByWriter /\ UNCHANGED <<process, cacheEnabled, cacheVars>>

\* ... it fails, or the breaker refuses it, ...
WriteFails(w) ==
  /\ WriterAt(w, "write") /\ wired
  /\ CB!Reject \/ (~Accepts(Current(w)) /\ CB!Failure)
  /\ WriterGoes(w, "failed")
  /\ ByWriter /\ UNCHANGED <<stored, process, cacheEnabled, cacheVars>>

\* The slice is gone, and the goroutine is at its select.
ReplayWaits == replay' = "wait" /\ listed' = <<>> /\ at' = 0

\* The process dies, and its goroutines with it, the replay maybe between a write
\* and the deletion of its file.
Dies(how) ==
  /\ process' = how
  /\ pc' = [w \in Writers |-> "idle"]
  /\ todo' = [w \in Writers |-> <<>>]
  /\ ReplayWaits
  /\ undeleted' = undeleted \cup {r \in Cached : replay = "delete" /\ r = listed[at]}
  /\ UNCHANGED <<influx, stored, submitted, answers, cacheEnabled, expired,
                 breakerVars>>

\* ... or, the breaker being nil as NewCachingStorage leaves it, cs.cb.Execute
\* dereferences it and the process dies.
WritePanics(w) ==
  /\ WriterAt(w, "write") /\ ~wired
  /\ Dies("panicked")
  /\ UNCHANGED <<crashes, cacheVars>>

\* The cache is turned on, under cacheMutex; the writer that turns it on sends
\* an alert before it goes on, for up to five seconds.
EnableCache(w) ==
  /\ WriterAt(w, "failed")
  /\ cacheEnabled' = TRUE
  /\ WriterGoes(w, "cache")
  /\ ByWriter /\ UNCHANGED <<stored, process, breakerVars, cacheVars>>

\* Mutant: a reading the cache has no room for is acknowledged all the same.
CacheReadingAnyway(w) ==
  /\ WriterAt(w, "cache")
  /\ LC!Write(Current(w)) \/ LC!WriteRefused
  /\ Acknowledge(w)
  /\ ByWriter /\ UNCHANGED <<stored, process, cacheEnabled, breakerVars>>

\* The reading goes to the cache, and the call returns nil, ...
CacheReading(w) ==
  /\ WriterAt(w, "cache")
  /\ LC!Write(Current(w))
  /\ Acknowledge(w)
  /\ ByWriter /\ UNCHANGED <<stored, process, cacheEnabled, breakerVars>>

\* Mutant: a writer waits for room in a full cache.
CacheRefusesWaits(w) ==
  /\ WriterAt(w, "cache")
  /\ LC!WriteFails(Current(w))
  /\ Refuse(w)
  /\ ByWriter /\ UNCHANGED <<stored, process, cacheEnabled, breakerVars>>

\* ... or the cache is full or cannot be written: the call returns an error,
\* also where the file that could not be written is there all the same.
CacheRefuses(w) ==
  /\ WriterAt(w, "cache")
  /\ LC!WriteRefused \/ LC!WriteFails(Current(w))
  /\ Refuse(w)
  /\ ByWriter /\ UNCHANGED <<stored, process, cacheEnabled, breakerVars>>
-----------------------------------------------------------------------------
\* The replay goroutine goes from one step to another and does no more.
ReplayGoes(from, to) ==
  /\ replay = from /\ replay' = to
  /\ ByReplay /\ UNCHANGED <<stored, cacheEnabled, listed, at, undeleted, cacheVars>>

\* monitorAndReplay's ticker fires while the cache is on.
ReplayTick == process = "running" /\ cacheEnabled /\ ReplayGoes("wait", "health")

\* The health check; one under a cancelled context may fail at any time.
HealthCheck ==
  /\ Alive
  /\ \/ up /\ ReplayGoes("health", "list")
     \/ (~up \/ process = "closing") /\ ReplayGoes("health", "wait")

\* ListCachedReadings: the cached readings, oldest first, less those whose file
\* cannot be read.
Readable == IF LC!MayFail({"read"}) THEN SUBSET Cached ELSE {Cached}

InOrder(rs) ==
  {s \in [1..Cardinality(rs) -> rs] :
     \A i, j \in DOMAIN s : i < j => cachedAt[s[i]] < cachedAt[s[j]]}

\* replayCachedData starts; with nothing to replay it returns at once.
ListCached ==
  /\ ReplayAt("list")
  /\ \E rs \in Readable : listed' \in InOrder(rs)
  /\ at' = 1
  /\ replay' = IF listed' = <<>> THEN "disable" ELSE "write"
  /\ ByReplay /\ UNCHANGED <<stored, cacheEnabled, undeleted, cacheVars>>

\* The directory cannot be listed: the cache stays on, until the next tick.
ListFails == Alive /\ LC!MayFail({"glob"}) /\ ReplayGoes("list", "wait")

\* The loop over the listed readings goes on to the next one, or ends.
Advance ==
  /\ at' = at + 1
  /\ replay' = IF at < Len(listed) THEN "write" ELSE "disable"
  /\ ByReplay /\ UNCHANGED <<stored, cacheEnabled, listed>>

\* Mutant: the outcome of the write is not looked at.
ReplayWriteUnchecked ==
  /\ ReplayAt("write")
  /\ stored' = stored \cup {r \in {listed[at]} : Accepts(r)}
  /\ replay' = "delete"
  /\ ByReplay /\ UNCHANGED <<cacheEnabled, listed, at, undeleted, cacheVars>>

\* A listed reading is written to InfluxDB, past the breaker.
ReplayWrite ==
  /\ ReplayAt("write") /\ Accepts(listed[at])
  /\ stored' = stored \cup {listed[at]}
  /\ replay' = "delete"
  /\ ByReplay /\ UNCHANGED <<cacheEnabled, listed, at, undeleted, cacheVars>>

\* A write may fail for the reading, for InfluxDB, or for the cancelled context.
ReplayWriteFails == ReplayAt("write") /\ (~Accepts(listed[at]) \/ process = "closing")

\* Mutant: the first reading that cannot be written ends the replay.
ReplaySkipGivesUp == ReplayWriteFails /\ ReplayGoes("write", "disable")

\* Mutant: a reading that cannot be written is tried again.
ReplaySkipRetries == ReplayWriteFails /\ UNCHANGED vars

\* Then the reading stays cached and the loop goes on.
ReplaySkip == ReplayWriteFails /\ Advance /\ UNCHANGED <<undeleted, cacheVars>>

\* Mutant: a replayed reading's file is left in the cache.
ReplayKeeps ==
  ReplayAt("delete") /\ Advance /\ UNCHANGED <<undeleted, cacheVars>>

\* The replayed reading's file is deleted; a failure to is only logged.
ReplayDelete ==
  /\ ReplayAt("delete")
  /\ \/ LC!DeleteCached(listed[at]) /\ undeleted' = undeleted \ {listed[at]}
     \/ LC!DeleteFails /\ undeleted' = undeleted \cup {listed[at]}
  /\ Advance

\* replayCachedData has returned nil, as it does even if readings failed: the
\* cache is turned off.
DisableCache ==
  /\ ReplayAt("disable")
  /\ cacheEnabled' = FALSE
  /\ ReplayWaits
  /\ ByReplay /\ UNCHANGED <<stored, undeleted, cacheVars>>
-----------------------------------------------------------------------------
\* Close is called, by a caller whose writes have returned: it cancels the
\* context, ...
Close ==
  /\ process = "running"
  /\ \A w \in Writers : pc[w] = "idle"
  /\ process' = "closing"
  /\ ByOthers /\ UNCHANGED <<influx, crashes, expired, breakerVars, cacheVars>>

\* Mutant: the context is looked at only while the cache is off.
ReplayExitsWhenOff ==
  process = "closing" /\ ~cacheEnabled /\ ReplayGoes("wait", "exited")

\* ... the replay goroutine sees that at its next select and ends, ...
ReplayExits == process = "closing" /\ ReplayGoes("wait", "exited")

\* ... and Close, which waited for it, returns.
CloseReturns ==
  /\ process = "closing" /\ replay = "exited"
  /\ process' = "closed"
  /\ ByOthers /\ UNCHANGED <<influx, crashes, expired, breakerVars, cacheVars>>

\* The process is killed: a cache file that was being written may be torn.  One
\* that is complete is CacheReading and then Crash.
Crash ==
  /\ Alive /\ crashes < MaxCrashes
  /\ Dies("crashed")
  /\ crashes' = crashes + 1
  /\ UNCHANGED cacheVars \/ (LC!Tear /\ \E w \in Writers : pc[w] = "cache")

\* What is new in a process that starts after another ended, besides the cache:
\* it comes up only if InfluxDB is healthy, with a new breaker, a new replay
\* goroutine and the cache turned off.
Starts ==
  /\ ~Alive /\ up
  /\ process' = "running"
  /\ cacheEnabled' = FALSE
  /\ state' = CB!Closed /\ failures' = 0 /\ halfOpenSuccesses' = 0
  /\ elapsed' = ResetTimeout + 1
  /\ ReplayWaits
  /\ UNCHANGED <<influx, stored, crashes, calls, answers, undeleted>>

\* The readings only the cache has that are past their age and are removed.
GivenUp == {r \in Cached \ stored : LC!Expired(r) /\ cachedAt'[r] = LC!NoFile}

\* Mutant: a new process deletes what it finds in the cache directory.
RestartEmpties ==
  /\ Starts
  /\ LC!CleanupOld(Cached, LC!DirectorySize)
  /\ uncounted' = 0
  /\ expired' = expired \cup GivenUp

\* main starts again; it counts and cleans the cache directory.
Restart ==
  /\ Starts
  /\ LC!NewLocalCache
  /\ expired' = expired \cup GivenUp
-----------------------------------------------------------------------------
\* What the environment leaves alone.
ByEnvironment == ByOthers /\ UNCHANGED <<lifecycle, wired, expired>>

\* InfluxDB goes away and comes back.
InfluxDown ==
  /\ up /\ outages < MaxOutages
  /\ up' = FALSE
  /\ outages' = outages + 1
  /\ ByEnvironment /\ UNCHANGED <<breakerVars, cacheVars>>

InfluxUp ==
  /\ ~up
  /\ up' = TRUE
  /\ ByEnvironment /\ UNCHANGED <<outages, breakerVars, cacheVars>>

\* Time passes for the breaker, and for the files' age.
BreakerWaits ==
  Alive /\ CB!Tick /\ ByEnvironment /\ UNCHANGED <<up, outages, cacheVars>>

FilesAge ==
  LC!Elapse /\ ByEnvironment /\ UNCHANGED <<up, outages, breakerVars>>

\* The steps of a call of WriteReading, after it was made.
Writer(w) ==
  WriteStores(w) \/ WriteFails(w) \/ WritePanics(w) \/ EnableCache(w)
    \/ CacheReading(w) \/ CacheRefuses(w)

\* The steps of the replay goroutine.
Replayer ==
  ReplayTick \/ HealthCheck \/ ListCached \/ ListFails \/ ReplayWrite
    \/ ReplaySkip \/ ReplayDelete \/ DisableCache \/ ReplayExits

Environment == InfluxDown \/ InfluxUp \/ BreakerWaits \/ FilesAge

Next ==
  \/ \E w \in Writers : WriteBatch(w) \/ Writer(w)
  \/ Replayer
  \/ Close \/ CloseReturns \/ Crash \/ Restart
  \/ Environment

Spec == Init /\ [][Next]_vars

\* Goroutines run, the ticker ticks and InfluxDB is repaired; nothing says that
\* a caller writes, that Close is called or that the process is started again.
FairSpec ==
  /\ Spec
  /\ \A w \in Writers : WF_vars(Writer(w))
  /\ WF_vars(Replayer)
  /\ WF_vars(CloseReturns)
  /\ WF_vars(InfluxUp)
-----------------------------------------------------------------------------
TypeOK ==
  /\ wired \in BOOLEAN
  /\ up \in BOOLEAN
  /\ outages \in 0..MaxOutages
  /\ stored \subseteq Readings
  /\ process \in {"running", "closing", "closed", "crashed", "panicked"}
  /\ crashes \in 0..MaxCrashes
  /\ pc \in [Writers -> {"idle", "write", "failed", "cache"}]
  /\ todo \in [Writers -> Seq(Readings)]
  /\ submitted \subseteq Readings
  /\ acked \subseteq Readings
  /\ refused \subseteq Readings
  /\ cacheEnabled \in BOOLEAN
  /\ replay \in {"wait", "health", "list", "write", "delete", "disable", "exited"}
  /\ listed \in Seq(Readings)
  /\ at \in Nat
  /\ expired \subseteq Readings
  /\ undeleted \subseteq Readings
  /\ CB!TypeOK
  /\ LC!TypeOK

\* A reading whose WriteReading returned nil is in InfluxDB or in the cache,
\* unless a restart found its file past maxAge: through outages, refusals of
\* the breaker, replays cut short, failing disks and crashes.
NoSilentLoss == acked \subseteq stored \cup Cached \cup expired

\* The replay loop works on readings that are still cached: it never deletes
\* the file of a reading InfluxDB does not have.
ReplayDeletesStored ==
  replay = "delete" => listed[at] \in stored \cap Cached

\* CachingStorage keeps what DurableStore promises: InfluxDB and the cache
\* together are the durable store, a write error of the disk is what may leave a
\* reading behind that was refused, and maxAge is what may give one up.
Promised == INSTANCE DurableStore
              WITH durable <- stored \cup Cached,
                   tooOld <- {r \in Cached : LC!Expired(r)},
                   Faulty <- LC!MayFail({"write"})
ImplementsDurableStore == Promised!Spec

\* A reading reaches InfluxDB once: it is replayed only if its direct write failed
\* and no replay wrote it before, but for one that could not delete the file or
\* died before it did.
WrittenOnce ==
  [][replay = "write" /\ replay' = "delete"
       => listed[at] \notin stored \/ listed[at] \in undeleted]_vars

\* Every call returns, whatever InfluxDB and the disk do: a refusal of the breaker,
\* a full cache and a failed write of the cache each end it.
CallsReturn == \A w \in Writers : pc[w] # "idle" ~> pc[w] = "idle"

\* The cache is turned off again once InfluxDB is back: the replay goroutine
\* does not get stuck on a reading that cannot be written, or whose file cannot be
\* read or deleted.
CacheModeEnds == cacheEnabled ~> ~cacheEnabled \/ process # "running"

\* A reading the replay has listed reaches InfluxDB if InfluxDB stays up.
ListedReachInflux ==
  \A r \in Readings \ Invalid :
    replay = "write" /\ r \in Cached /\ (\E i \in at..Len(listed) : listed[i] = r)
      ~> r \in stored \/ ~up \/ process # "running"

\* Close returns: the replay goroutine notices the cancelled context.
CloseEnds == process = "closing" ~> process = "closed"
-----------------------------------------------------------------------------
\* storage/cache.go:89 says writes go to InfluxDB and fall back to the cache.
WritesFallBack == process # "panicked"

\* README.md and the recovery alert (cache.go:591) say that cached data is
\* replayed when InfluxDB recovers; InfluxUp is fair, so it does recover.
CachedIsReplayed ==
  \A r \in Readings : r \in Cached ~> r \notin Cached \/ process # "running"

\* The same for what a killed process left in the cache directory.
LeftoversReplayed ==
  \A r \in Readings : r \in Cached /\ crashes > 0 /\ process = "running"
                        ~> r \notin Cached \/ process # "running"

\* storage/cache.go:31-32 puts recovery after the replay of the cached readings:
\* the cache is not turned off over a reading that was to be replayed.
RecoveredAfterReplay ==
  [][replay = "disable" /\ replay' = "wait"
       => \A i \in DOMAIN listed : listed[i] \notin Cached]_vars

\* README.md says that the oldest entries are deleted when the cache is full;
\* a disk without faults then refuses no reading.
FullCacheMakesRoom == refused = {}

\* storage/cache.go:31 says that cached readings are replayed in order.
ReplayedInOrder ==
  [][replay = "write" /\ replay' = "delete" =>
       \A r \in Cached : cachedAt[r] < cachedAt[listed[at]] => r \in stored]_vars
=============================================================================
