# A TLA+ model of matter-data-logger

The program discovers Matter power meters by mDNS, reads each of them at an
interval, and writes the readings to InfluxDB, with a file cache meant to bridge
the times InfluxDB is away. These modules model the parts of it that several
goroutines, a failing database, a failing disk or a killed process act on at
once. TLC checks them on small instances; every safety property that the runs
check is also proved, for every value of the constants, with TLAPS.

Paths such as `storage/cache.go:421` are under `src/`. Every definition that
models code is listed with its source lines in `PROJECT.json` ("map").

## 1. The system

```
 mDNS --> discovery.Scanner --Discover--> main loop --StartMonitoringDevice--+
 SIGHUP --> config.Watcher --> config goroutine --UpdatePollInterval------+  |
                                                                          v  v
 SIGTERM --> signal goroutine --Stop----------------------->  monitoring.PowerMonitor
                 |                                            (one goroutine a device)
                 +--cancel--> main loop, data writer,                |
                              config goroutine                readings channel
                                                                     v
                                          storage.CachingStorage <-- data writer
                                 CircuitBreaker |   | LocalCache + replay goroutine
                                                v
                                      storage.InfluxDBStorage --> InfluxDB client
```

| component | source | state | operations | what is hard |
|---|---|---|---|---|
| Circuit breaker | `storage/circuit_breaker.go` | state, failures, half-open successes, time of the last change, under one mutex held across the protected call | `Execute` | two counters that outlive the state they belong to; the probe falls through to the closed branch |
| Local cache | `storage/cache.go:119-335` | a directory of files, a running size total | `Write`, `ListCachedReadings`, `DeleteCached`, `CleanupOld`, the recount at startup | total and directory drifting apart, torn files, the limit at its boundary |
| Caching storage | `storage/cache.go:343-599` | `cacheEnabled`, the breaker, the cache, a replay goroutine | `WriteReading`, `WriteBatch`, replay, `Close` | writers against the replay, outages in the middle of either, a kill between two steps |
| InfluxDB storage | `storage/influxdb.go` | the asynchronous client, gobreaker, a retry queue, two goroutines | `WriteReading`, `WriteBatch`, `Flush`, `Close` | answers that come before the outcome; `Close` against writers and against itself |
| Power monitor | `monitoring/power.go` | device map, poll interval, update channel, readings channel, a wait group | start, stop one, stop all, change the interval, one goroutine per device | deferred deletes, closing a channel with senders, stopping while starting |
| Application | `main.go` | the context, the wait group, the order of the shutdown | `Run`, main loop, data writer, signal goroutine, cleanup | the order in which six goroutines end, and where readings are meanwhile |
| Configuration reload | `config/watcher.go`, `config/config.go`, `main.go:417-442` | a signal channel of size one, an unbuffered configuration channel, `a.cfg` | SIGHUP, `Load`, hand over, `UpdateConfig` | a send nobody receives; coalesced signals; a file edited meanwhile; limits, defaults and overrides that meet in `Load` |
| Notifier | `pkg/slacknotifier` | URL and enabled flag, without a lock | `SendAlert`, `UpdateWebhookURL` | written by one goroutine and read by others |
| Discovery | `discovery/discovery.go` | the device map, a consumer goroutine per scan | `Discover`, `GetDevices`, `GetDeviceByID` | resolver, consumer and caller read each other's state without a lock; a consumer that outlives a failed scan; a device that moves or is renamed |
| Logger, metrics, errors, interfaces | `pkg/*` | none that properties speak of | | |

What makes each of them correct:

* *Breaker*: it trips and closes only on enough failures or successes in a row,
  whatever half-open episodes went before, and it recovers.
* *Cache*: the total agrees with the directory, files that no operation could count
  set aside, and bounds it.
* *Caching storage*: what was acknowledged is in InfluxDB or in the cache until
  its age is up, what was refused is in neither, the replay deletes only what it
  stored, and the cache mode ends.
* *InfluxDB storage*: a batch stops at the reading it refuses; `Close` closes
  once, returns, and leaves nothing behind that was handed over before it. (An
  acknowledged reading is *not* safe: see section 6.)
* *Monitor*: one goroutine for a device, the map exact, the channel closed after
  every goroutine `Stop` waited for, `Stop` returns.
* *Application*: the channel has a reader until the monitor has ended, nothing is
  lost of it when the writer has drained it, little comes after the final flush,
  and the process ends.
* *Reload*: what is in force is the file as last announced, as a whole; no
  interval out of its limits gets in; a reload never keeps the shutdown from
  ending.
* *Discovery*: no power device that answered is left unmonitored, the map is
  current and has every monitored device under its ID, and every scan and its
  consumer end.

The hazards are listed line by line in `PROJECT.json`, each with its properties.

## 2. The modules

| module | what it is |
|---|---|
| `CircuitBreaker` | `Execute` as one step for each outcome. `elapsed` stands for `time.Since(lastStateChange)`; it and `failures` saturate where the code stops telling values apart |
| `LocalCache` | each operation one step, as `lc.mu` makes it, with the failure of each file operation (`Faults`); all files have one size; torn files count only by their bytes |
| `DurableStore` | the abstract promise: accept and keep, or refuse and keep nothing (a failed disk write set aside); give up only what is too old |
| `CachingStorage` | composes `CircuitBreaker` and `LocalCache` (INSTANCE) with writers, the replay goroutine, InfluxDB, kills and restarts |
| `InfluxDBStorage` | calls, the client as an external part that delivers or gives up on its own, `Close` step by step |
| `PowerMonitor` | the calls under `deviceMutex` as single steps, `Stop` as three (it releases the mutex, waits, and closes the channel), each goroutine as a program counter |
| `Application` | composes `PowerMonitor` (INSTANCE) with the goroutines of `main.go` and the replay goroutine of its storage; readings are counted by where they are |
| `ConfigReload` | the file, `SIGHUP`, the watcher's goroutine, the configuration goroutine applying a reload write by write, the notifier's unlocked fields, the main loop's ticker, the shutdown |
| `Discovery` | the caller (`DiscoverAndMonitor`), each scan's consumer and channel, the device map; the resolver is an external part that answers and closes at its own time |
| `MC*` | model checking: history variables, symmetry, inputs |
| `*_proofs` | theorems and their proofs, one for each module above but `DurableStore`; those of `CachingStorage` use those of its parts by INSTANCE, and those of `Application` the monitor's |

State and code correspond by name where Go's names allow it
(`monitoredDevices`, `cacheEnabled`, `currentSize`, `halfOpenSuccesses`); an
action has the name of the function it models (`StartMonitoringDevice`,
`DeleteCached`, `CleanupOld`) or says what a step of one does (`SeesDone`,
`WriteFails`, `ReplaySkip`). A function that holds a mutex from its first line to
its last is one action. One that does not is cut where another goroutine can
come between, and nowhere else: `CachingStorage.WriteReading` becomes *write*,
*failed* (the cache is turned on) and *cache* (the file is written), because
`cacheMutex` covers only the flag.

Definitions under a comment that begins "Mutant" are not part of any
specification: each is a plausible bug in the operation that follows it. Put in
the place of that operation, it makes TLC report the property it is paired with
in `PROJECT.json`, which shows that the property depends on the code.

Abstractions to keep in mind:

* A reading is a name (`CachingStorage`), a validity (`InfluxDBStorage`) or a
  unit (`PowerMonitor`, `Application`). No property is about its contents.
* `CachingStorage` assumes a wrapped storage that stores or returns an error; the
  mocks of `storage/cache_test.go` do that, and `InfluxDBStorage` does not.
* `Faults` are the file operations that may fail, each at every call of it. A failed
  `os.WriteFile` leaves a part of the file or all of it; `os.Stat` may fail on any
  file at the recount of a start (`cache.go:326`) and at a deletion; a listing or the
  cleanup may pass over any file that it cannot read, and fail as a whole. What
  `currentSize` leaves out because of that is in the history variable
  `uncounted`; a deletion takes a file off the total whether it was counted or not,
  so the total can go below zero, in the code and in the model.
* A process starts again after it was closed, killed or had panicked; it gives up
  (`expired`) the files it removed that were past `MaxAge`.
* `undeleted` is a history variable: the readings a replay has stored and whose file it
  failed to delete or did not live to delete. They are what may reach InfluxDB twice.
* `Wirings` chooses whether `cs.cb` is set (as the tests do by hand) or nil (as
  `NewCachingStorage` and hence `main.go:179` leave it).
* In `InfluxDBStorage` gobreaker has no state: the function it protects returns
  nil always, so it never leaves the closed state. The retry goroutine has no
  item to work on: the queue is fed only by that goroutine itself.
* `InfluxDBStorage` has calls with a nil slice beside those with a batch; a nil
  reading in a batch is one of the `"invalid"` ones.
* In `Application` the storage has its breaker. A write reaches the client, goes to
  the cache (always, if the context is cancelled), or fails in both and is counted as
  `dropped`. The replay goroutine that `main.go:179` starts, and nothing ends, moves
  readings from the cache to the client at any time before the exit; a file it puts
  and deletes is one step there, and one that cannot be deleted is left to
  `CachingStorage`. The scan `main` makes after `Run` returned starts no
  device in the model: the process ends before the first tick.
* A configuration is the two intervals and the webhook URL: what a reload applies
  or validation relates to it. A file that does not parse, lacks the profile, or
  is invalid elsewhere is `Broken`. `Load` is one step: an edit falls before or
  after it. A string written without a lock is `Torn` until it is complete.
* An mDNS answer (`Adverts`) is a record of service, name, ID, clusters and
  addresses, and a device is the answer it was made from. That one of the
  numbers of a power cluster occurs in the C record is membership in
  `PowerClusters`. The resolver sends a service once per scan, as zeroconf does.
* `PowerMonitor` starts `Fresh`, some goroutine that is not born yet: they have no
  state by which they could differ. `SinglesStopped` names the devices
  `StopMonitoringDevice` is called for: in `main.go`, none. `born` (where `Stop` was when
  a goroutine was started) and `displaced` (the goroutines whose entry another one
  removed) are history: nothing in `StartMonitoringDevice` looks at `pm.stopped`, so
  a device may be started at any time, and the properties say what holds of which
  goroutines.
* A data race on `pm.configUpdate` (`power.go:221`) is not modelled: a goroutine
  waits on the old channel or the new one.

## 3. The runs

| run | configuration | what it shows |
|---|---|---|
| `breaker` | the thresholds of the tests (5 failures, timeout 3 ticks) and 3 successes | `TripNeedsFailures`, `CloseNeedsSuccesses`: with the callers' own view of the calls as history, the state changes only on enough outcomes in a row. `AdmittingBelowThreshold`: no count is left over that should have changed the state. `Recovers` |
| `local_cache` | 4 files of 2 bytes, limit 4, every file operation failing, restarts | `SizeAccounted`, `CacheBounded` |
| `caching_outages` | 1 writer, 3 readings of which one is never accepted, batches of 2, an outage, breaker of one failure, a disk whose writes, removes and reads may fail | liveness: `CallsReturn`, `CacheModeEnds`, `ListedReachInflux`, `CloseEnds` |
| `caching_crashes` | 2 writers, 3 readings, 2 outages, a kill, restarts after it and after `Close`, every disk fault, ageing, breaker set or nil | `NoSilentLoss`, `ReplayDeletesStored`, `WrittenOnce`, and the refinement `ImplementsDurableStore` |
| `influxdb` | 1 writer, 2 batches of at most 2 or nil, 2 concurrent `Close` | `BatchStopsAtRefused`, `CloseDelivers`, `CloseReturns` |
| `monitor` | 2 devices, one of them stopped and started singly as well, 2 goroutines, 2 intervals, channel of 1, starts at any time | `MappedRuns`, `OneGoroutinePerDevice`, `NoSendAfterClose`, `StopReachesAll`, and liveness: `CancelledEnds`, `StopReturns` |
| `application` | 1 device, 3 readings, reloads between 2 intervals, a replay batch of 1, a shutdown at any time, during a scan too | `MonitorEndsFirst`, `DrainedMeansHandled`, `FlushMissesOneBatch`, and liveness: `ShutdownEndsUnlessLate` |
| `reload` | 6 files and a broken one, 2 environments, 2 URLs, one goroutine that sends alerts, a shutdown | `IntervalsValid`, `SettledIsCurrent`, `AnnouncedIsApplied`, `ConfigEnds` |
| `discovery` | 2 scans, 2 services with 6 answers between them, a channel of 1 | `AnsweredAreMonitored`, `MapIsNewest`, `MonitoredAreKnown`, `ScansEnd` |
| `no_breaker`, `late_start`, `unnoticed_outage` | minimal | counterexamples, section 6 |

The runs of the composed modules check `TypeOK` as well; that of `CachingStorage`
includes those of the breaker and the cache, that of `Application` the monitor's.

### Bounds, and why they are enough

* *Readings and writers*: a race in `CachingStorage` needs one writer between
  failing and caching and the replay at work, a batch needs two readings, and a
  full cache one reading more than it has room for. The safety properties are
  checked with two writers; liveness, whose check is the dearer, with one, which is what
  `main.go` has: its data writer alone calls `WriteReading`.
* *Outages and kills*: two outages let InfluxDB go away again during the replay
  of the first; where a reading is never accepted, it turns the cache on by itself, and
  one outage can come at every step of a replay. A kill, a panic and any number of orderly closes end processes, so
  that one that found files of an earlier one is ended in its turn.
* *Cache*: the limit is a multiple of the file size in `local_cache`, where `<`
  and `<=` differ, and no multiple in `caching_crashes`, where the last file
  passes it. `MaxClock` lets a file pass its age and a fresh one not.
* *Disk*: in `caching_outages` one failure of each kind meets every step, since a
  fault is possible at every call; the cache has room for two files of three, so
  that a writer finds it full as well. `glob` is left out of its `Faults`: a
  directory that can be opened is listed, or the replay would be given up at every
  tick for ever and the cache rightly stay on. `stat` is left out for its size only: it fails
  within the same deletion as `remove`, with the same outcome. `caching_crashes`
  has every fault.
* *Monitor*: two goroutines are a device's own and its successor's, or those of two
  devices that `Stop` meets at different places, or one that `Stop` waits for and one
  that is started late. A channel of one is full after one reading. The invariants are
  proved for any number of either (section 4).
* *Application*: three readings let one be in the channel, one with the writer and
  one in the cache; with a batch of one the bound of `FlushMissesOneBatch` is reached
  and a replay of two readings flushes between them. One goroutine is enough for the order
  of the shutdown, since the monitor it uses has a run and theorems of its own; started
  late it is the one `Stop` waits for in vain.
* *Reload*: the files are those in which a rule of `Load` decides: intervals left
  out, at their limits, above them, below zero, a string that is no URL. Two
  valid files and an unbounded number of edits and signals let a second one come
  at every step of a reload.
* *Discovery*: two scans are what it takes for a consumer that a failed scan left
  behind to meet a later one; two services, one with an ID that moves and one
  whose ID is its address, are the kinds the code tells apart. A channel of one
  is full, empty and in between.
* *InfluxDB*: goroutines that write share nothing but the client, so one that
  writes while two close shows their interleavings.

`CHECK_DEADLOCK FALSE` stands where the program really stops: the process ends,
the storage is closed, or the bound on calls or scans is used up.

### Fairness

Goroutines are scheduled: weak fairness on each goroutine's steps. A `select` with
several ready cases chooses at random, so a case that is ready again and again
is not passed over for ever: strong fairness on seeing the context done
(`SeesDone`, `ConfigSeesDone`, `HandlerEnds`). In `Application` nothing is assumed of the
replay: the process ends whether it runs or not. `Recovers` assumes that readings keep
coming and time passes; the liveness of the replay assumes that its ticker
ticks and that an outage ends. Nothing is assumed of callers: not that a
reading is written, the channel received from (`monitor`), a signal sent, a scan
begun, or a process started again. Of the resolver it is assumed that it closes
the channel once its context is done, as zeroconf's main loop does; of a scan's
timeout that it comes.

## 4. What is proved

Every invariant and action property that a passing run checks is a theorem, and
so is the refinement. A theorem is about `Spec` (`MCSpec` for the two about the
breaker's history, which adds history variables to `Spec`); the constants are
what the second column says and otherwise arbitrary.

| theorem | statement | assumptions |
|---|---|---|
| `BreakerTyped`, `BreakerSafe` | `TypeOK`, `AdmittingBelowThreshold` | thresholds at least 1, any timeout |
| `BreakerTrips`, `BreakerCloses` | `TripNeedsFailures`, `CloseNeedsSuccesses` | the same |
| `CacheTyped`, `CacheSafe`, `CacheLimited` | `TypeOK`, `SizeAccounted`, `CacheBounded` | a finite set of attempts, file size and limit at least 1, any set of faults |
| `MonitorMapped` | `TypeOK`, `MappedRuns` | any use of the monitor |
| `MonitorExact` | `RunningIsMapped`, `OneGoroutinePerDevice` | any use; both speak of the devices that are not stopped singly, in `main.go` all of them |
| `MonitorNeverSendsLate` | `NoSendAfterClose` | any use of the monitor |
| `MonitorStopReachesAll` | `StopReachesAll` | any use of the monitor |
| `StorageTyped` | `TypeOK` | a finite set of readings, each handed over once; any outages, refusals, kills and disk faults, the breaker set or nil |
| `StorageLosesNothing`, `StorageReplaySafe` | `NoSilentLoss`, `ReplayDeletesStored` | the same |
| `StorageImplements` | `ImplementsDurableStore`: `CachingStorage` refines `DurableStore` | the same |
| `StorageRefusesCleanly` | a reading whose write returned an error is in no store, and was not acknowledged | no disk write fails (`"write" \notin Faults`) |
| `StorageKeepsParts` | `CB!AdmittingBelowThreshold`, `LC!SizeAccounted`, `LC!CacheBounded` inside `CachingStorage` | those of `StorageTyped` |
| `StorageWritesOnce` | `WrittenOnce` | those of `StorageTyped` |
| `InfluxTyped` | `TypeOK`; in it, the retry queue is closed at most once and no point is handed over twice | a finite set of writers |
| `BatchesStop`, `CloseDelivered` | `BatchStopsAtRefused`, `CloseDelivers` | the same, any callers of `Close` |
| `MonitorIsUsed` | `PM!Spec`: `Application` implements `PowerMonitor` | a finite set of goroutines, channel size at least 1 |
| `DevicesReadOnce` | `PM!MappedRuns`, `PM!OneGoroutinePerDevice` in the application | the same |
| `StopInApplication` | `PM!NoSendAfterClose`, `PM!StopReachesAll` in the application | the same |
| `ApplicationTyped`, `DrainedIsHandled`, `FlushMissesFew` | `TypeOK`, `DrainedMeansHandled`, `FlushMissesOneBatch` | the same, a replay batch of at least 1 |
| `MonitorEnds` | `MonitorEndsFirst` | the same |
| `ReloadTyped`, `IntervalsStayValid`, `SettledCurrent` | `TypeOK`, `IntervalsValid`, `SettledIsCurrent` | limits that are natural numbers, any files and environments |
| `ScansTyped`, `MonitoredKnown` | `TypeOK`, `MonitoredAreKnown` | any adverts, channel size and number of scans |
| `AnsweredMonitored`, `NewestInMap` | `AnsweredAreMonitored`, `MapIsNewest` | the same |

`StorageRefusesCleanly` has a hypothesis that excludes what makes it false: a failed
disk write may leave a complete file of a reading that was refused. No theorem about
the monitor or the application excludes a start during the shutdown.

* *Breaker.* The three invariants of `BreakerInv` are inductive only together. A
  half-open breaker that has a success still to wait for is what keeps the counter
  within its type; a failure count below the threshold in an admitting breaker is
  what `CallFails` starts from, and a half-open breaker inherits it because the
  probe resets or trips it. `HistoryInv` compares the counters with what the callers
  saw: a *closed* breaker has counted no more failures than there were in a row, a
  *half-open* one no more successes. Neither holds in the other states (a success
  in half-open leaves `failures` alone), which is why closing has to reset the one
  and a probe the other.
* *Cache.* `CacheInv` joins type, accounting and bound. The bound needs the
  accounting, without which the check against `currentSize` says nothing about the
  files; the accounting needs `uncounted`, by which a failed write that left its file
  whole and a file `os.Stat` skipped are let pass, and which neither a deletion nor
  the cleanup changes: a file that was never counted is taken off the total all the
  same, so the gap stays. Where those calls do not fail, `uncounted` is 0 and the
  total is never below what the files take. The
  sums are over cardinalities; lemmas give them for one file more (`WriteKeeps`)
  and for a set of files less (`RemovalKeeps`), of which a deletion and the
  cleanup are cases.
* *Monitor.* Few steps touch who runs and who is mapped; `StepKinds` separates
  them, and `QuietStep` deals with the rest at once. `MappedRuns` is inductive
  with the type. `RunningIsMapped` needs in addition that a running goroutine has a
  device (`ExactInv`); then the deferred delete removes the goroutine's own entry,
  which is false for a device that is stopped singly (section 6): two goroutines of
  another device never meet in the map. `CloseInv` says
  that once `wg.Wait` has returned every goroutine that runs was started after it;
  `ReachInv` that a goroutine of before `Stop` which was neither told to end nor
  displaced is in the map as long as it runs, where `Stop` finds it.
* *Storage.* `StoreInv` adds to the two invariants what makes them inductive: the
  readings of a call under way (`Pending`) are in no store, in no answer and in
  no other call, so a refusal keeps nothing and a reading is accepted once; and what
  is left of the replay's slice is cached still, each reading in it once
  (`ReplayListed`), so a delete takes away only what it has just written. A
  restart removes files, which `ReplayListed` would not survive: `EndedWaits` says
  that the replay of an ended process is gone by then. Each step is shown to keep `StoreInv` and to be
  `Accept`, `Refuse` or `Expire` of `DurableStore`, or none (`Promises`), by the
  few things steps do: acknowledge, refuse, go on, advance the replay. Breaker and
  `currentSize` do not occur: what is stored does not depend on them.
  `WrittenOnce` needs `CachedNotStored` besides: but for the readings in `undeleted`,
  whose replay failed to delete them or did not live to, a cached reading is stored only
  between the write and the delete of its replay. `StorageRefusesCleanly` is an invariant of `DurableStore`,
  proved from its three actions and carried over by the refinement.
* *Storage and its parts.* `CachingStorage_proofs` instantiates the proofs of the
  breaker and the cache. `BreakerSame` and `CacheSame` show that each of its steps
  is one of theirs, with two exceptions that have proofs of their own: a restart
  makes a new breaker, and a kill may tear a file on any disk. That a written
  reading had no file, which the cache's specification asks of its caller, comes
  from `StoreInv`. `Kinds` has the rest of the type.
* *InfluxDB.* A call under way is at the reading after those it handed over
  (`AtNext`); among the callers of `Close` at most one is past the check
  (`OneCloses`), so the queue is closed once; and what it owes is in the client or
  gone, gone once it has flushed (`OwedKept`). The bound on points needs those that
  calls under way have still to hand over: `Amounts` counts them (`Due`, a finite
  set of pairs), a batch begun adds at most `MaxBatch` and a point handed over takes
  one away.
* *Application.* Each step is one of the monitor or leaves it alone (`MonitorStep`),
  so the monitor's theorems hold in it. `Counted` says where the readings are that
  were put on the channel: in it, with the writer, in the client, in InfluxDB, in the
  cache, or dropped. `AfterFlush` says what may come after the final flush: the
  reading whose write had passed the check of the context before, and what the
  replay has put in the client since its own last flush, never more than a batch.
  `InOrder` ties the signal goroutine's place to the closed channel and the context;
  with `NoSendAfterClose` of the monitor it gives `MonitorEndsFirst`.
* *Reload.* What is on its way to the fields was validated (`ValidatedFirst`), the
  fields before the one `UpdateConfig` is at have their new values (`AppliedSoFar`),
  and after an announcement the file's configuration is ahead of the watcher as a
  pending signal, with it, or in force (`NewestAhead`): that is what one place in
  `reloadChan` has to be shown to suffice for.
* *Discovery.* An advert that was answered is in the channel, with the consumer or
  among the devices found (`NothingDropped`), and a scan that returned has an empty
  channel and an ended consumer (`ReturnedAreDone`); what the caller has gone over
  is `GoneOver`. The map is written before a device joins its scan (`FoundAreKnown`),
  by the current scan's consumer alone as long as no scan failed (`NewestSoFar`).

Each of these invariants was checked by TLC on the component's run before it was
proved.

Assumptions that the proofs asked for, and the code justifies: the goroutines of
`Application` and the writers of `InfluxDBStorage` are finitely many, the limits
of `ConfigReload` are natural numbers, the channel of readings has a place
(`config.go` sets 100 for 0 and validates `min=1`), a batch of the replay is not empty
(`replayBatchSize`), and `Nobody` is no goroutine and no device.

## 5. What is only model-checked

Liveness, all of it: `Recovers`, `CallsReturn`, `CacheModeEnds`, `ListedReachInflux`,
`CloseEnds`, `CancelledEnds`, `StopReturns`, `ShutdownEndsUnlessLate`, `CloseReturns`,
`AnnouncedIsApplied`, `ConfigEnds`, `ScansEnd`. Their proofs would need the
enabledness of the fair actions, which the provers do not handle.

The counterexamples of section 6 are TLC's as well.

## 6. Behaviours the code does not have

Three of them are runs in which TLC has to find the violation; PROJECT.json
quotes the lines that promise otherwise.

* `no_breaker`: `NewCachingStorage` sets no breaker, so the first reading of the
  program makes `WriteReading` dereference nil.
* `late_start`: a scan under way when the signal comes starts a device after `Stop`
  cancelled the others; `Stop` waits for it, the context is cancelled only
  after `Stop`, and the process does not end. (A device started once `Stop` has waited
  can instead send on the closed channel, which panics, or ends with the context.)
  Of every other shutdown `application` shows that the process ends.
* `unnoticed_outage`: `InfluxDBStorage.WriteReading` returns nil when the point is
  handed to the asynchronous client, so during an outage neither breaker counts
  a failure and the cache is not used; what the client gives up is lost.

The others have configurations beside the runs; check them with
`tlc -config X.cfg M`. Each violates its one property.

| configuration | module | property | what happens |
|---|---|---|---|
| `MCCachingStorageStranded.cfg` | `MCCachingStorage` | `CachedIsReplayed` | a writer turns the cache on; before it writes its file the replay finds nothing and turns the cache off; the file waits for the next failure |
| `MCCachingStorageLeftovers.cfg` | `MCCachingStorage` | `LeftoversReplayed` | a new process starts with the cache off and leaves the old one's files alone until a write fails |
| `MCCachingStoragePartialReplay.cfg` | `MCCachingStorage` | `RecoveredAfterReplay` | `replayCachedData` returns nil though writes failed, and the cache is turned off over them |
| `MCCachingStorageOrder.cfg` | `MCCachingStorage` | `ReplayedInOrder` | the replay goes on after a reading that failed |
| `MCCachingStorageFull.cfg` | `MCCachingStorage` | `FullCacheMakesRoom` | a full cache refuses the new reading; `README.md:430` says the oldest goes |
| `MCLocalCacheDirectory.cfg` | `MCLocalCache` | `DirectoryBounded` | files written in part are uncounted until a restart and never removed |
| `MCPowerMonitorDuplicate.cfg` | `PowerMonitor` | `NoDeviceReadTwice` | a goroutine that was stopped still runs when its successor is started; its deferred delete then removes the successor's entry, and a third start makes two goroutines that stay; `Stop` does not find the one removed from the map (`displaced`), and waits for it |
| `MCPowerMonitorLostUpdate.cfg` | `PowerMonitor` | `UpdatePickedUp` | a goroutine busy while the interval changes waits on the new channel and keeps the old interval |
| `MCApplicationFlush.cfg` | `Application` | `PendingFlushed` | the writer leaves readings in the channel when it chooses the done context, or writes one after the final flush; the main loop's ticker branch makes no flush; the replay hands over readings after it |
| `MCConfigReloadWatcher.cfg` | `MCConfigReload` | `WatcherStops` | a reload that is loaded while the configuration goroutine ends: the watcher sends to nobody and stays |
| `MCConfigReloadDisabled.cfg` | `MCConfigReload` | `DisabledPostsNothing` | an alert found the notifier enabled and posts when the URL has been taken away |
| `MCConfigReloadTicker.cfg` | `MCConfigReload` | `DiscoveryNotFaster` | a reload raises the poll interval above the discovery interval the ticker was made with; validation relates the new file's two only |
| `MCDiscoveryMoved.cfg` | `MCDiscovery` | `MonitoredOnce` | a device without a D record moves: it is a new device, and the goroutine of its old address goes on |
| `MCDiscoveryFailedScan.cfg` | `MCDiscovery` | `MapIsNewestAlways` | the consumer of a failed scan overwrites what a later scan heard of a device |

## 7. Not modelled

* Startup (`initializeComponents`), the HTTP handlers and their rate limits, the
  command line modes, the queries of `InfluxDBStorage`: sequential, or they
  only read.
* The text of configuration files and mDNS records, and the JSON schema that
  only the validation mode of the command line uses: string handling without
  state. What parsing and validation decide is in `ConfigReload` and `Discovery`.
* The debug signal handlers: `main` sets them up only after `Run` has returned
  (`main.go:96`).
* A nil reading: `CachingStorage.WriteReading` would dereference it in the log line
  of `cache.go:403`. `readPower` never puts one on the channel.
* `pm.wg.Add` beside `pm.wg.Wait` with the counter at zero (`power.go:137`, `283`), which
  the documentation of `sync.WaitGroup` forbids: a start falls before `Wait` returns
  or after it.
* The memory model: unlocked fields read beside their writer (`pm.configUpdate`,
  `a.cfg`). The notifier's two fields are modelled as separate writes, the URL in
  two parts.

## 8. Plan

Done, in this order: `CircuitBreaker` and `LocalCache`, `DurableStore` and
`CachingStorage`, `PowerMonitor`, `Application`, `InfluxDBStorage`, `ConfigReload`,
`Discovery`; the proofs of all of their safety properties.

Next:

1. `CachingStorage` over `InfluxDBStorage`: what `DurableStore` weakens to in the
   wiring of `main.go`, as an abstract specification that both implement.
2. `Discovery` under failed scans: which part of `MapIsNewest` is left.
3. The lemmas that several proof modules state in their own words (a set bounded
   by a union, a part replaced by its proofs' instance), in one place.
