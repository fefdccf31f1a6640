---------------------------- MODULE Application -----------------------------
(***************************************************************************)
(* main.go: the application's goroutines from Run to the exit, around the  *)
(* power monitor.  The main goroutine scans for devices and starts their   *)
(* monitoring; the data writer takes readings off the channel and writes   *)
(* them; the configuration goroutine applies reloads; the metrics server   *)
(* serves; the signal goroutine shuts all of it down, in the order HTTP    *)
(* server, monitor, context; the main goroutine then flushes and waits.    *)
(*                                                                         *)
(* The replay goroutine of CachingStorage runs beside them: main.go starts *)
(* it with the storage and never ends it, for nothing closes the storage.  *)
(*                                                                         *)
(* Readings are counted by where they are: in the channel, with the        *)
(* writer, unflushed in the InfluxDB client, in InfluxDB, in the cache, or *)
(* dropped with a log line.  How CachingStorage writes and replays is the  *)
(* module CachingStorage; here a write reaches the client, goes to the     *)
(* cache or fails, and a replay moves readings from the cache to the       *)
(* client, a file it puts and deletes being one step.  A reading whose     *)
(* file the cache's cleanup removes stays counted in the cache.            *)
(* The storage here has its breaker: in the wiring of main.go it has none, *)
(* and CachingStorage shows what becomes of the first reading then.        *)
(***************************************************************************)
EXTENDS Naturals, FiniteSets

CONSTANTS
  Devices, Goroutines, Nobody, Intervals, FirstInterval,
  ChannelSize,   \* PowerMonitor
  MaxReadings,   \* bound of this model: readings sent
  ReplayBatch    \* replayBatchSize

VARIABLES
  monitoredDevices, pollInterval, stop, buffered, closed, panicked, appDone,
  pc, device, interval, cancelled, woken,
  born, displaced,   \* PowerMonitor
  main,        \* where the main goroutine is
  found,       \* the devices its scan returned that it did not come to yet
  shutdown,    \* where the signal goroutine is
  serving,     \* the metrics server's goroutine runs
  config,      \* the configuration goroutine: select, done
  writer,      \* the data writer: select, check, put, drained, left
  sent,        \* readings put on the channel
  pending,     \* readings in the InfluxDB client, not flushed
  flushed,     \* readings in InfluxDB
  cached,      \* readings in the local cache
  dropped,     \* readings whose write failed
  finalFlush,  \* the flush of performCleanup succeeded
  replayer,    \* the replay goroutine: idle, replay
  listed,      \* readings of its listing it did not come to yet
  unflushed    \* readings it put in the client since it last flushed

PM == INSTANCE PowerMonitor WITH SinglesStopped <- {}

monitorVars == <<monitoredDevices, pollInterval, stop, buffered, closed, panicked,
                 appDone, pc, device, interval, cancelled, woken, born, displaced>>
mainVars    == <<main, found>>
readings    == <<sent, pending, flushed, cached, dropped>>
replayVars  == <<replayer, listed, unflushed>>
vars == <<monitorVars, mainVars, shutdown, serving, config, writer, readings,
          finalFlush, replayVars>>

ASSUME ApplicationAssumption ==
  /\ Nobody \notin Goroutines \cup Devices
  /\ IsFiniteSet(Goroutines)
  /\ FirstInterval \in Intervals
  /\ ChannelSize \in Nat \ {0}
  /\ MaxReadings \in Nat
  /\ ReplayBatch \in Nat \ {0}

\* Run has started everything and is in its first scan.
Init ==
  /\ PM!Init
  /\ main = "scan"
  /\ found = {}
  /\ shutdown = "none"
  /\ serving = TRUE
  /\ config = "select"
  /\ writer = "select"
  /\ sent = 0
  /\ pending = 0
  /\ flushed = 0
  /\ cached = 0
  /\ dropped = 0
  /\ finalFlush = FALSE
  /\ replayer = "idle"
  /\ listed = 0
  /\ unflushed = 0

\* The process executes.
Alive == main # "exited" /\ ~panicked

\* Goroutines of this model that were not started yet.
Unborn == {g \in Goroutines : pc[g] = "unborn"}

\* What the steps of one goroutine leave alone.
MainOnly     == UNCHANGED <<monitorVars, shutdown, serving, config, writer, dropped,
                            replayVars>>
ShutdownOnly == UNCHANGED <<mainVars, config, writer, readings, finalFlush, replayVars>>
WriterOnly   == UNCHANGED <<mainVars, shutdown, serving, config, finalFlush, replayVars>>
ReplayOnly   == UNCHANGED <<monitorVars, mainVars, shutdown, serving, config, writer,
                            sent, dropped, finalFlush>>

\* The main goroutine goes from one place to another and does no more.
MainGoes(from, to) ==
  /\ main = from
  /\ main' = to
  /\ MainOnly
  /\ UNCHANGED <<found, readings, finalFlush>>
-----------------------------------------------------------------------------
\* DiscoverAndMonitor, its scan: devices answer, or none, or it fails.
Scan ==
  /\ main = "scan"
  /\ found' \in {s \in SUBSET Devices : Cardinality(s) <= Cardinality(Unborn)}
  /\ main' = "start"
  /\ MainOnly /\ UNCHANGED <<readings, finalFlush>>

\* Each device that is not monitored is started.
StartsDevice(d) ==
  /\ main = "start"
  /\ d \in found
  /\ found' = found \ {d}
  /\ IF monitoredDevices[d] = Nobody
     THEN PM!StartMonitoringDevice(d)
     ELSE UNCHANGED monitorVars
  /\ UNCHANGED <<main, shutdown, serving, config, writer, readings, finalFlush,
                 replayVars>>

EndsScan == found = {} /\ MainGoes("start", "select")

\* runMainLoop, its ticker: the next scan, wherever the shutdown is, ...
TicksForScan == ~appDone /\ MainGoes("select", "scan")

\* ... or, the context being done, Run returns without the cleanup.
TicksWhenDone == appDone /\ MainGoes("select", "last")

\* runMainLoop sees that the context is done: performCleanup.
MainSeesDone == appDone /\ MainGoes("select", "flush")

\* performCleanup: the flush succeeds, ...
Flushes ==
  /\ main = "flush"
  /\ flushed' = flushed + pending
  /\ pending' = 0
  /\ finalFlush' = TRUE
  /\ main' = "wait"
  /\ MainOnly /\ UNCHANGED <<found, sent, cached>>

\* ... or it does not within flushTimeout.
FlushTimesOut == MainGoes("flush", "wait")

\* wg.Wait: the server, the configuration goroutine and the writer have ended.
WaitsForAll ==
  /\ ~serving
  /\ config = "done"
  /\ writer \in {"drained", "left"}
  /\ MainGoes("wait", "last")

\* After Run, main scans once more and returns.  The devices that scan starts
\* are left out: the process ends long before the first tick of their tickers.
Exits == MainGoes("last", "exited")

\* The main goroutine.
Main ==
  Scan \/ (\E d \in Devices : StartsDevice(d)) \/ EndsScan \/ TicksForScan
    \/ TicksWhenDone \/ MainSeesDone \/ Flushes \/ FlushTimesOut \/ WaitsForAll
    \/ Exits
-----------------------------------------------------------------------------
\* SIGINT or SIGTERM: performGracefulShutdown begins with the HTTP server; a
\* second signal waits in sigChan for ever.
Signal ==
  /\ shutdown = "none"
  /\ shutdown' = "server"
  /\ ShutdownOnly /\ UNCHANGED <<monitorVars, serving>>

\* Mutant: the context is cancelled before the monitor is stopped.
CancelsFirst ==
  /\ shutdown = "server"
  /\ serving' = FALSE
  /\ PM!CancelContext
  /\ shutdown' = "monitor"
  /\ ShutdownOnly

\* server.Shutdown returns, its timeout at the latest.
StopsServer ==
  /\ shutdown = "server"
  /\ serving' = FALSE
  /\ shutdown' = "monitor"
  /\ ShutdownOnly /\ UNCHANGED monitorVars

\* monitor.Stop is called, ...
StopsMonitor ==
  /\ shutdown = "monitor"
  /\ PM!Stop
  /\ shutdown' = "monitor waits"
  /\ ShutdownOnly /\ UNCHANGED serving

\* ... waits for the goroutines, ...
MonitorWaits ==
  /\ shutdown = "monitor waits"
  /\ PM!StopWaits
  /\ ShutdownOnly /\ UNCHANGED <<shutdown, serving>>

\* ... and returns, ...
MonitorStopped ==
  /\ shutdown = "monitor waits"
  /\ PM!StopCloses
  /\ shutdown' = "cancel"
  /\ ShutdownOnly /\ UNCHANGED serving

\* Mutant: the last step of the shutdown is left out.
NeverCancels ==
  /\ shutdown = "cancel"
  /\ shutdown' = "done"
  /\ ShutdownOnly /\ UNCHANGED <<monitorVars, serving>>

\* ... and a.cancel() follows.
Cancels ==
  /\ shutdown = "cancel"
  /\ PM!CancelContext \/ (appDone /\ UNCHANGED monitorVars)
  /\ shutdown' = "done"
  /\ ShutdownOnly /\ UNCHANGED serving

\* The signal goroutine.
Shutdown ==
  StopsServer \/ StopsMonitor \/ MonitorWaits \/ MonitorStopped \/ Cancels
-----------------------------------------------------------------------------
\* startConfigWatcher's goroutine applies a reloaded configuration.
AppliesConfig ==
  /\ config = "select"
  /\ \E i \in Intervals : PM!UpdatePollInterval(i)
  /\ UNCHANGED <<mainVars, shutdown, serving, config, writer, readings,
                 finalFlush, replayVars>>

ConfigSeesDone ==
  /\ config = "select"
  /\ appDone
  /\ config' = "done"
  /\ UNCHANGED <<monitorVars, mainVars, shutdown, serving, writer, readings,
                 finalFlush, replayVars>>
-----------------------------------------------------------------------------
\* startDataWriter's goroutine: a reading comes, ...
WriterReceives ==
  /\ writer = "select"
  /\ PM!Receive
  /\ writer' = "check"
  /\ WriterOnly /\ UNCHANGED readings

\* Mutant: the closed channel is noticed while there are readings in it.
WriterSeesClosedEarly ==
  /\ writer = "select"
  /\ closed
  /\ writer' = "drained"
  /\ WriterOnly /\ UNCHANGED <<monitorVars, readings>>

\* ... or the channel is closed and empty, ...
WriterSeesClosed ==
  /\ writer = "select"
  /\ closed /\ buffered = 0
  /\ writer' = "drained"
  /\ WriterOnly /\ UNCHANGED <<monitorVars, readings>>

\* ... or the context is done, whatever the channel holds.
WriterSeesDone ==
  /\ writer = "select"
  /\ appDone
  /\ writer' = "left"
  /\ WriterOnly /\ UNCHANGED <<monitorVars, readings>>

\* Mutant: the context is not looked at before a reading is written.
WriterSkipsCheck ==
  /\ writer = "check"
  /\ writer' = "put"
  /\ WriterOnly /\ UNCHANGED <<monitorVars, readings>>

\* WriteReading: the context is not done, the breaker lets the call in and the
\* reading is in order, ...
WriterPasses ==
  /\ ~appDone
  /\ WriterSkipsCheck

\* ... and the reading is handed to the InfluxDB client, ...
WriterPuts ==
  /\ writer = "put"
  /\ pending' = pending + 1
  /\ writer' = "select"
  /\ WriterOnly /\ UNCHANGED <<monitorVars, sent, flushed, cached, dropped>>

\* ... or it is none of these, and the reading goes to the cache, ...
WriterCaches ==
  /\ writer = "check"
  /\ writer' = "select"
  /\ cached' = cached + 1
  /\ WriterOnly /\ UNCHANGED <<monitorVars, sent, pending, flushed, dropped>>

\* ... or the cache fails too: the error is logged and the reading gone.
WriterDrops ==
  /\ writer = "check"
  /\ writer' = "select"
  /\ dropped' = dropped + 1
  /\ WriterOnly /\ UNCHANGED <<monitorVars, sent, pending, flushed, cached>>

\* The data writer.
Writer ==
  WriterReceives \/ WriterSeesClosed \/ WriterSeesDone \/ WriterPasses
    \/ WriterPuts \/ WriterCaches \/ WriterDrops

\* The InfluxDB client writes a batch by itself.
ClientFlushes ==
  /\ pending > 0
  /\ flushed' = flushed + pending
  /\ pending' = 0
  /\ WriterOnly /\ UNCHANGED <<monitorVars, writer, sent, cached, dropped>>
-----------------------------------------------------------------------------
\* monitorAndReplay finds InfluxDB healthy and lists the cache, ...
ReplayBegins ==
  /\ replayer = "idle"
  /\ replayer' = "replay"
  /\ listed' \in 1..cached
  /\ ReplayOnly /\ UNCHANGED <<unflushed, pending, flushed, cached>>

\* Mutant: the replay flushes at its end only.
ReplayPutsOn ==
  /\ replayer = "replay"
  /\ listed > 0
  /\ listed' = listed - 1
  /\ cached' = cached - 1
  /\ pending' = pending + 1
  /\ unflushed' = unflushed + 1
  /\ ReplayOnly /\ UNCHANGED <<replayer, flushed>>

\* ... hands a reading to the client and deletes its file, unless a batch of them
\* is to be flushed first, ...
ReplayPuts == unflushed < ReplayBatch /\ ReplayPutsOn

\* ... skips one that is refused, ...
ReplaySkips ==
  /\ replayer = "replay"
  /\ listed > 0 /\ unflushed < ReplayBatch
  /\ listed' = listed - 1
  /\ ReplayOnly /\ UNCHANGED <<replayer, unflushed, pending, flushed, cached>>

\* A flush of the replay: the client is empty afterwards.
ReplayFlushes ==
  /\ replayer = "replay"
  /\ flushed' = flushed + pending
  /\ pending' = 0
  /\ unflushed' = 0
  /\ ReplayOnly /\ UNCHANGED <<listed, cached>>

\* ... flushes after every batch of readings, ...
ReplayFlushesBatch ==
  unflushed = ReplayBatch /\ ReplayFlushes /\ UNCHANGED replayer

\* ... and once more at the end.
ReplayEnds ==
  listed = 0 /\ unflushed < ReplayBatch /\ ReplayFlushes /\ replayer' = "idle"

\* The replay goroutine, which does not know of the shutdown.
Replay ==
  ReplayBegins \/ ReplayPuts \/ ReplaySkips \/ ReplayFlushesBatch \/ ReplayEnds
-----------------------------------------------------------------------------
\* A goroutine of the monitor; what it puts on the channel is counted.
Monitors(g) ==
  /\ PM!Monitor(g)
  /\ sent' = sent + (buffered' - buffered)
  /\ pc[g] = "read" /\ pc'[g] = "send" =>
       sent + Cardinality({h \in Goroutines : pc[h] = "send"}) < MaxReadings
  /\ WriterOnly /\ UNCHANGED <<writer, pending, flushed, cached, dropped>>

Next ==
  /\ Alive
  /\ \/ Main \/ Signal \/ Shutdown \/ AppliesConfig \/ ConfigSeesDone
     \/ Writer \/ ClientFlushes \/ Replay
     \/ \E g \in Goroutines : Monitors(g)

Spec == Init /\ [][Next]_vars

\* Goroutines run; a select, which chooses among its ready cases at random, does
\* not pass over a done context for ever.
FairSpec ==
  /\ Spec
  /\ WF_vars(Alive /\ Main)
  /\ WF_vars(Alive /\ Shutdown)
  /\ WF_vars(Alive /\ Writer)
  /\ SF_vars(Alive /\ ConfigSeesDone)
  /\ \A g \in Goroutines : /\ WF_vars(Alive /\ Monitors(g))
                            /\ SF_vars(Alive /\ PM!SeesDone(g) /\ Monitors(g))
-----------------------------------------------------------------------------
TypeOK ==
  /\ PM!TypeOK
  /\ main \in {"scan", "start", "select", "flush", "wait", "last", "exited"}
  /\ found \subseteq Devices
  /\ shutdown \in {"none", "server", "monitor", "monitor waits", "cancel", "done"}
  /\ serving \in BOOLEAN
  /\ config \in {"select", "done"}
  /\ writer \in {"select", "check", "put", "drained", "left"}
  /\ sent \in 0..MaxReadings
  /\ pending \in Nat
  /\ flushed \in Nat
  /\ cached \in Nat
  /\ dropped \in Nat
  /\ finalFlush \in BOOLEAN
  /\ replayer \in {"idle", "replay"}
  /\ listed \in 0..cached
  /\ unflushed \in 0..ReplayBatch

\* The monitor ends before what depends on it: while a goroutine that Stop waited
\* for may still send, the writer is there, and Run does not return, on either of
\* its ways out, before the last of them has ended and the channel is closed,
\* though the main goroutine may start devices all the while.
MonitorEndsFirst ==
  writer \in {"drained", "left"} \/ main \in {"last", "exited"} =>
    /\ closed
    /\ \A g \in PM!Running : born[g] \in {"closing", "returned"}

\* A writer that ended because the channel was closed has left none of the
\* readings that were ever put on it: each is in the client, in InfluxDB or in
\* the cache, or was logged as dropped.
DrainedMeansHandled ==
  writer = "drained" => sent = pending + flushed + cached + dropped

\* performCleanup flushes before it waits for the writer, and never waits for the
\* replay, so readings can come after the flush; they are never more than the one
\* the writer was writing and a batch of the replay.
FlushMissesOneBatch == finalFlush => pending <= 1 + ReplayBatch

\* README.md:25, graceful shutdown: once a signal came the process ends.
ShutdownEnds == shutdown # "none" ~> main = "exited"

\* It does, unless a device is started late: while Stop waits, which then waits
\* for a goroutine nobody told to end, or after it, when the goroutine may send on
\* the closed channel.
ShutdownEndsUnlessLate ==
  shutdown # "none" ~>
    \/ main = "exited"
    \/ panicked
    \/ stop = "waiting" /\ \E g \in PM!Running : ~PM!Done(g)
-----------------------------------------------------------------------------
\* README.md:25 says that graceful shutdown flushes pending data: if the flush
\* succeeded, every reading is in InfluxDB or in the cache at the exit, or was
\* logged as dropped.
PendingFlushed ==
  main = "exited" /\ finalFlush => sent = flushed + cached + dropped
=============================================================================
