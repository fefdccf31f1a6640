-------------------------- MODULE Application_proofs --------------------------
(***************************************************************************)
(* The shutdown of the application, for any devices, goroutines, channel   *)
(* and readings.                                                           *)
(*                                                                         *)
(* Application uses the power monitor the way PowerMonitor allows          *)
(* (MonitorIsUsed), so that what is proved of the monitor holds in the     *)
(* application.  Where the readings are is counted (Counted), and so is    *)
(* what the final flush can leave behind (AfterFlush); InOrder relates the *)
(* steps of the shutdown to the writer and the main goroutine.  All of     *)
(* them hold with scans at any time: MCApplicationLateStart.cfg shows that *)
(* such a shutdown need not end, so no more than the order is claimed.     *)
(***************************************************************************)
EXTENDS Application, FiniteSetTheorems, TLAPS

\* The proofs of PowerMonitor, of the monitor as the application uses it.
Proved == INSTANCE PowerMonitor_proofs WITH SinglesStopped <- {}

LEMMA MonitorAssumed == Proved!MonitorAssumption
BY ApplicationAssumption DEF Proved!MonitorAssumption

\* It is the same monitor.
LEMMA SameSpec ==
  /\ PM!Init => Proved!Init
  /\ [PM!Next]_(PM!vars) => [Proved!Next]_(Proved!vars)
<1>. USE DEF Proved!channel, PM!channel, Proved!goroutines, PM!goroutines,
             Proved!history, PM!history
<1>1. PM!Init => Proved!Init
  BY DEF Proved!Init, PM!Init
<1>2. UNCHANGED PM!vars => UNCHANGED Proved!vars
  BY DEF Proved!vars, PM!vars
<1>3. Proved!Next = PM!Next
  BY DEF Proved!Next, Proved!StartMonitoringDevice, Proved!StopMonitoringDevice,
         Proved!UpdatePollInterval, Proved!Stop, Proved!StopWaits,
         Proved!WaitReturns, Proved!StopCloses,
         Proved!CancelContext, Proved!Receive, Proved!Monitor, Proved!Begin,
         Proved!Loops, Proved!SeesDone, Proved!Ticks, Proved!SeesUpdate,
         Proved!ReadFails, Proved!Reads, Proved!Sends, Proved!CleansUp, Proved!Starts,
         Proved!Goes, Proved!Goto, Proved!Inside, Proved!Puts, Proved!Leaves,
         Proved!Done, Proved!Fresh, Proved!Running,
         PM!Next, PM!StartMonitoringDevice, PM!StopMonitoringDevice,
         PM!UpdatePollInterval, PM!Stop, PM!StopWaits, PM!WaitReturns, PM!StopCloses,
         PM!CancelContext, PM!Receive, PM!Monitor, PM!Begin,
         PM!Loops, PM!SeesDone, PM!Ticks, PM!SeesUpdate,
         PM!ReadFails, PM!Reads, PM!Sends, PM!CleansUp, PM!Starts,
         PM!Goes, PM!Goto, PM!Inside, PM!Puts, PM!Leaves,
         PM!Done, PM!Fresh, PM!Running
<1>. QED
  BY <1>1, <1>2, <1>3

LEMMA MonitorTyped ==
  /\ PM!Init => PM!TypeOK
  /\ PM!TypeOK /\ [PM!Next]_(PM!vars) => PM!TypeOK'
<1>1. (PM!TypeOK <=> Proved!TypeOK) /\ (PM!TypeOK' <=> Proved!TypeOK')
  BY DEF Proved!TypeOK, PM!TypeOK
<1>. QED
  BY <1>1, MonitorAssumed, SameSpec, Proved!TypeInit, Proved!TypeNext

\* Every step of the application is one of the monitor or leaves it alone.
LEMMA MonitorStep ==
  ASSUME [Next]_vars
  PROVE  [PM!Next]_(PM!vars)
<1>. USE DEF monitorVars, PM!vars, PM!channel, PM!goroutines, PM!history
<1>1. SUFFICES ASSUME Next PROVE PM!Next \/ UNCHANGED monitorVars
  BY DEF vars
<1>2. ~panicked
  BY <1>1 DEF Next, Alive
<1>3. CASE Main
  <2>1. ASSUME NEW d \in Devices, StartsDevice(d)
        PROVE  PM!StartMonitoringDevice(d) \/ UNCHANGED monitorVars
    BY <2>1 DEF StartsDevice
  <2>2. CASE Scan \/ EndsScan \/ TicksForScan \/ TicksWhenDone \/ MainSeesDone
    BY <2>2 DEF Scan, EndsScan, TicksForScan, TicksWhenDone, MainSeesDone, MainGoes,
                MainOnly
  <2>3. CASE Flushes \/ FlushTimesOut \/ WaitsForAll \/ Exits
    BY <2>3 DEF Flushes, FlushTimesOut, WaitsForAll, Exits, MainGoes, MainOnly
  <2>. QED
    BY <1>2, <1>3, <2>1, <2>2, <2>3 DEF Main, PM!Next
<1>4. CASE Signal \/ Shutdown
  <2>1. \/ PM!Stop \/ PM!StopWaits \/ PM!StopCloses \/ PM!CancelContext
        \/ UNCHANGED monitorVars
    BY <1>4 DEF Signal, Shutdown, StopsServer, StopsMonitor, MonitorWaits,
                MonitorStopped, Cancels
  <2>. QED
    BY <1>2, <2>1 DEF PM!Next
<1>5. CASE AppliesConfig \/ ConfigSeesDone
  BY <1>2, <1>5 DEF AppliesConfig, ConfigSeesDone, PM!Next
<1>6. CASE Writer \/ ClientFlushes \/ Replay
  <2>1. PM!Receive \/ UNCHANGED monitorVars
    BY <1>6 DEF Writer, WriterReceives, WriterSeesClosed, WriterSeesDone, WriterPasses,
                WriterSkipsCheck, WriterPuts, WriterCaches, WriterDrops, ClientFlushes,
                Replay, ReplayBegins, ReplayPuts, ReplayPutsOn, ReplaySkips,
                ReplayFlushesBatch, ReplayEnds, ReplayFlushes, ReplayOnly
  <2>. QED
    BY <1>2, <2>1 DEF PM!Next
<1>7. ASSUME NEW g \in Goroutines, Monitors(g) PROVE PM!Next
  BY <1>2, <1>7 DEF Monitors, PM!Next
<1>. QED
  BY <1>1, <1>3, <1>4, <1>5, <1>6, <1>7 DEF Next

\* The application implements the monitor's specification.
THEOREM MonitorIsUsed == Spec => PM!Spec
<1>1. Init => PM!Init
  BY DEF Init
<1>. QED
  BY <1>1, MonitorStep, PTL DEF Spec, PM!Spec

LEMMA ProvedSpec == Spec => Proved!Spec
<1>1. Init => Proved!Init
  BY SameSpec DEF Init
<1>2. [Next]_vars => [Proved!Next]_(Proved!vars)
  BY MonitorStep, SameSpec
<1>. QED
  BY <1>1, <1>2, PTL DEF Spec, Proved!Spec

\* In the application, too, every entry of the device map has its goroutine and
\* no two goroutines read one device (README.md:33), a shutdown during a scan
\* included.
THEOREM DevicesReadOnce == Spec => [](PM!MappedRuns /\ PM!OneGoroutinePerDevice)
<1>1. Proved!MappedRuns => PM!MappedRuns
  BY DEF Proved!MappedRuns, PM!MappedRuns, Proved!Running, PM!Running
<1>2. Proved!OneGoroutinePerDevice => PM!OneGoroutinePerDevice
  BY DEF Proved!OneGoroutinePerDevice, PM!OneGoroutinePerDevice, Proved!Running, PM!Running
<1>5. Spec => Proved!Spec
  BY ProvedSpec
<1>6. Proved!Spec => [](Proved!TypeOK /\ Proved!MappedRuns)
  BY MonitorAssumed, Proved!MonitorMapped
<1>7. Proved!Spec => [](Proved!RunningIsMapped /\ Proved!OneGoroutinePerDevice)
  BY MonitorAssumed, Proved!MonitorExact
<1>. QED
  BY <1>1, <1>2, <1>5, <1>6, <1>7, PTL
-----------------------------------------------------------------------------
\* What a step of a goroutine of the monitor can do to the rest.
LEMMA GoroutineStep ==
  ASSUME PM!TypeOK, NEW g \in Goroutines, PM!Monitor(g)
  PROVE  /\ UNCHANGED <<stop, closed, appDone, born>>
         /\ \E to \in {"begin", "loop", "select", "read", "send", "cleanup", "done"} :
              pc' = [pc EXCEPT ![g] = to] /\ (to = "send" => pc[g] = "read")
         /\ pc[g] \notin {"unborn", "done"}
         /\ \/ UNCHANGED <<buffered, panicked>>
            \/ pc[g] = "send" /\ closed /\ UNCHANGED buffered
            \/ /\ pc[g] = "send" /\ ~closed
               /\ buffered' = buffered + 1 /\ UNCHANGED panicked
<1>. USE DEF PM!Goes, PM!Goto, PM!Inside
<1>1. CASE PM!Begin(g) \/ PM!Loops(g) \/ PM!SeesDone(g) \/ PM!Ticks(g) \/ PM!SeesUpdate(g)
  BY <1>1 DEF PM!Begin, PM!Loops, PM!SeesDone, PM!Ticks, PM!SeesUpdate
<1>2. CASE PM!ReadFails(g) \/ PM!Reads(g)
  BY <1>2 DEF PM!ReadFails, PM!Reads
<1>3. CASE PM!Sends(g)
  BY <1>3 DEF PM!Sends, PM!Puts
<1>4. CASE PM!CleansUp(g)
  BY <1>4 DEF PM!CleansUp, PM!Leaves
<1>. QED
  BY <1>1, <1>2, <1>3, <1>4 DEF PM!Monitor

\* The readings that are on their way to the channel keep below the bound.
Sending == {g \in Goroutines : pc[g] = "send"}

\* TypeOK of what is not the monitor's.
OwnTyped ==
  /\ main \in {"scan", "start", "select", "flush", "wait", "last", "exited"}
  /\ found \subseteq Devices
  /\ shutdown \in {"none", "server", "monitor", "monitor waits", "cancel", "done"}
  /\ serving \in BOOLEAN
  /\ config \in {"select", "done"}
  /\ writer \in {"select", "check", "put", "drained", "left"}
  /\ finalFlush \in BOOLEAN
  /\ replayer \in {"idle", "replay"}

Counts ==
  /\ sent \in Nat /\ pending \in Nat /\ flushed \in Nat /\ cached \in Nat
  /\ dropped \in Nat /\ listed \in 0..cached /\ unflushed \in 0..ReplayBatch
  /\ sent + Cardinality(Sending) <= MaxReadings

TypeInv == PM!TypeOK /\ OwnTyped /\ Counts

LEMMA SendingFinite ==
  /\ IsFiniteSet(Sending) /\ Cardinality(Sending) \in Nat
  /\ IsFiniteSet(Sending') /\ Cardinality(Sending') \in Nat
<1>1. \A S \in SUBSET Goroutines : IsFiniteSet(S) /\ Cardinality(S) \in Nat
  BY ApplicationAssumption, FS_Subset, FS_CardinalityType
<1>. QED
  BY <1>1 DEF Sending

\* A goroutine of the monitor moves, and what it sends is counted.
LEMMA SendsCounted ==
  ASSUME TypeInv, NEW g \in Goroutines, Monitors(g)
  PROVE  Counts'
<1>1. /\ PM!TypeOK /\ PM!Monitor(g) /\ sent' = sent + (buffered' - buffered)
      /\ sent \in Nat /\ sent + Cardinality(Sending) <= MaxReadings
  BY DEF TypeInv, Monitors, Counts
<1>. SUFFICES sent' \in Nat /\ sent' + Cardinality(Sending') <= MaxReadings
  BY DEF TypeInv, Monitors, Counts, WriterOnly, replayVars
<1>7. buffered \in Nat
  BY <1>1, ApplicationAssumption DEF PM!TypeOK
<1>2. PICK to \in {"begin", "loop", "select", "read", "send", "cleanup", "done"} :
        pc' = [pc EXCEPT ![g] = to] /\ (to = "send" => pc[g] = "read")
  BY <1>1, GoroutineStep
<1>3. \/ buffered' = buffered /\ sent' = sent
      \/ pc[g] = "send" /\ buffered' = buffered + 1 /\ sent' = sent + 1
  BY <1>1, <1>7, GoroutineStep
<1>4. CASE to = "send"
  <2>1. pc[g] = "read" /\ pc'[g] = "send"
    BY <1>1, <1>2, <1>4 DEF PM!TypeOK
  <2>2. sent + Cardinality(Sending) < MaxReadings
    BY <2>1 DEF Monitors, Sending
  <2>3. Sending' = Sending \cup {g} /\ g \notin Sending
    BY <1>1, <1>2, <1>4, <2>1 DEF Sending, PM!TypeOK
  <2>4. Cardinality(Sending') = Cardinality(Sending) + 1
    BY <2>3, SendingFinite, FS_AddElement
  <2>. QED
    BY <1>1, <1>3, <2>1, <2>2, <2>4, SendingFinite, ApplicationAssumption
<1>5. CASE to # "send" /\ pc[g] = "send"
  <2>1. Sending' = Sending \ {g} /\ g \in Sending
    BY <1>1, <1>2, <1>5 DEF Sending, PM!TypeOK
  <2>2. Cardinality(Sending') = Cardinality(Sending) - 1
    BY <2>1, SendingFinite, FS_RemoveElement
  <2>. QED
    BY <1>1, <1>3, <2>2, SendingFinite, ApplicationAssumption
<1>6. CASE to # "send" /\ pc[g] # "send"
  <2>1. Sending' = Sending
    BY <1>1, <1>2, <1>6 DEF Sending, PM!TypeOK
  <2>. QED
    BY <1>1, <1>3, <1>6, <2>1
<1>. QED
  BY <1>4, <1>5, <1>6

\* What a step of the replay does to the readings.
LEMMA ReplayKinds ==
  ASSUME Replay, pending \in Nat, flushed \in Nat
  PROVE  /\ UNCHANGED <<monitorVars, main, shutdown, writer, sent, dropped, finalFlush>>
         /\ \/ listed' \in 1..cached /\ UNCHANGED <<unflushed, pending, flushed, cached>>
            \/ /\ listed > 0 /\ unflushed < ReplayBatch
               /\ listed' = listed - 1 /\ cached' = cached - 1
               /\ pending' = pending + 1 /\ unflushed' = unflushed + 1
               /\ UNCHANGED flushed
            \/ /\ listed > 0 /\ listed' = listed - 1
               /\ UNCHANGED <<unflushed, pending, flushed, cached>>
            \/ /\ pending' = 0 /\ flushed' = flushed + pending /\ unflushed' = 0
               /\ UNCHANGED <<listed, cached>>
BY DEF Replay, ReplayBegins, ReplayPuts, ReplayPutsOn, ReplaySkips, ReplayFlushesBatch,
       ReplayEnds, ReplayFlushes, ReplayOnly, mainVars

\* No other step makes a goroutine come to its send.
LEMMA TypeInvNext == TypeInv /\ [Next]_vars => TypeInv'
<1>. SUFFICES ASSUME TypeInv, [Next]_vars PROVE TypeInv'
  OBVIOUS
<1>. USE DEF monitorVars, mainVars, readings, replayVars
<1>1. PM!TypeOK' /\ PM!TypeOK /\ OwnTyped /\ Counts
  BY MonitorStep, MonitorTyped DEF TypeInv
<1>2. SUFFICES OwnTyped' /\ (Counts' \/ UNCHANGED <<readings, listed, unflushed, Sending>>)
  BY <1>1 DEF TypeInv, Counts
<1>3. CASE UNCHANGED vars
  BY <1>1, <1>3 DEF vars, OwnTyped, Sending
<1>4. ASSUME NEW d \in Devices, StartsDevice(d)
      PROVE  OwnTyped' /\ UNCHANGED <<readings, listed, unflushed, Sending>>
  <2>1. OwnTyped' /\ UNCHANGED <<readings, listed, unflushed>>
    BY <1>1, <1>4 DEF StartsDevice, OwnTyped
  <2>2. CASE UNCHANGED monitorVars
    BY <2>1, <2>2 DEF Sending
  <2>3. CASE PM!StartMonitoringDevice(d)
    <3>1. /\ PM!Fresh \in Goroutines /\ pc[PM!Fresh] = "unborn"
          /\ pc' = [pc EXCEPT ![PM!Fresh] = "begin"]
      BY <2>3 DEF PM!StartMonitoringDevice, PM!Starts, PM!Fresh, PM!Goto
    <3>. QED
      BY <1>1, <2>1, <3>1 DEF Sending, PM!TypeOK
  <2>. QED
    BY <1>4, <2>1, <2>2, <2>3 DEF StartsDevice
<1>5. CASE Scan \/ EndsScan \/ TicksForScan \/ TicksWhenDone \/ MainSeesDone
  BY <1>1, <1>5 DEF Scan, EndsScan, TicksForScan, TicksWhenDone, MainSeesDone, MainGoes,
                    MainOnly, OwnTyped, Sending
<1>6. CASE Flushes
  <2>1. OwnTyped' /\ UNCHANGED Sending
    BY <1>1, <1>6 DEF Flushes, MainOnly, OwnTyped, Sending
  <2>2. /\ pending' = 0 /\ flushed' = flushed + pending
        /\ UNCHANGED <<sent, cached, dropped, listed, unflushed>>
    BY <1>6 DEF Flushes, MainOnly
  <2>. QED
    BY <1>1, <2>1, <2>2 DEF Counts
<1>14. CASE FlushTimesOut \/ WaitsForAll \/ Exits
  BY <1>1, <1>14 DEF FlushTimesOut, WaitsForAll, Exits, MainGoes, MainOnly, OwnTyped, Sending
<1>7. CASE Signal \/ StopsServer
  BY <1>1, <1>7 DEF Signal, StopsServer, ShutdownOnly, OwnTyped, Sending
<1>8. CASE StopsMonitor \/ MonitorWaits \/ MonitorStopped
  BY <1>1, <1>8 DEF StopsMonitor, MonitorWaits, MonitorStopped, ShutdownOnly, PM!Stop,
                    PM!StopWaits, PM!WaitReturns, PM!StopCloses, PM!goroutines,
                    OwnTyped, Sending
<1>9. CASE Cancels
  BY <1>1, <1>9 DEF Cancels, ShutdownOnly, PM!CancelContext, PM!goroutines, OwnTyped,
                    Sending
<1>10. CASE AppliesConfig \/ ConfigSeesDone
  BY <1>1, <1>10 DEF AppliesConfig, ConfigSeesDone, PM!UpdatePollInterval, OwnTyped,
                     Sending
<1>11. CASE WriterReceives \/ WriterSeesClosed \/ WriterSeesDone
  BY <1>1, <1>11 DEF WriterReceives, WriterSeesClosed, WriterSeesDone, WriterOnly,
                     PM!Receive, PM!goroutines, OwnTyped, Sending
<1>12. CASE WriterPasses
  BY <1>1, <1>12 DEF WriterPasses, WriterSkipsCheck, WriterOnly, OwnTyped, Sending
<1>15. CASE WriterPuts \/ WriterCaches \/ WriterDrops \/ ClientFlushes
  <2>1. OwnTyped' /\ UNCHANGED <<Sending, sent, listed, unflushed>>
    BY <1>1, <1>15 DEF WriterPuts, WriterCaches, WriterDrops, ClientFlushes, WriterOnly,
                       OwnTyped, Sending
  <2>2. \/ pending' = pending + 1 /\ UNCHANGED <<flushed, cached, dropped>>
        \/ cached' = cached + 1 /\ UNCHANGED <<pending, flushed, dropped>>
        \/ dropped' = dropped + 1 /\ UNCHANGED <<pending, flushed, cached>>
        \/ pending' = 0 /\ flushed' = flushed + pending /\ UNCHANGED <<cached, dropped>>
    BY <1>15 DEF WriterPuts, WriterCaches, WriterDrops, ClientFlushes
  <2>. QED
    BY <1>1, <2>1, <2>2 DEF Counts
<1>16. CASE Replay
  <2>1. OwnTyped' /\ UNCHANGED <<Sending, sent, dropped>>
    BY <1>1, <1>16 DEF Replay, ReplayBegins, ReplayPuts, ReplayPutsOn, ReplaySkips,
                       ReplayFlushesBatch, ReplayEnds, ReplayFlushes, ReplayOnly,
                       OwnTyped, Sending
  <2>. QED
    BY <1>1, <1>16, <2>1, ReplayKinds, ApplicationAssumption DEF Counts
<1>13. ASSUME NEW g \in Goroutines, Monitors(g) PROVE OwnTyped' /\ Counts'
  BY <1>1, <1>13, SendsCounted DEF Monitors, WriterOnly, OwnTyped
<1>. QED
  BY <1>3, <1>4, <1>5, <1>6, <1>7, <1>8, <1>9, <1>10, <1>11, <1>12, <1>13,
     <1>14, <1>15, <1>16 DEF Next, Main, Shutdown, Writer

LEMMA AlwaysTypeInv == Spec => []TypeInv
<1>1. Init => TypeInv
  <2>. SUFFICES ASSUME Init PROVE TypeInv
    OBVIOUS
  <2>1. Sending = {}
    BY DEF Init, PM!Init, Sending
  <2>2. sent = 0 /\ Cardinality(Sending) = 0
    BY <2>1, FS_EmptySet DEF Init
  <2>. QED
    <3>1. OwnTyped
      BY DEF Init, OwnTyped
    <3>2. Counts
      BY <2>2, ApplicationAssumption DEF Init, Counts
    <3>. QED
      BY <3>1, <3>2, MonitorTyped DEF Init, TypeInv
<1>. QED
  BY <1>1, TypeInvNext, PTL DEF Spec

\* Type correctness of the application and of the monitor in it.
THEOREM ApplicationTyped == Spec => []TypeOK
<1>1. TypeInv => TypeOK
  <2>1. Counts => /\ sent \in 0..MaxReadings
                  /\ pending \in Nat /\ flushed \in Nat /\ cached \in Nat
                  /\ dropped \in Nat /\ listed \in 0..cached
                  /\ unflushed \in 0..ReplayBatch
    BY SendingFinite, ApplicationAssumption DEF Counts
  <2>. QED
    BY <2>1 DEF TypeInv, OwnTyped, TypeOK
<1>. QED
  BY <1>1, AlwaysTypeInv, PTL
-----------------------------------------------------------------------------
\* Every reading that was sent is in one place, and the writer that saw the
\* channel closed has left none in it.
WithWriter == IF writer \in {"check", "put"} THEN 1 ELSE 0

Counted ==
  /\ sent = buffered + WithWriter + pending + flushed + cached + dropped
  /\ writer = "drained" => closed /\ buffered = 0

LEMMA CountedNext == TypeInv /\ Counted /\ [Next]_vars => Counted'
<1>. SUFFICES ASSUME TypeInv, Counted, [Next]_vars PROVE Counted'
  OBVIOUS
<1>. USE DEF monitorVars, mainVars, readings, replayVars
<1>1. /\ PM!TypeOK /\ buffered \in Nat
      /\ sent \in Nat /\ pending \in Nat /\ flushed \in Nat /\ cached \in Nat
      /\ dropped \in Nat
  BY ApplicationAssumption DEF TypeInv, Counts, PM!TypeOK
<1>2. CASE UNCHANGED <<buffered, closed, writer, readings>>
  BY <1>2 DEF Counted, WithWriter
<1>3. CASE UNCHANGED vars
  BY <1>2, <1>3 DEF vars
<1>4. ASSUME NEW d \in Devices, StartsDevice(d)
      PROVE  UNCHANGED <<buffered, closed, writer, readings>>
  BY <1>4 DEF StartsDevice, PM!StartMonitoringDevice, PM!Starts, PM!channel
<1>5. CASE Scan \/ EndsScan \/ TicksForScan \/ TicksWhenDone \/ MainSeesDone
             \/ FlushTimesOut \/ WaitsForAll \/ Exits
  BY <1>2, <1>5 DEF Scan, EndsScan, TicksForScan, TicksWhenDone, MainSeesDone,
                    FlushTimesOut, WaitsForAll, Exits, MainGoes, MainOnly
<1>6. CASE Flushes
  <2>1. /\ pending' = 0 /\ flushed' = flushed + pending
        /\ UNCHANGED <<buffered, closed, writer, sent, cached, dropped>>
    BY <1>6 DEF Flushes, MainOnly
  <2>. QED
    BY <1>1, <2>1 DEF Counted, WithWriter
<1>7. CASE Signal \/ StopsServer \/ StopsMonitor \/ MonitorWaits \/ Cancels
  BY <1>2, <1>7 DEF Signal, StopsServer, StopsMonitor, MonitorWaits, Cancels,
                    ShutdownOnly, PM!Stop, PM!StopWaits, PM!WaitReturns,
                    PM!CancelContext, PM!channel
<1>8. CASE MonitorStopped
  <2>1. closed' = TRUE /\ UNCHANGED <<buffered, writer, readings>>
    BY <1>8 DEF MonitorStopped, ShutdownOnly, PM!StopCloses
  <2>. QED
    BY <2>1 DEF Counted, WithWriter
<1>9. CASE AppliesConfig \/ ConfigSeesDone
  BY <1>2, <1>9 DEF AppliesConfig, ConfigSeesDone, PM!UpdatePollInterval, PM!channel
<1>10. CASE WriterReceives
  <2>1. /\ writer = "select" /\ writer' = "check"
        /\ buffered' = buffered - 1 /\ UNCHANGED readings
    BY <1>10 DEF WriterReceives, PM!Receive
  <2>. QED
    BY <1>1, <2>1 DEF Counted, WithWriter
<1>11. CASE WriterSeesClosed
  <2>1. /\ writer = "select" /\ writer' = "drained" /\ closed /\ buffered = 0
        /\ UNCHANGED <<buffered, closed, readings>>
    BY <1>11 DEF WriterSeesClosed
  <2>. QED
    BY <2>1 DEF Counted, WithWriter
<1>12. CASE WriterSeesDone
  <2>1. writer = "select" /\ writer' = "left" /\ UNCHANGED <<buffered, readings>>
    BY <1>12 DEF WriterSeesDone
  <2>. QED
    BY <2>1 DEF Counted, WithWriter
<1>13. CASE WriterPasses
  <2>1. writer = "check" /\ writer' = "put" /\ UNCHANGED <<buffered, readings>>
    BY <1>13 DEF WriterPasses, WriterSkipsCheck
  <2>. QED
    BY <2>1 DEF Counted, WithWriter
<1>14. CASE WriterPuts \/ WriterCaches \/ WriterDrops
  <2>1. /\ writer \in {"check", "put"} /\ writer' = "select"
        /\ UNCHANGED <<buffered, sent, flushed>>
        /\ \/ pending' = pending + 1 /\ UNCHANGED <<cached, dropped>>
           \/ cached' = cached + 1 /\ UNCHANGED <<pending, dropped>>
           \/ dropped' = dropped + 1 /\ UNCHANGED <<pending, cached>>
    BY <1>14 DEF WriterPuts, WriterCaches, WriterDrops
  <2>. QED
    BY <1>1, <2>1 DEF Counted, WithWriter
<1>15. CASE ClientFlushes
  <2>1. /\ pending' = 0 /\ flushed' = flushed + pending
        /\ UNCHANGED <<buffered, closed, writer, sent, cached, dropped>>
    BY <1>15 DEF ClientFlushes
  <2>. QED
    BY <1>1, <2>1 DEF Counted, WithWriter
<1>16. ASSUME NEW g \in Goroutines, Monitors(g) PROVE Counted'
  <2>1. /\ PM!Monitor(g) /\ sent' = sent + (buffered' - buffered)
        /\ UNCHANGED <<writer, pending, flushed, cached, dropped>>
    BY <1>16 DEF Monitors, WriterOnly
  <2>2. UNCHANGED closed /\ (UNCHANGED buffered \/ (~closed /\ buffered' = buffered + 1))
    BY <1>1, <2>1, GoroutineStep
  <2>. QED
    BY <1>1, <2>1, <2>2 DEF Counted, WithWriter
<1>17. CASE Replay
  <2>1. /\ UNCHANGED <<buffered, closed, writer, sent, dropped>>
        /\ \/ UNCHANGED <<pending, flushed, cached>>
           \/ /\ listed > 0 /\ listed \in 0..cached
              /\ cached' = cached - 1 /\ pending' = pending + 1 /\ UNCHANGED flushed
           \/ pending' = 0 /\ flushed' = flushed + pending /\ UNCHANGED cached
    BY <1>1, <1>17, ReplayKinds DEF TypeInv, Counts
  <2>. QED
    BY <1>1, <2>1 DEF Counted, WithWriter
<1>. QED
  BY <1>2, <1>3, <1>4, <1>5, <1>6, <1>7, <1>8, <1>9, <1>10, <1>11, <1>12, <1>13, <1>14,
     <1>15, <1>16, <1>17 DEF Next, Main, Shutdown, Writer

\* The writer that ended because the channel was closed has left no reading on it:
\* each that was ever put there is in the client, in InfluxDB or in the cache, or
\* its write failed, whatever the replay moves meanwhile.
THEOREM DrainedIsHandled == Spec => []DrainedMeansHandled
<1>1. Init => Counted
  BY DEF Init, PM!Init, Counted, WithWriter
<1>2. TypeInv /\ Counted => DrainedMeansHandled
  <2>. SUFFICES ASSUME TypeInv, Counted, writer = "drained"
                PROVE  sent = pending + flushed + cached + dropped
    BY DEF DrainedMeansHandled
  <2>1. WithWriter = 0 /\ buffered = 0
    BY DEF Counted, WithWriter
  <2>. QED
    BY <2>1 DEF Counted, TypeInv, Counts
<1>. QED
  BY <1>1, <1>2, AlwaysTypeInv, CountedNext, PTL DEF Spec
-----------------------------------------------------------------------------
\* The flush comes after the context is done, and from then on the writer begins
\* no write: what it had begun before, and what the replay has put in the client
\* since its own last flush, is all that can follow the flush.
AfterFlush ==
  /\ main = "flush" => appDone
  /\ finalFlush =>
       appDone /\ pending + (IF writer = "put" THEN 1 ELSE 0) <= 1 + unflushed

LEMMA AfterFlushNext == TypeInv /\ AfterFlush /\ [Next]_vars => AfterFlush'
<1>. SUFFICES ASSUME TypeInv, AfterFlush, [Next]_vars PROVE AfterFlush'
  OBVIOUS
<1>. USE DEF monitorVars, mainVars, readings, replayVars
<1>1. PM!TypeOK /\ pending \in Nat /\ flushed \in Nat /\ unflushed \in Nat
  BY DEF TypeInv, Counts
<1>2. CASE UNCHANGED <<main, appDone, finalFlush, pending, writer, unflushed>>
  BY <1>2 DEF AfterFlush
<1>3. CASE UNCHANGED vars
  BY <1>2, <1>3 DEF vars
<1>4. ASSUME NEW d \in Devices, StartsDevice(d)
      PROVE  UNCHANGED <<main, appDone, finalFlush, pending, writer, unflushed>>
  BY <1>4 DEF StartsDevice, PM!StartMonitoringDevice, PM!Starts
<1>5. CASE Scan \/ EndsScan \/ TicksForScan \/ TicksWhenDone \/ MainSeesDone
             \/ FlushTimesOut \/ WaitsForAll \/ Exits
  <2>1. UNCHANGED <<appDone, finalFlush, pending, writer, unflushed>>
    BY <1>5 DEF Scan, EndsScan, TicksForScan, TicksWhenDone, MainSeesDone,
                FlushTimesOut, WaitsForAll, Exits, MainGoes, MainOnly
  <2>2. main' = "flush" => appDone
    BY <1>5 DEF Scan, EndsScan, TicksForScan, TicksWhenDone, MainSeesDone,
                FlushTimesOut, WaitsForAll, Exits, MainGoes
  <2>. QED
    BY <2>1, <2>2 DEF AfterFlush
<1>6. CASE Flushes
  <2>1. /\ main = "flush" /\ main' = "wait" /\ pending' = 0
        /\ UNCHANGED <<appDone, writer, unflushed>>
    BY <1>6 DEF Flushes, MainOnly
  <2>2. appDone'
    BY <2>1 DEF AfterFlush
  <2>3. main' # "flush" /\ pending' + (IF writer' = "put" THEN 1 ELSE 0) <= 1 + unflushed'
    BY <1>1, <2>1
  <2>. QED
    BY <2>2, <2>3 DEF AfterFlush
<1>7. CASE Signal \/ StopsServer \/ StopsMonitor \/ MonitorWaits \/ MonitorStopped
  BY <1>2, <1>7 DEF Signal, StopsServer, StopsMonitor, MonitorWaits, MonitorStopped,
                    ShutdownOnly, PM!Stop, PM!StopWaits, PM!WaitReturns, PM!StopCloses
<1>14. CASE Cancels
  <2>1. UNCHANGED <<main, finalFlush, pending, writer, unflushed>>
    BY <1>14 DEF Cancels, ShutdownOnly
  <2>2. appDone => appDone'
    BY <1>14 DEF Cancels, PM!CancelContext
  <2>. QED
    BY <2>1, <2>2 DEF AfterFlush
<1>8. CASE AppliesConfig \/ ConfigSeesDone
  BY <1>2, <1>8 DEF AppliesConfig, ConfigSeesDone, PM!UpdatePollInterval
<1>9. CASE WriterReceives \/ WriterSeesClosed \/ WriterSeesDone
  <2>1. writer' # "put" /\ UNCHANGED <<main, appDone, finalFlush, pending, unflushed>>
    BY <1>9 DEF WriterReceives, WriterSeesClosed, WriterSeesDone, WriterOnly, PM!Receive
  <2>. QED
    BY <1>1, <2>1 DEF AfterFlush
<1>10. CASE WriterPasses
  <2>1. ~appDone /\ UNCHANGED <<main, appDone, finalFlush>>
    BY <1>10 DEF WriterPasses, WriterSkipsCheck, WriterOnly
  <2>. QED
    BY <2>1 DEF AfterFlush
<1>15. CASE WriterCaches \/ WriterDrops
  <2>1. writer' = "select" /\ UNCHANGED <<main, appDone, finalFlush, pending, unflushed>>
    BY <1>15 DEF WriterCaches, WriterDrops, WriterOnly
  <2>. QED
    BY <1>1, <2>1 DEF AfterFlush
<1>11. CASE WriterPuts
  <2>1. /\ writer = "put" /\ writer' = "select" /\ pending' = pending + 1
        /\ UNCHANGED <<main, appDone, finalFlush, unflushed>>
    BY <1>11 DEF WriterPuts, WriterOnly
  <2>. QED
    BY <1>1, <2>1 DEF AfterFlush
<1>12. CASE ClientFlushes
  <2>1. pending' = 0 /\ UNCHANGED <<main, appDone, finalFlush, writer, unflushed>>
    BY <1>12 DEF ClientFlushes, WriterOnly
  <2>. QED
    BY <1>1, <2>1 DEF AfterFlush
<1>16. CASE Replay
  <2>1. /\ UNCHANGED <<main, appDone, finalFlush, writer>>
        /\ \/ pending' = pending + 1 /\ unflushed' = unflushed + 1
           \/ UNCHANGED <<pending, unflushed>>
           \/ pending' = 0 /\ unflushed' = 0
    BY <1>16 DEF Replay, ReplayBegins, ReplayPuts, ReplayPutsOn, ReplaySkips,
                 ReplayFlushesBatch, ReplayEnds, ReplayFlushes, ReplayOnly
  <2>. QED
    BY <1>1, <2>1 DEF AfterFlush
<1>13. ASSUME NEW g \in Goroutines, Monitors(g)
       PROVE  UNCHANGED <<main, appDone, finalFlush, pending, writer, unflushed>>
  BY <1>1, <1>13, GoroutineStep DEF Monitors, WriterOnly
<1>. QED
  BY <1>2, <1>3, <1>4, <1>5, <1>6, <1>7, <1>8, <1>9, <1>10, <1>11, <1>12, <1>13,
     <1>14, <1>15, <1>16 DEF Next, Main, Shutdown, Writer

\* Readings can come to the client after the final flush: the one the writer was
\* writing, and a batch of the replay, which nobody stops, and no more.
THEOREM FlushMissesFew == Spec => []FlushMissesOneBatch
<1>1. Init => AfterFlush
  BY DEF Init, AfterFlush
<1>2. TypeInv /\ AfterFlush => FlushMissesOneBatch
  BY ApplicationAssumption DEF TypeInv, Counts, AfterFlush, FlushMissesOneBatch
<1>. QED
  BY <1>1, <1>2, AlwaysTypeInv, AfterFlushNext, PTL DEF Spec
-----------------------------------------------------------------------------
\* The order of the shutdown: monitor, context, writer and main goroutine.
InOrder ==
  /\ shutdown = "cancel" \/ appDone => closed
  /\ main \in {"flush", "wait", "last", "exited"} => appDone
  /\ writer \in {"drained", "left"} => closed

LEMMA InOrderNext == TypeInv /\ InOrder /\ [Next]_vars => InOrder'
<1>. SUFFICES ASSUME TypeInv, InOrder, [Next]_vars PROVE InOrder'
  OBVIOUS
<1>. USE DEF monitorVars, mainVars, InOrder
<1>1. PM!TypeOK
  BY DEF TypeInv
<1>2. CASE UNCHANGED <<closed, appDone, shutdown, main, writer>>
  BY <1>2
<1>3. CASE UNCHANGED vars
  BY <1>2, <1>3 DEF vars
<1>4. ASSUME NEW d \in Devices, StartsDevice(d)
      PROVE  UNCHANGED <<closed, appDone, shutdown, main, writer>>
  BY <1>4 DEF StartsDevice, PM!StartMonitoringDevice, PM!Starts, PM!channel
<1>5. CASE Scan \/ EndsScan \/ TicksForScan \/ TicksWhenDone \/ MainSeesDone \/ Flushes
             \/ FlushTimesOut \/ WaitsForAll \/ Exits
  <2>1. UNCHANGED <<closed, appDone, shutdown, writer>>
    BY <1>5 DEF Scan, EndsScan, TicksForScan, TicksWhenDone, MainSeesDone, Flushes,
                FlushTimesOut, WaitsForAll, Exits, MainGoes, MainOnly
  <2>2. main' \in {"flush", "wait", "last", "exited"} =>
          appDone \/ main \in {"flush", "wait", "last", "exited"}
    BY <1>5 DEF Scan, EndsScan, TicksForScan, TicksWhenDone, MainSeesDone, Flushes,
                FlushTimesOut, WaitsForAll, Exits, MainGoes
  <2>. QED
    BY <2>1, <2>2
<1>6. CASE Signal \/ StopsServer \/ StopsMonitor \/ MonitorWaits
  <2>1. /\ UNCHANGED <<closed, appDone, main, writer>>
        /\ shutdown' # "cancel" \/ shutdown' = shutdown
    BY <1>6 DEF Signal, StopsServer, StopsMonitor, MonitorWaits, ShutdownOnly, PM!Stop,
                PM!StopWaits, PM!WaitReturns, PM!channel
  <2>. QED
    BY <2>1
<1>7. CASE MonitorStopped
  <2>1. closed' = TRUE /\ UNCHANGED <<appDone, main, writer>>
    BY <1>7 DEF MonitorStopped, ShutdownOnly, PM!StopCloses
  <2>. QED
    BY <2>1
<1>8. CASE Cancels
  <2>1. /\ shutdown = "cancel" /\ UNCHANGED <<closed, main, writer>>
        /\ appDone => appDone'
    BY <1>8 DEF Cancels, ShutdownOnly, PM!CancelContext, PM!channel
  <2>. QED
    BY <2>1
<1>9. CASE AppliesConfig \/ ConfigSeesDone \/ ClientFlushes \/ Replay
  <2>1. CASE AppliesConfig \/ ConfigSeesDone \/ ClientFlushes
    BY <1>2, <2>1 DEF AppliesConfig, ConfigSeesDone, ClientFlushes, WriterOnly,
                      PM!UpdatePollInterval, PM!channel
  <2>2. CASE Replay
    BY <1>2, <2>2, ReplayKinds DEF TypeInv, Counts
  <2>. QED
    BY <1>9, <2>1, <2>2
<1>10. CASE Writer
  <2>1. /\ UNCHANGED <<closed, appDone, shutdown, main>>
        /\ writer' \in {"drained", "left"} => closed \/ appDone
    BY <1>10 DEF Writer, WriterReceives, WriterSeesClosed, WriterSeesDone, WriterPasses,
                 WriterSkipsCheck, WriterPuts, WriterCaches, WriterDrops, WriterOnly,
                 PM!Receive
  <2>. QED
    BY <2>1
<1>11. ASSUME NEW g \in Goroutines, Monitors(g)
       PROVE  UNCHANGED <<closed, appDone, shutdown, main, writer>>
  BY <1>1, <1>11, GoroutineStep DEF Monitors, WriterOnly
<1>. QED
  BY <1>2, <1>3, <1>4, <1>5, <1>6, <1>7, <1>8, <1>9, <1>10, <1>11
     DEF Next, Main, Shutdown

\* In the application, too, only goroutines started after Stop had waited are left
\* when the channel is closed, and Stop tells all others to end, whenever the main
\* goroutine starts devices.
THEOREM StopInApplication == Spec => [](PM!NoSendAfterClose /\ PM!StopReachesAll)
<1>1. Proved!NoSendAfterClose => PM!NoSendAfterClose
  BY DEF Proved!NoSendAfterClose, PM!NoSendAfterClose, Proved!Running, PM!Running
<1>2. Proved!StopReachesAll => PM!StopReachesAll
  BY DEF Proved!StopReachesAll, PM!StopReachesAll, Proved!Running, PM!Running
<1>3. Proved!Spec => []Proved!NoSendAfterClose
  BY MonitorAssumed, Proved!MonitorNeverSendsLate
<1>4. Proved!Spec => []Proved!StopReachesAll
  BY MonitorAssumed, Proved!MonitorStopReachesAll
<1>. QED
  BY <1>1, <1>2, <1>3, <1>4, ProvedSpec, PTL

\* The writer and the main goroutine outlast the monitor: when they end, on any of
\* their ways, the channel is closed and every goroutine Stop waited for has ended.
THEOREM MonitorEnds == Spec => []MonitorEndsFirst
<1>1. Init => InOrder
  BY DEF Init, PM!Init, InOrder
<1>2. InOrder /\ PM!NoSendAfterClose => MonitorEndsFirst
  BY DEF InOrder, PM!NoSendAfterClose, MonitorEndsFirst
<1>. QED
  BY <1>1, <1>2, AlwaysTypeInv, InOrderNext, StopInApplication, PTL DEF Spec
=============================================================================
