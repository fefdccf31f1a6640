------------------------ MODULE PowerMonitor_proofs -------------------------
(***************************************************************************)
(* The invariants of PowerMonitor, for any devices, any number of          *)
(* goroutines and any channel.                                             *)
(*                                                                         *)
(* That every entry of the map has its running goroutine, that nothing is *)
(* sent on the closed channel by a goroutine Stop waited for, and that     *)
(* Stop tells all the goroutines it finds to end, hold however the monitor *)
(* is used, with starts while Stop waits and after it.  The converse of    *)
(* the first, hence one goroutine for a device, holds of devices           *)
(* StopMonitoringDevice is not called for.  MCPowerMonitorDuplicate.cfg    *)
(* and MCApplicationLateStart.cfg show what happens otherwise.             *)
(*                                                                         *)
(* Few steps matter to these invariants: StepKinds separates them from the *)
(* rest (QuietStep), and StartEffect and CleanupEffect say what the two    *)
(* that change the running goroutines do.                                  *)
(***************************************************************************)
EXTENDS PowerMonitor, TLAPS

QuietStep ==
  /\ Running' = Running
  /\ UNCHANGED <<monitoredDevices, device, stop, cancelled, closed, panicked, history>>

LEMMA TypeInit == Init => TypeOK
<1>. SUFFICES ASSUME Init PROVE TypeOK
  OBVIOUS
<1>1. buffered \in 0..ChannelSize
  BY MonitorAssumption DEF Init
<1>. QED
  BY <1>1, MonitorAssumption DEF Init, TypeOK, history

LEMMA TypeNext == TypeOK /\ [Next]_vars => TypeOK'
<1>. SUFFICES ASSUME TypeOK, [Next]_vars PROVE TypeOK'
  OBVIOUS
<1>. USE MonitorAssumption DEF TypeOK, history
<1>1. ASSUME NEW d \in Devices, StartMonitoringDevice(d) \/ StopMonitoringDevice(d)
      PROVE  TypeOK'
  <2>1. CASE StartMonitoringDevice(d)
    <3>1. Fresh \in Goroutines
      BY <2>1 DEF StartMonitoringDevice, Starts, Fresh
    <3>. QED
      BY <2>1, <3>1 DEF StartMonitoringDevice, Starts, Goto, channel
  <2>2. CASE StopMonitoringDevice(d)
    BY <2>2 DEF StopMonitoringDevice, channel
  <2>. QED
    BY <1>1, <2>1, <2>2
<1>2. ASSUME NEW i \in Intervals, UpdatePollInterval(i) PROVE TypeOK'
  BY <1>2 DEF UpdatePollInterval, channel
<1>3. CASE Stop \/ StopWaits \/ StopCloses
  BY <1>3 DEF Stop, StopWaits, WaitReturns, StopCloses, channel, goroutines
<1>4. CASE CancelContext \/ Receive
  <2>1. CASE CancelContext
    BY <2>1 DEF CancelContext, channel, goroutines
  <2>2. CASE Receive
    <3>1. buffered' \in 0..ChannelSize
      BY <2>2 DEF Receive
    <3>. QED
      BY <2>2, <3>1 DEF Receive, goroutines
  <2>. QED
    BY <1>4, <2>1, <2>2
<1>5. ASSUME NEW g \in Goroutines,
             Begin(g) \/ Loops(g) \/ SeesDone(g) \/ Ticks(g) \/ SeesUpdate(g)
      PROVE  TypeOK'
  BY <1>5 DEF Begin, Loops, SeesDone, Ticks, SeesUpdate, Goes, Goto, Inside
<1>6. ASSUME NEW g \in Goroutines, ReadFails(g) \/ Reads(g) PROVE TypeOK'
  BY <1>6 DEF ReadFails, Reads, Goes, Goto, Inside
<1>7. ASSUME NEW g \in Goroutines, Sends(g) PROVE TypeOK'
  <2>1. buffered' \in 0..ChannelSize
    BY <1>7 DEF Sends, Puts, Goes
  <2>2. panicked' \in BOOLEAN
    BY <1>7 DEF Sends, Puts, Goes
  <2>3. pc' = [pc EXCEPT ![g] = "select"]
    BY <1>7 DEF Sends, Puts, Goes, Goto
  <2>4. UNCHANGED <<monitoredDevices, pollInterval, stop, closed, appDone, device,
                    interval, cancelled, woken, born, displaced>>
    BY <1>7 DEF Sends, Puts, Goes
  <2>. QED
    BY <2>1, <2>2, <2>3, <2>4
<1>8. ASSUME NEW g \in Goroutines, CleansUp(g) PROVE TypeOK'
  <2>1. monitoredDevices' \in [Devices -> Goroutines \cup {Nobody}]
    <3>1. CASE device[g] \in Devices
      BY <1>8, <3>1 DEF CleansUp, Leaves
    <3>2. CASE device[g] \notin Devices
      BY <1>8, <3>2 DEF CleansUp, Leaves
    <3>. QED
      BY <3>1, <3>2
  <2>2. displaced' \subseteq Goroutines
    BY <1>8 DEF CleansUp
  <2>. QED
    BY <1>8, <2>1, <2>2 DEF CleansUp, Leaves, Goes, Goto
<1>9. CASE UNCHANGED vars
  BY <1>9 DEF vars, channel, goroutines
<1>. QED
  BY <1>1, <1>2, <1>3, <1>4, <1>5, <1>6, <1>7, <1>8, <1>9 DEF Next, Monitor

LEMMA StepKinds ==
  ASSUME TypeOK, [Next]_vars
  PROVE  \/ QuietStep
         \/ \E d \in Devices : StartMonitoringDevice(d) \/ StopMonitoringDevice(d)
         \/ Stop \/ StopWaits \/ StopCloses
         \/ \E g \in Goroutines : Sends(g) \/ CleansUp(g)
<1>. USE DEF QuietStep, Running, TypeOK, history
<1>1. ASSUME NEW i \in Intervals, UpdatePollInterval(i) PROVE QuietStep
  BY <1>1 DEF UpdatePollInterval, channel
<1>2. CASE CancelContext \/ Receive
  BY <1>2 DEF CancelContext, Receive, channel, goroutines
<1>3. ASSUME NEW g \in Goroutines,
             Begin(g) \/ Loops(g) \/ SeesDone(g) \/ Ticks(g) \/ SeesUpdate(g)
      PROVE  QuietStep
  BY <1>3 DEF Begin, Loops, SeesDone, Ticks, SeesUpdate, Goes, Goto, Inside
<1>4. ASSUME NEW g \in Goroutines, ReadFails(g) \/ Reads(g) PROVE QuietStep
  BY <1>4 DEF ReadFails, Reads, Goes, Goto, Inside
<1>5. CASE UNCHANGED vars
  BY <1>5 DEF vars, channel, goroutines
<1>. QED
  BY <1>1, <1>2, <1>3, <1>4, <1>5 DEF Next, Monitor

LEMMA StartEffect ==
  ASSUME TypeOK, NEW d \in Devices, StartMonitoringDevice(d)
  PROVE  /\ monitoredDevices[d] = Nobody
         /\ UNCHANGED <<stop, cancelled, closed, panicked, displaced>>
         /\ \E g \in Goroutines \ Running :
              /\ Running' = Running \cup {g}
              /\ monitoredDevices' = [monitoredDevices EXCEPT ![d] = g]
              /\ device' = [device EXCEPT ![g] = d]
              /\ born' = [born EXCEPT ![g] = stop]
<1>1. Fresh \in Goroutines /\ pc[Fresh] = "unborn"
  BY DEF StartMonitoringDevice, Starts, Fresh
<1>2. Fresh \notin Running /\ Running' = Running \cup {Fresh}
  BY <1>1 DEF StartMonitoringDevice, Starts, Running, Goto, TypeOK
<1>. QED
  BY <1>1, <1>2 DEF StartMonitoringDevice, Starts, channel

LEMMA CleanupEffect ==
  ASSUME TypeOK, NEW g \in Goroutines, CleansUp(g)
  PROVE  /\ g \in Running
         /\ Running' = Running \ {g}
         /\ monitoredDevices' = [monitoredDevices EXCEPT ![device[g]] = Nobody]
         /\ displaced' = displaced \cup ((Goroutines \ {g}) \cap {monitoredDevices[device[g]]})
         /\ UNCHANGED <<device, stop, cancelled, closed, panicked, born>>
BY DEF CleansUp, Leaves, Goes, Goto, Running, TypeOK

\* A send leaves who runs and who is mapped alone.
LEMMA SendEffect ==
  ASSUME TypeOK, NEW g \in Goroutines, Sends(g)
  PROVE  /\ g \in Running
         /\ Running' = Running
         /\ UNCHANGED <<monitoredDevices, device, stop, cancelled, closed, history>>
         /\ ~closed => UNCHANGED panicked
<1>1. pc[g] = "send" /\ pc' = [pc EXCEPT ![g] = "select"]
  BY DEF Sends, Puts, Goes, Goto
<1>2. g \in Running /\ Running' = Running
  BY <1>1 DEF Running, TypeOK
<1>. QED
  BY <1>2 DEF Sends, Puts, Goes, history
-----------------------------------------------------------------------------
LEMMA MappedNext == TypeOK /\ MappedRuns /\ [Next]_vars => MappedRuns'
<1>. SUFFICES ASSUME TypeOK, MappedRuns, [Next]_vars,
                     NEW e \in Devices, monitoredDevices'[e] # Nobody
              PROVE  /\ monitoredDevices'[e] \in Running'
                     /\ device'[monitoredDevices'[e]] = e
  BY DEF MappedRuns
<1>0. monitoredDevices'[e] = monitoredDevices[e]
        => monitoredDevices[e] \in Running /\ device[monitoredDevices[e]] = e
  BY DEF MappedRuns
<1>1. CASE QuietStep \/ Stop \/ StopWaits \/ StopCloses
  BY <1>0, <1>1 DEF QuietStep, Stop, StopWaits, WaitReturns, StopCloses, Running, goroutines
<1>2. ASSUME NEW d \in Devices, StartMonitoringDevice(d)
      PROVE  monitoredDevices'[e] \in Running' /\ device'[monitoredDevices'[e]] = e
  <2>1. PICK g \in Goroutines \ Running :
          /\ Running' = Running \cup {g}
          /\ monitoredDevices' = [monitoredDevices EXCEPT ![d] = g]
          /\ device' = [device EXCEPT ![g] = d]
    BY <1>2, StartEffect
  <2>2. CASE e = d
    BY <2>1, <2>2 DEF TypeOK
  <2>3. CASE e # d
    <3>1. monitoredDevices'[e] = monitoredDevices[e]
      BY <2>1, <2>3 DEF TypeOK
    <3>. QED
      BY <1>0, <2>1, <3>1 DEF TypeOK, Running
  <2>. QED
    BY <2>2, <2>3
<1>3. ASSUME NEW d \in Devices, StopMonitoringDevice(d)
      PROVE  monitoredDevices'[e] \in Running' /\ device'[monitoredDevices'[e]] = e
  BY <1>0, <1>3 DEF StopMonitoringDevice, TypeOK, Running
<1>4. ASSUME NEW g \in Goroutines, Sends(g)
      PROVE  monitoredDevices'[e] \in Running' /\ device'[monitoredDevices'[e]] = e
  BY <1>0, <1>4, SendEffect
<1>5. ASSUME NEW g \in Goroutines, CleansUp(g)
      PROVE  monitoredDevices'[e] \in Running' /\ device'[monitoredDevices'[e]] = e
  <2>1. monitoredDevices'[e] = monitoredDevices[e] /\ e # device[g]
    BY <1>5, CleanupEffect DEF TypeOK
  <2>. QED
    BY <1>0, <1>5, <2>1, CleanupEffect
<1>. QED
  BY <1>1, <1>2, <1>3, <1>4, <1>5, StepKinds

\* Every entry of the device map has a goroutine that runs for that device, in
\* every behaviour: an entry without one would keep the device from ever being
\* monitored again.
THEOREM MonitorMapped == Spec => [](TypeOK /\ MappedRuns)
<1>1. Init => MappedRuns
  BY DEF Init, MappedRuns
<1>. QED
  BY <1>1, TypeInit, TypeNext, MappedNext, PTL DEF Spec
-----------------------------------------------------------------------------
\* The converse, with what it needs of the goroutines' devices.
ExactInv ==
  /\ TypeOK
  /\ RunningIsMapped
  /\ \A g \in Running : device[g] \in Devices

LEMMA ExactNext == ExactInv /\ [Next]_vars => ExactInv'
<1>. SUFFICES ASSUME ExactInv, [Next]_vars, NEW h \in Running'
              PROVE  /\ device'[h] \notin SinglesStopped
                         => monitoredDevices'[device'[h]] = h
                     /\ device'[h] \in Devices
  BY TypeNext DEF ExactInv, RunningIsMapped
<1>. DEFINE Mapped == device[h] \notin SinglesStopped => monitoredDevices[device[h]] = h
<1>0. /\ TypeOK
      /\ h \in Running => Mapped /\ device[h] \in Devices
  BY DEF ExactInv, RunningIsMapped
<1>1. CASE QuietStep \/ Stop \/ StopWaits \/ StopCloses
  BY <1>0, <1>1 DEF QuietStep, Stop, StopWaits, WaitReturns, StopCloses, Running, goroutines
<1>2. ASSUME NEW d \in Devices, StartMonitoringDevice(d)
      PROVE  Mapped' /\ device'[h] \in Devices
  <2>1. PICK g \in Goroutines \ Running :
          /\ Running' = Running \cup {g}
          /\ monitoredDevices' = [monitoredDevices EXCEPT ![d] = g]
          /\ device' = [device EXCEPT ![g] = d]
    BY <1>0, <1>2, StartEffect
  <2>2. CASE h = g
    BY <1>0, <2>1, <2>2 DEF TypeOK
  <2>3. CASE h # g
    <3>1. h \in Running /\ device'[h] = device[h]
      BY <1>0, <2>1, <2>3 DEF TypeOK
    <3>2. h # Nobody
      BY <3>1, MonitorAssumption DEF Running
    <3>3. monitoredDevices[d] = Nobody
      BY <1>0, <1>2, StartEffect
    <3>4. device[h] # d \/ d \in SinglesStopped
      BY <1>0, <3>1, <3>2, <3>3
    <3>. QED
      BY <1>0, <2>1, <3>1, <3>4 DEF TypeOK
  <2>. QED
    BY <2>2, <2>3
<1>3. ASSUME NEW d \in Devices, StopMonitoringDevice(d)
      PROVE  Mapped' /\ device'[h] \in Devices
  BY <1>0, <1>3 DEF StopMonitoringDevice, TypeOK, Running
<1>4. ASSUME NEW g \in Goroutines, Sends(g)
      PROVE  Mapped' /\ device'[h] \in Devices
  BY <1>0, <1>4, SendEffect
<1>5. ASSUME NEW g \in Goroutines, CleansUp(g)
      PROVE  Mapped' /\ device'[h] \in Devices
  <2>1. h \in Running /\ h # g /\ g \in Running
    BY <1>0, <1>5, CleanupEffect
  <2>2. device[h] # device[g] \/ device[h] \in SinglesStopped
    BY <2>1 DEF ExactInv, RunningIsMapped
  <2>. QED
    BY <1>0, <1>5, <2>1, <2>2, CleanupEffect DEF TypeOK
<1>. QED
  BY <1>0, <1>1, <1>2, <1>3, <1>4, <1>5, StepKinds

\* Every goroutine of a device that is not stopped singly, as none is in main.go,
\* is in the map, where Stop finds it, and no two of them read one device
\* (README.md:33).
THEOREM MonitorExact == Spec => [](RunningIsMapped /\ OneGoroutinePerDevice)
<1>1. Init => ExactInv
  BY TypeInit DEF Init, ExactInv, RunningIsMapped, Running
<1>2. ExactInv => RunningIsMapped /\ OneGoroutinePerDevice
  BY DEF ExactInv, RunningIsMapped, OneGoroutinePerDevice
<1>. QED
  BY <1>1, <1>2, ExactNext, PTL DEF Spec
-----------------------------------------------------------------------------
CloseInv ==
  /\ TypeOK
  /\ closed => stop = "returned"
  /\ stop \in {"closing", "returned"} =>
       \A g \in Running : born[g] \in {"closing", "returned"}

LEMMA CloseNext == CloseInv /\ [Next]_vars => CloseInv'
<1>. SUFFICES ASSUME CloseInv, [Next]_vars
              PROVE  /\ closed' => stop' = "returned"
                     /\ stop' \in {"closing", "returned"} =>
                          \A h \in Running' : born'[h] \in {"closing", "returned"}
  BY TypeNext DEF CloseInv
<1>. USE DEF CloseInv
<1>1. CASE QuietStep
  BY <1>1 DEF QuietStep, history
<1>2. ASSUME NEW d \in Devices, StartMonitoringDevice(d)
      PROVE  /\ closed' => stop' = "returned"
             /\ stop' \in {"closing", "returned"} =>
                  \A h \in Running' : born'[h] \in {"closing", "returned"}
  <2>1. /\ UNCHANGED <<stop, closed>>
        /\ \E g \in Goroutines \ Running :
              Running' = Running \cup {g} /\ born' = [born EXCEPT ![g] = stop]
    BY <1>2, StartEffect
  <2>. QED
    BY <2>1 DEF TypeOK, Running
<1>3. ASSUME NEW d \in Devices, StopMonitoringDevice(d)
      PROVE  UNCHANGED <<stop, closed, Running, born>>
  BY <1>3 DEF StopMonitoringDevice, Running, channel, history
<1>4. CASE Stop
  BY <1>4 DEF Stop, channel
<1>5. CASE StopWaits
  BY <1>5 DEF StopWaits, WaitReturns, Running, goroutines, channel
<1>6. CASE StopCloses
  BY <1>6 DEF StopCloses, Running, goroutines, history
<1>7. ASSUME NEW g \in Goroutines, Sends(g)
      PROVE  UNCHANGED <<stop, closed, Running, born>>
  BY <1>7, SendEffect DEF history
<1>8. ASSUME NEW g \in Goroutines, CleansUp(g)
      PROVE  UNCHANGED <<stop, closed, born>> /\ Running' \subseteq Running
  BY <1>8, CleanupEffect
<1>. QED
  BY <1>1, <1>2, <1>3, <1>4, <1>5, <1>6, <1>7, <1>8, StepKinds

\* No goroutine that was started before Stop had waited for them is left once the
\* readings channel is closed: only one started after that can send on the closed
\* channel, which would bring the process down.
THEOREM MonitorNeverSendsLate == Spec => []NoSendAfterClose
<1>1. Init => CloseInv
  BY TypeInit DEF Init, CloseInv
<1>2. CloseInv => NoSendAfterClose
  BY DEF CloseInv, NoSendAfterClose
<1>. QED
  BY <1>1, <1>2, CloseNext, PTL DEF Spec
-----------------------------------------------------------------------------
\* A running goroutine was told to end, is in the map or was removed from it by
\* another; once Stop has been called, those in the map were told or are younger.
ReachInv ==
  /\ TypeOK
  /\ \A g \in Running :
       /\ device[g] \in Devices
       /\ g \in cancelled \/ monitoredDevices[device[g]] = g \/ g \in displaced
       /\ stop # "uncalled" => g \in cancelled \/ born[g] # "uncalled" \/ g \in displaced

LEMMA ReachNext == ReachInv /\ [Next]_vars => ReachInv'
<1>. DEFINE
  Found(h) == h \in cancelled \/ monitoredDevices[device[h]] = h \/ h \in displaced
  Told(h) == h \in cancelled \/ born[h] # "uncalled" \/ h \in displaced
  Kept(h) == device[h] \in Devices /\ Found(h) /\ (stop # "uncalled" => Told(h))
<1>. SUFFICES ASSUME ReachInv, [Next]_vars, NEW h \in Running'
              PROVE  Kept(h)'
  BY TypeNext DEF ReachInv
<1>0. /\ TypeOK
      /\ h \in Running => Kept(h)
      /\ h \in Goroutines /\ h # Nobody
  BY MonitorAssumption DEF ReachInv, Running
<1>1. CASE QuietStep \/ StopWaits \/ StopCloses
  <2>1. CASE QuietStep
    BY <1>0, <2>1 DEF QuietStep, history
  <2>2. CASE StopWaits \/ StopCloses
    <3>1. /\ UNCHANGED <<monitoredDevices, goroutines>>
          /\ stop # "uncalled"
      BY <2>2 DEF StopWaits, WaitReturns, StopCloses
    <3>. QED
      BY <1>0, <3>1 DEF Running, goroutines, history
  <2>. QED
    BY <1>1, <2>1, <2>2
<1>2. ASSUME NEW d \in Devices, StartMonitoringDevice(d) PROVE Kept(h)'
  <2>1. PICK g \in Goroutines \ Running :
          /\ Running' = Running \cup {g}
          /\ monitoredDevices' = [monitoredDevices EXCEPT ![d] = g]
          /\ device' = [device EXCEPT ![g] = d]
          /\ born' = [born EXCEPT ![g] = stop]
    BY <1>0, <1>2, StartEffect
  <2>2. /\ monitoredDevices[d] = Nobody
        /\ UNCHANGED <<stop, cancelled, displaced>>
    BY <1>0, <1>2, StartEffect
  <2>3. CASE h = g
    BY <1>0, <2>1, <2>2, <2>3 DEF TypeOK
  <2>4. CASE h # g
    <3>1. h \in Running
      BY <2>1, <2>4
    <3>2. device'[h] = device[h] /\ born'[h] = born[h]
      BY <1>0, <2>1, <2>4 DEF TypeOK
    <3>3. monitoredDevices[device[h]] = h => device[h] # d
      BY <1>0, <2>2
    <3>. QED
      BY <1>0, <2>1, <2>2, <3>1, <3>2, <3>3 DEF TypeOK
  <2>. QED
    BY <2>3, <2>4
<1>3. ASSUME NEW d \in Devices, StopMonitoringDevice(d) PROVE Kept(h)'
  <2>1. /\ UNCHANGED <<stop, device, Running, born, displaced>>
        /\ cancelled' = cancelled \cup {monitoredDevices[d]}
        /\ monitoredDevices' = [monitoredDevices EXCEPT ![d] = Nobody]
    BY <1>3 DEF StopMonitoringDevice, Running, history
  <2>. QED
    BY <1>0, <2>1 DEF TypeOK
<1>4. CASE Stop
  <2>1. /\ UNCHANGED <<monitoredDevices, device, Running, born, displaced>>
        /\ cancelled' = cancelled \cup (Goroutines \cap {monitoredDevices[d] : d \in Devices})
    BY <1>4 DEF Stop, Running, history
  <2>. QED
    BY <1>0, <2>1
<1>5. ASSUME NEW g \in Goroutines, Sends(g) PROVE Kept(h)'
  BY <1>0, <1>5, SendEffect DEF history
<1>6. ASSUME NEW g \in Goroutines, CleansUp(g) PROVE Kept(h)'
  <2>1. /\ h \in Running /\ h # g
        /\ monitoredDevices' = [monitoredDevices EXCEPT ![device[g]] = Nobody]
        /\ displaced' = displaced \cup ((Goroutines \ {g}) \cap {monitoredDevices[device[g]]})
        /\ UNCHANGED <<device, stop, cancelled, born>>
    BY <1>0, <1>6, CleanupEffect
  <2>2. CASE device[h] = device[g] /\ monitoredDevices[device[h]] = h
    BY <1>0, <2>1, <2>2
  <2>3. CASE device[h] # device[g] \/ monitoredDevices[device[h]] # h
    BY <1>0, <2>1, <2>3 DEF TypeOK
  <2>. QED
    BY <2>2, <2>3
<1>. QED
  BY <1>0, <1>1, <1>2, <1>3, <1>4, <1>5, <1>6, StepKinds

\* Stop tells every goroutine to end that was started before it, but those another
\* goroutine on its way out removed from the map.
THEOREM MonitorStopReachesAll == Spec => []StopReachesAll
<1>1. Init => ReachInv
  BY TypeInit DEF Init, ReachInv, Running
<1>2. ReachInv => StopReachesAll
  BY DEF ReachInv, StopReachesAll
<1>. QED
  BY <1>1, <1>2, ReachNext, PTL DEF Spec
=============================================================================
