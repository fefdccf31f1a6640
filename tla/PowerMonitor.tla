---------------------------- MODULE PowerMonitor ----------------------------
(***************************************************************************)
(* monitoring/power.go: one goroutine for each monitored device, which     *)
(* reads it at every tick and puts the reading on the readings channel,    *)
(* and the calls that start, stop and reconfigure them.                    *)
(*                                                                         *)
(* The calls hold deviceMutex and are one step each, but for Stop, which   *)
(* releases it before it waits for the goroutines and closes the channel;  *)
(* nothing keeps a device from being started meanwhile.  A goroutine runs  *)
(* beside them: it waits in a select, reads the device, sends, and at the  *)
(* end removes the device from the map.  A goroutine stands for the        *)
(* cancel function StartMonitoringDevice made for it.                      *)
(*                                                                         *)
(* The select of a goroutine holds the configUpdate channel as it was when *)
(* the goroutine entered the select; "woken" are the goroutines whose      *)
(* channel was closed since.  Readings are only counted.                   *)
(***************************************************************************)
EXTENDS Naturals, FiniteSets

CONSTANTS
  Devices,           \* device IDs
  Goroutines,        \* bound of this model: goroutines that can be started
  Nobody,            \* neither a goroutine nor a device
  Intervals,         \* poll intervals
  FirstInterval,     \* the one NewPowerMonitor is given
  ChannelSize,       \* capacity of the readings channel
  SinglesStopped     \* devices StopMonitoringDevice is called for

ASSUME MonitorAssumption ==
  /\ Nobody \notin Goroutines \cup Devices
  /\ FirstInterval \in Intervals
  /\ ChannelSize \in Nat \ {0}
  /\ SinglesStopped \subseteq Devices

VARIABLES
  monitoredDevices,  \* pm.monitoredDevices: device -> cancel function
  pollInterval,      \* pm.pollInterval
  stop,              \* Stop: uncalled, waiting, closing, returned
  buffered,          \* readings in the channel
  closed,            \* the channel is closed
  panicked,          \* a goroutine sent on the closed channel
  appDone,           \* the context the devices were started with is done
  pc,                \* where each goroutine is
  device,            \* the device it was started for
  interval,          \* its ticker's interval
  cancelled,         \* goroutines whose cancel function was called
  woken,             \* goroutines whose configUpdate channel is closed
  born,              \* history: where Stop was when each was started
  displaced          \* history: goroutines another one removed from the map

channel == <<buffered, closed, panicked>>
history == <<born, displaced>>
goroutines == <<pc, device, interval, cancelled, woken, history>>
vars == <<monitoredDevices, pollInterval, stop, channel, appDone, goroutines>>

Init ==
  /\ monitoredDevices = [d \in Devices |-> Nobody]
  /\ pollInterval = FirstInterval
  /\ stop = "uncalled"
  /\ buffered = 0
  /\ closed = FALSE
  /\ panicked = FALSE
  /\ appDone = FALSE
  /\ pc = [g \in Goroutines |-> "unborn"]
  /\ device = [g \in Goroutines |-> Nobody]
  /\ interval = [g \in Goroutines |-> FirstInterval]
  /\ cancelled = {}
  /\ woken = {}
  /\ born = [g \in Goroutines |-> "uncalled"]
  /\ displaced = {}

\* The goroutines wg counts, and those with an entry of the map to remove.
Running == {g \in Goroutines : pc[g] \notin {"unborn", "done"}}

\* ctx.Err() is not nil for this goroutine.
Done(g) == appDone \/ g \in cancelled

\* The next goroutine; which of those not yet born it is does not matter.
Fresh == CHOOSE g \in Goroutines : pc[g] = "unborn"

Goto(g, label) == pc' = [pc EXCEPT ![g] = label]
-----------------------------------------------------------------------------
\* A goroutine is started for a device and put in the map; nothing here looks at
\* pm.stopped.
Starts(d) ==
  /\ \E g \in Goroutines : pc[g] = "unborn"
  /\ monitoredDevices' = [monitoredDevices EXCEPT ![d] = Fresh]
  /\ device' = [device EXCEPT ![Fresh] = d]
  /\ born' = [born EXCEPT ![Fresh] = stop]
  /\ Goto(Fresh, "begin")
  /\ UNCHANGED <<pollInterval, stop, channel, appDone, interval, cancelled, woken,
                 displaced>>

\* Mutant: the map is not looked at before a device is started.
StartUnchecked(d) == Starts(d)

\* StartMonitoringDevice, for a device that is not in the map; for the others
\* it returns false.
StartMonitoringDevice(d) == monitoredDevices[d] = Nobody /\ Starts(d)

\* StopMonitoringDevice: the goroutine is cancelled and leaves the map at once,
\* though it runs on until it notices.
StopMonitoringDevice(d) ==
  /\ d \in SinglesStopped
  /\ monitoredDevices[d] # Nobody
  /\ cancelled' = cancelled \cup {monitoredDevices[d]}
  /\ monitoredDevices' = [monitoredDevices EXCEPT ![d] = Nobody]
  /\ UNCHANGED <<pollInterval, stop, channel, appDone, pc, device, interval, woken,
                 history>>

\* UpdatePollInterval, to another interval: closing configUpdate wakes the
\* goroutines that wait on it; those that are elsewhere will wait on the channel
\* that replaces it.
UpdatePollInterval(i) ==
  /\ i # pollInterval
  /\ pollInterval' = i
  /\ woken' = woken \cup {g \in Goroutines : pc[g] = "select"}
  /\ UNCHANGED <<monitoredDevices, stop, channel, appDone, pc, device, interval,
                 cancelled, history>>

\* Mutant: the goroutines are not told to end.
StopOnlyWaits ==
  /\ stop = "uncalled"
  /\ stop' = "waiting"
  /\ UNCHANGED <<monitoredDevices, pollInterval, channel, appDone, goroutines>>

\* Stop: every goroutine in the map is cancelled, ...
Stop ==
  /\ stop = "uncalled"
  /\ stop' = "waiting"
  /\ cancelled' = cancelled \cup (Goroutines \cap {monitoredDevices[d] : d \in Devices})
  /\ UNCHANGED <<monitoredDevices, pollInterval, channel, appDone, pc, device,
                 interval, woken, history>>

\* wg.Wait returns.
WaitReturns ==
  /\ stop' = "closing"
  /\ UNCHANGED <<monitoredDevices, pollInterval, channel, appDone, goroutines>>

\* Mutant: the goroutines are not waited for.
StopWaitsNot == stop = "waiting" /\ WaitReturns

\* ... all goroutines it counts have ended, ...
StopWaits == stop = "waiting" /\ Running = {} /\ WaitReturns

\* ... and the channel is closed.
StopCloses ==
  /\ stop = "closing"
  /\ stop' = "returned" /\ closed' = TRUE
  /\ UNCHANGED <<monitoredDevices, pollInterval, buffered, panicked, appDone, goroutines>>

\* The context passed to StartMonitoringDevice is cancelled.
CancelContext ==
  /\ ~appDone
  /\ appDone' = TRUE
  /\ UNCHANGED <<monitoredDevices, pollInterval, stop, channel, goroutines>>

\* The receiver of the channel takes a reading.
Receive ==
  /\ buffered > 0
  /\ buffered' = buffered - 1
  /\ UNCHANGED <<monitoredDevices, pollInterval, stop, closed, panicked, appDone,
                 goroutines>>
-----------------------------------------------------------------------------
\* A goroutine goes from one place to another, and what is not its own to change.
Goes(g, from, to) ==
  /\ pc[g] = from
  /\ Goto(g, to)
  /\ UNCHANGED <<pollInterval, stop, closed, appDone, device, cancelled, born>>

\* What else a step leaves alone that neither sends nor cleans up.
Inside == UNCHANGED <<monitoredDevices, buffered, panicked, displaced>>

\* monitorDevice begins: the ticker is set to the interval of that moment.
Begin(g) ==
  /\ Goes(g, "begin", "loop")
  /\ interval' = [interval EXCEPT ![g] = pollInterval]
  /\ Inside /\ UNCHANGED woken

\* The loop comes to its select, which takes the configUpdate channel of now.
Loops(g) == Goes(g, "loop", "select") /\ Inside /\ UNCHANGED <<interval, woken>>

\* Its select: the context is done, or a tick comes and the check after it
\* finds that it is, ...
SeesDone(g) ==
  /\ Done(g) /\ Goes(g, "select", "cleanup")
  /\ woken' = woken \ {g}
  /\ Inside /\ UNCHANGED interval

\* ... a tick comes and the device is read, with a new select to follow, ...
Ticks(g) ==
  /\ ~Done(g) /\ Goes(g, "select", "read")
  /\ woken' = woken \ {g}
  /\ Inside /\ UNCHANGED interval

\* ... or configUpdate is closed and the ticker is set anew.
SeesUpdate(g) ==
  /\ g \in woken /\ Goes(g, "select", "loop")
  /\ interval' = [interval EXCEPT ![g] = pollInterval]
  /\ woken' = woken \ {g}
  /\ Inside

\* readPower fails: the error is logged.
ReadFails(g) == Goes(g, "read", "select") /\ Inside /\ UNCHANGED <<interval, woken>>

\* readPower returns a reading.
Reads(g) == Goes(g, "read", "send") /\ Inside /\ UNCHANGED <<interval, woken>>

\* A send that puts the channel's length to "length"; on the closed channel it
\* panics.
Puts(g, length) ==
  /\ Goes(g, "send", "select")
  /\ IF closed
     THEN panicked' = TRUE /\ UNCHANGED buffered
     ELSE buffered' = length /\ UNCHANGED panicked
  /\ UNCHANGED <<monitoredDevices, interval, woken, displaced>>

\* Mutant: the send waits for room in the channel.
SendsWaiting(g) == (closed \/ buffered < ChannelSize) /\ Puts(g, buffered + 1)

\* The reading goes to the channel, or nowhere if it is full.
Sends(g) == Puts(g, IF buffered < ChannelSize THEN buffered + 1 ELSE buffered)

\* The goroutine ends, and leaves a map of monitored devices.
Leaves(g, map) ==
  /\ Goes(g, "cleanup", "done")
  /\ monitoredDevices' = map
  /\ UNCHANGED <<buffered, panicked, interval, woken>>

\* Mutant: the device stays in the map.
CleansNothing(g) == Leaves(g, monitoredDevices) /\ UNCHANGED displaced

\* The deferred calls: whatever the map has for the device is removed.
CleansUp(g) ==
  /\ Leaves(g, [monitoredDevices EXCEPT ![device[g]] = Nobody])
  /\ displaced' = displaced \cup ((Goroutines \ {g}) \cap {monitoredDevices[device[g]]})

\* monitorDevice.
Monitor(g) ==
  Begin(g) \/ Loops(g) \/ SeesDone(g) \/ Ticks(g) \/ SeesUpdate(g)
    \/ ReadFails(g) \/ Reads(g) \/ Sends(g) \/ CleansUp(g)

Next ==
  /\ ~panicked
  /\ \/ \E d \in Devices : StartMonitoringDevice(d) \/ StopMonitoringDevice(d)
     \/ \E i \in Intervals : UpdatePollInterval(i)
     \/ Stop \/ StopWaits \/ StopCloses \/ CancelContext \/ Receive
     \/ \E g \in Goroutines : Monitor(g)

Spec == Init /\ [][Next]_vars

\* Goroutines run, and a select, which chooses among its ready cases at random,
\* does not pass over a done context for ever; nothing says that the receiver
\* receives or that any call is ever made.
FairSpec ==
  /\ Spec
  /\ \A g \in Goroutines : /\ WF_vars(~panicked /\ Monitor(g))
                            /\ SF_vars(~panicked /\ SeesDone(g))
  /\ WF_vars(~panicked /\ (StopWaits \/ StopCloses))
-----------------------------------------------------------------------------
TypeOK ==
  /\ monitoredDevices \in [Devices -> Goroutines \cup {Nobody}]
  /\ pollInterval \in Intervals
  /\ stop \in {"uncalled", "waiting", "closing", "returned"}
  /\ buffered \in 0..ChannelSize
  /\ closed \in BOOLEAN
  /\ panicked \in BOOLEAN
  /\ appDone \in BOOLEAN
  /\ pc \in [Goroutines ->
              {"unborn", "begin", "loop", "select", "read", "send", "cleanup",
               "done"}]
  /\ device \in [Goroutines -> Devices \cup {Nobody}]
  /\ interval \in [Goroutines -> Intervals]
  /\ cancelled \subseteq Goroutines
  /\ woken \subseteq Goroutines
  /\ born \in [Goroutines -> {"uncalled", "waiting", "closing", "returned"}]
  /\ displaced \subseteq Goroutines

\* Every device in the map has a goroutine that runs for it: no interleaving of
\* the deferred delete with starts and stops leaves an entry behind, which
\* would keep the device from ever being monitored again.
MappedRuns ==
  \A d \in Devices : monitoredDevices[d] # Nobody =>
    /\ monitoredDevices[d] \in Running
    /\ device[monitoredDevices[d]] = d

\* Every running goroutine can be reached by Stop: its cancel function is in the
\* map until it has ended; unless its device is stopped singly.
RunningIsMapped ==
  \A g \in Running : device[g] \notin SinglesStopped => monitoredDevices[device[g]] = g

\* README.md:33, duplicate device monitoring prevention: two goroutines never
\* read one device, not even one on its way out and its successor, unless the
\* device is stopped singly.
OneGoroutinePerDevice ==
  \A g, h \in Running :
    device[g] = device[h] /\ device[g] \notin SinglesStopped => g = h

\* The same of devices that are stopped and started again, which main.go does
\* not do.
NoDeviceReadTwice == \A g, h \in Running : device[g] = device[h] => g = h

\* No goroutine is left to send on the closed channel, which would bring the
\* process down, but one that was started after Stop had waited: Stop closes the
\* channel only after the last of the others, those started while it waited
\* among them, has ended.
NoSendAfterClose ==
  closed => \A g \in Running : born[g] \in {"closing", "returned"}

\* Stop has told every goroutine to end that was started before it, so it waits
\* for none of them for ever; but one that another goroutine, on its way out,
\* removed from the map is not found.
StopReachesAll ==
  stop # "uncalled" =>
    \A g \in Running : g \in cancelled \/ born[g] # "uncalled" \/ g \in displaced

\* A cancelled goroutine ends, full channel, idle receiver or not.
CancelledEnds == \A g \in Goroutines : g \in cancelled ~> pc[g] = "done" \/ panicked

\* Stop returns, unless a goroutine runs that nobody has told to end: it gets the
\* Done of every other one, those that are started while it waits included.
StopReturns ==
  stop = "waiting" ~> stop = "returned" \/ \E g \in Running : ~Done(g)

\* The comment on UpdatePollInterval (power.go:291): the change is picked up by
\* each monitoring goroutine on its next tick.
UpdatePickedUp ==
  \A g \in Goroutines : \A i \in Intervals :
    pc[g] \in {"loop", "select"} /\ pollInterval = i
      ~> interval[g] = i \/ pollInterval # i \/ pc[g] \in {"cleanup", "done"}
=============================================================================
