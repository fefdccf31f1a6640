----------------------------- MODULE Discovery ------------------------------
(***************************************************************************)
(* discovery/discovery.go: the scanner and its map of devices, with the    *)
(* caller that starts to monitor what a scan returns (DiscoverAndMonitor   *)
(* in main.go).                                                            *)
(*                                                                         *)
(* A scan starts a goroutine that consumes the entries channel, and has    *)
(* the mDNS resolver of zeroconf browse into that channel until the scan's *)
(* context is done.  The resolver is external: it sends each service it    *)
(* hears of once, also while Browse is about to fail, and closes the       *)
(* channel some time after the context is done, or before, if a query      *)
(* fails.  A scan whose Browse fails returns at once, and its consumer     *)
(* goes on beside the scans that follow.                                   *)
(*                                                                         *)
(* An advert is what a service answers with: it may be renamed, move to    *)
(* another address or change its records between two answers.  A device is *)
(* kept as the advert it was made from, and its port goes with its address.*)
(***************************************************************************)
EXTENDS Naturals, Sequences

CONSTANTS
  Adverts,       \* [service, name, id, clusters, v4, v6]: what may be answered
  PowerClusters, \* C records with the number of a power cluster in them
  NoID,          \* id of an advert without a D record
  NoAddress,     \* v4, v6 of one without such an address
  NoDevice,
  ChannelSize,   \* capacity of the entries channel
  MaxScans       \* bound of this model: scans

Scans == 1..MaxScans

ASSUME DiscoveryAssumption ==
  /\ NoDevice \notin Adverts
  /\ ChannelSize \in Nat \ {0}
  /\ MaxScans \in Nat

VARIABLES
  devices,     \* Scanner.devices
  scan,        \* scans begun, and the number of the last
  main,        \* the caller: idle, browse, wait, drain, start
  returned,    \* scans that returned without an error
  started,     \* devices of the last one StartMonitoringDevice was called for
  monitored,   \* device ID -> the device its goroutine was started with
  expired,     \* scans whose context is done
  queue,       \* the entries channel of each scan
  closed,      \* scans whose channel is closed
  sent,        \* what the resolver has sent in each scan
  consumer,    \* the consumer of each scan: unborn, receive, map, append, done
  current,     \* the device it has in hand
  found        \* discoveredDevices of each scan

resolver  == <<queue, closed, sent>>
consumers == <<consumer, current, found>>
caller    == <<scan, main, returned, started, monitored, expired>>
vars == <<devices, caller, resolver, consumers>>

Init ==
  /\ devices = [i \in {} |-> NoDevice]
  /\ scan = 0
  /\ main = "idle"
  /\ returned = {}
  /\ started = 0
  /\ monitored = [i \in {} |-> NoDevice]
  /\ expired = {}
  /\ queue = [s \in Scans |-> <<>>]
  /\ closed = {}
  /\ sent = [s \in Scans |-> {}]
  /\ consumer = [s \in Scans |-> "unborn"]
  /\ current = [s \in Scans |-> NoDevice]
  /\ found = [s \in Scans |-> <<>>]

Put(map, key, value) ==
  [k \in DOMAIN map \cup {key} |-> IF k = key THEN value ELSE map[k]]

\* parseServiceEntry: the first IPv4 address, or else the first IPv6 address.
Address(a) == IF a.v4 = NoAddress THEN a.v6 ELSE a.v4

\* HasPowerMeasurement.
Power(a) == a.clusters \in PowerClusters

\* GetDeviceID: the D record, or else the address.
IdOf(a) == IF a.id = NoID THEN Address(a) ELSE a.id

\* What the steps of the caller, and of the resolver, leave alone.
ByCaller   == UNCHANGED <<devices, resolver, consumers>>
ByResolver == UNCHANGED <<devices, caller, consumers>>

\* The caller goes from one step to another.
CallerGoes(from, to) ==
  main = from /\ main' = to /\ ByCaller /\ UNCHANGED <<scan, started, monitored>>

Expires == expired' = expired \cup {scan}
Returns == returned' = returned \cup {scan}
-----------------------------------------------------------------------------
\* The next scan begins, and its consumer.
BeginsScan ==
  /\ main = "idle" /\ scan < MaxScans
  /\ scan' = scan + 1
  /\ main' = "browse"
  /\ consumer' = [consumer EXCEPT ![scan'] = "receive"]
  /\ UNCHANGED <<devices, returned, monitored, expired, resolver, current, found>>

\* Mutant: the count of started devices is not reset.
DiscoverResumes == BeginsScan /\ UNCHANGED started

\* The ticker ticks: DiscoverAndMonitor calls Discover, which starts the
\* consumer and begins to browse.  That there is no resolver changes nothing.
Discover == BeginsScan /\ started' = 0

\* Browse returns without an error, ...
Browses == CallerGoes("browse", "wait") /\ UNCHANGED <<returned, expired>>

\* Mutant: an error leaves the scan's context as it is.
BrowseFailsOpen == CallerGoes("browse", "idle") /\ UNCHANGED <<returned, expired>>

\* ... or with one, which Discover returns; its context ends with it, and the
\* consumer is left to itself.
BrowseFails == CallerGoes("browse", "idle") /\ Expires /\ UNCHANGED returned

\* Mutant: Discover returns when its time is up.
TimesOutReturns == CallerGoes("wait", "start") /\ Expires /\ Returns

\* The scan's context is done, by its timeout or the application's end.
TimesOut == CallerGoes("wait", "drain") /\ Expires /\ UNCHANGED returned

\* wg.Wait: the consumer has emptied the channel, and its devices are returned.
Drained ==
  CallerGoes("drain", "start") /\ consumer[scan] = "done" /\ Returns /\ UNCHANGED expired

\* DiscoverAndMonitor goes over the devices of this scan; those that measure
\* power and are not monitored get a goroutine, which keeps the device it is
\* given.
StartsNext ==
  /\ main = "start" /\ started < Len(found[scan])
  /\ LET d == found[scan][started + 1] IN
       monitored' = IF Power(d) /\ IdOf(d) \notin DOMAIN monitored
                    THEN Put(monitored, IdOf(d), d)
                    ELSE monitored
  /\ started' = started + 1
  /\ ByCaller /\ UNCHANGED <<scan, main, returned, expired>>

EndsStart ==
  CallerGoes("start", "idle") /\ started = Len(found[scan]) /\ UNCHANGED <<returned, expired>>
-----------------------------------------------------------------------------
\* The resolver hears of a service it has not sent and puts it on the channel, as
\* it advertises itself at that moment.
Answers(s, a) ==
  /\ consumer[s] # "unborn" /\ s \notin closed
  /\ \A b \in sent[s] : b.service # a.service
  /\ Len(queue[s]) < ChannelSize
  /\ queue' = [queue EXCEPT ![s] = Append(@, a)]
  /\ sent' = [sent EXCEPT ![s] = @ \cup {a}]
  /\ ByResolver /\ UNCHANGED closed

\* The resolver ends and closes the channel; it may do so before its time.
Closes(s) ==
  /\ s \in expired \/ (s = scan /\ main = "wait")
  /\ s \notin closed
  /\ closed' = closed \cup {s}
  /\ ByResolver /\ UNCHANGED <<queue, sent>>
-----------------------------------------------------------------------------
\* A consumer goes from one step to another.
ConsumerGoes(s, from, to) ==
  /\ consumer[s] = from /\ consumer' = [consumer EXCEPT ![s] = to]
  /\ UNCHANGED <<caller, closed, sent>>

\* The consumer takes an entry; parseServiceEntry makes none a device that has
\* no address.
Receives(s) ==
  /\ queue[s] # <<>>
  /\ queue' = [queue EXCEPT ![s] = Tail(@)]
  /\ LET a == Head(queue[s]) IN
       IF Address(a) = NoAddress
       THEN ConsumerGoes(s, "receive", "receive") /\ UNCHANGED current
       ELSE ConsumerGoes(s, "receive", "map") /\ current' = [current EXCEPT ![s] = a]
  /\ UNCHANGED <<devices, found>>

\* The device goes into the map.
PutsDevice(s, map) ==
  /\ ConsumerGoes(s, "map", "append")
  /\ devices' = map
  /\ UNCHANGED <<queue, current, found>>

\* Mutant: a device that is known is left as it is.
WritesNewOnly(s) ==
  PutsDevice(s, IF IdOf(current[s]) \in DOMAIN devices THEN devices
                ELSE Put(devices, IdOf(current[s]), current[s]))

\* Mutant: the map has the devices' names for keys.
WritesByName(s) == PutsDevice(s, Put(devices, current[s].name, current[s]))

\* Under s.mu the device replaces what the map had for its ID, ...
WritesMap(s) == PutsDevice(s, Put(devices, IdOf(current[s]), current[s]))

\* ... and then it joins the devices of its scan.
Appends(s) ==
  /\ ConsumerGoes(s, "append", "receive")
  /\ found' = [found EXCEPT ![s] = Append(@, current[s])]
  /\ current' = [current EXCEPT ![s] = NoDevice]
  /\ UNCHANGED <<devices, queue>>

\* The channel is closed and empty.
ConsumerEnds(s) ==
  /\ s \in closed /\ queue[s] = <<>>
  /\ ConsumerGoes(s, "receive", "done")
  /\ UNCHANGED <<devices, queue, current, found>>
-----------------------------------------------------------------------------
Caller == Browses \/ BrowseFails \/ TimesOut \/ Drained \/ StartsNext \/ EndsStart
Consume(s) == Receives(s) \/ WritesMap(s) \/ Appends(s) \/ ConsumerEnds(s)

Next ==
  \/ Discover \/ Caller
  \/ \E s \in Scans : Closes(s) \/ Consume(s) \/ \E a \in Adverts : Answers(s, a)

Spec == Init /\ [][Next]_vars

\* The goroutines run, a timeout comes, and the resolver closes the channel when
\* its context is done; no scan has to begin and no service to answer.
FairSpec ==
  /\ Spec
  /\ WF_vars(Caller)
  /\ \A s \in Scans : WF_vars(Consume(s)) /\ WF_vars(s \in expired /\ Closes(s))
-----------------------------------------------------------------------------
TypeOK ==
  /\ \A i \in DOMAIN devices : devices[i] \in Adverts
  /\ scan \in 0..MaxScans
  /\ main \in {"idle", "browse", "wait", "drain", "start"}
  /\ returned \subseteq expired /\ expired \subseteq Scans
  /\ scan > 0 => started \in 0..Len(found[scan])
  /\ \A i \in DOMAIN monitored : monitored[i] \in Adverts
  /\ queue \in [Scans -> Seq(Adverts)]
  /\ closed \subseteq Scans
  /\ sent \in [Scans -> SUBSET Adverts]
  /\ consumer \in [Scans -> {"unborn", "receive", "map", "append", "done"}]
  /\ current \in [Scans -> Adverts \cup {NoDevice}]
  /\ found \in [Scans -> Seq(Adverts)]

\* Every power device that answered a scan with an address is monitored when the
\* loop is back at its ticker: none is lost between the resolver, the channel,
\* the consumer and the caller, which read each other's state without a lock.
AnsweredAreMonitored ==
  main = "idle" /\ scan \in returned =>
    \A a \in sent[scan] :
      Power(a) /\ Address(a) # NoAddress => IdOf(a) \in DOMAIN monitored

\* While no scan has failed, the map has for each device what the last scan it
\* answered heard of it: readings carry the name a device has now.
MapIsNewest ==
  main = "start" /\ 1..scan \subseteq returned =>
    \A i \in DOMAIN found[scan] :
      \/ devices[IdOf(found[scan][i])] = found[scan][i]
      \/ \E j \in i + 1..Len(found[scan]) : IdOf(found[scan][j]) = IdOf(found[scan][i])

\* readPower looks a device up by the ID of the device its goroutine was started
\* with: it is always there, and is that device, whatever it was renamed to.  A
\* device with a D record is hence monitored once, wherever it moves.
MonitoredAreKnown ==
  \A i \in DOMAIN monitored :
    /\ IdOf(monitored[i]) = i
    /\ i \in DOMAIN devices
    /\ IdOf(devices[i]) = i

\* Discover returns, to a caller that comes back to its ticker, and the consumer
\* of every scan ends, also the one that a failing Browse left behind.
ScansEnd ==
  /\ main # "idle" ~> main = "idle"
  /\ \A s \in Scans : consumer[s] = "receive" ~> consumer[s] = "done"
-----------------------------------------------------------------------------
\* README.md:33 for a device without a D record, whose ID is its address.
MonitoredOnce ==
  \A i, j \in DOMAIN monitored : monitored[i].service = monitored[j].service => i = j

\* power.go:243, the current device name, also after a scan that failed.
MapIsNewestAlways ==
  main = "start" =>
    \A i \in DOMAIN found[scan] :
      \/ devices[IdOf(found[scan][i])] = found[scan][i]
      \/ \E j \in i + 1..Len(found[scan]) : IdOf(found[scan][j]) = IdOf(found[scan][i])
=============================================================================
