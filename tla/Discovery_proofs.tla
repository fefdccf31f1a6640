--------------------------- MODULE Discovery_proofs ---------------------------
(***************************************************************************)
(* What a scan hears of is monitored and known, for any adverts, any       *)
(* capacity of the entries channel and any number of scans, of which any   *)
(* may fail.                                                               *)
(*                                                                         *)
(* An advert that was answered is in the channel, with the consumer or     *)
(* among the devices found (NothingDropped), and the channel is empty when *)
(* the consumer has ended; a scan that returned waited for that            *)
(* (ReturnedAreDone).  The device map is written before a device joins     *)
(* its scan (FoundAreKnown), and only by consumers that have not ended: by *)
(* the current scan's alone, unless an earlier scan failed (NewestSoFar).  *)
(***************************************************************************)
EXTENDS Discovery, TLAPS

\* The devices map has each device under its own ID, and the monitors' map too.
DevicesKeyed   == \A i \in DOMAIN devices : IdOf(devices[i]) = i
MonitoredKeyed ==
  \A i \in DOMAIN monitored : IdOf(monitored[i]) = i /\ i \in DOMAIN devices

\* What is with a consumer, and what it has put into the map by then.
InHand ==
  \A s \in Scans :
    /\ consumer[s] \in {"map", "append"} => current[s] \in Adverts
    /\ consumer[s] = "append" => IdOf(current[s]) \in DOMAIN devices

FoundAreKnown ==
  \A s \in Scans : \A k \in 1..Len(found[s]) : IdOf(found[s][k]) \in DOMAIN devices

\* The scans that have not begun, and those that have returned or ended.
Unbegun ==
  \A s \in Scans : /\ consumer[s] = "unborn" <=> s > scan
                   /\ consumer[s] = "unborn" => found[s] = <<>>
CallerInScan    == main # "idle" => scan > 0
DoneAreEmpty    == \A s \in Scans : consumer[s] = "done" => s \in closed /\ queue[s] = <<>>
ReturnedAreDone == \A s \in returned : s <= scan /\ consumer[s] = "done"
ReturnedLate ==
  /\ main \in {"browse", "wait", "drain"} => scan \notin returned /\ started = 0
  /\ main = "drain" => scan \in expired
  /\ main = "start" => scan \in returned

\* No advert with an address is lost on its way to the caller.
NothingDropped ==
  \A s \in Scans : \A a \in sent[s] :
    Address(a) # NoAddress =>
      \/ \E k \in 1..Len(queue[s]) : queue[s][k] = a
      \/ consumer[s] \in {"map", "append"} /\ current[s] = a
      \/ \E k \in 1..Len(found[s]) : found[s][k] = a

\* The devices the caller has gone over: of this scan the first few, or all.
GoneOver ==
  /\ main = "start" => \A k \in 1..started :
       Power(found[scan][k]) => IdOf(found[scan][k]) \in DOMAIN monitored
  /\ main = "idle" /\ scan \in returned => \A k \in 1..Len(found[scan]) :
       Power(found[scan][k]) => IdOf(found[scan][k]) \in DOMAIN monitored

\* The map has what the current scan's consumer heard last of a device, while
\* there is no other consumer.
NewestSoFar ==
  scan > 0 /\ 1..(scan - 1) \subseteq returned =>
    /\ consumer[scan] = "append" => devices[IdOf(current[scan])] = current[scan]
    /\ \A i \in 1..Len(found[scan]) :
         \/ devices[IdOf(found[scan][i])] = found[scan][i]
         \/ \E j \in (i + 1)..Len(found[scan]) :
              IdOf(found[scan][j]) = IdOf(found[scan][i])
         \/ consumer[scan] = "append" /\ IdOf(current[scan]) = IdOf(found[scan][i])

ScanInv ==
  /\ TypeOK
  /\ DevicesKeyed /\ MonitoredKeyed /\ InHand /\ FoundAreKnown
  /\ Unbegun /\ CallerInScan /\ DoneAreEmpty /\ ReturnedAreDone /\ ReturnedLate
  /\ NothingDropped /\ GoneOver /\ NewestSoFar
-----------------------------------------------------------------------------
\* A channel after a send and after a receive.
LEMMA Appended ==
  ASSUME NEW s \in Seq(Adverts), NEW a \in Adverts
  PROVE  /\ Append(s, a) \in Seq(Adverts)
         /\ Len(Append(s, a)) = Len(s) + 1
         /\ Append(s, a)[Len(s) + 1] = a
         /\ \A k \in 1..Len(s) : Append(s, a)[k] = s[k]
OBVIOUS

LEMMA Received ==
  ASSUME NEW s \in Seq(Adverts), s # <<>>
  PROVE  /\ Head(s) \in Adverts
         /\ Tail(s) \in Seq(Adverts)
         /\ \A k \in 1..Len(s) :
              s[k] = Head(s) \/ \E j \in 1..Len(Tail(s)) : Tail(s)[j] = s[k]
<1>1. Head(s) \in Adverts /\ Tail(s) \in Seq(Adverts) /\ Len(Tail(s)) = Len(s) - 1
      /\ Head(s) = s[1] /\ Len(s) \in Nat
  OBVIOUS
<1>2. ASSUME NEW k \in 1..Len(s), k # 1
      PROVE  k - 1 \in 1..Len(Tail(s)) /\ Tail(s)[k - 1] = s[k]
  BY <1>1, <1>2
<1>. QED
  BY <1>1, <1>2

\* A caller that is in a scan is in one of the scans there are.
LEMMA ScanIsScan ==
  ASSUME ScanInv, main # "idle"
  PROVE  scan \in Scans
BY DiscoveryAssumption DEF ScanInv, TypeOK, CallerInScan, Scans

LEMMA ScanInit == Init => ScanInv
<1>. SUFFICES ASSUME Init PROVE ScanInv
  OBVIOUS
<1>. USE DiscoveryAssumption DEF Init
<1>1. TypeOK
  BY DEF TypeOK
<1>2. DevicesKeyed /\ MonitoredKeyed /\ InHand /\ FoundAreKnown
  BY DEF DevicesKeyed, MonitoredKeyed, InHand, FoundAreKnown
<1>3. Unbegun /\ CallerInScan /\ DoneAreEmpty /\ ReturnedAreDone /\ ReturnedLate
  BY DEF Unbegun, CallerInScan, DoneAreEmpty, ReturnedAreDone, ReturnedLate, Scans
<1>4. NothingDropped /\ GoneOver /\ NewestSoFar
  BY DEF NothingDropped, GoneOver, NewestSoFar
<1>. QED
  BY <1>1, <1>2, <1>3, <1>4 DEF ScanInv
-----------------------------------------------------------------------------
\* The caller's steps but the first leave the scans' consumers, their channels
\* and what they write alone.
LEMMA CallerKeeps ==
  ASSUME ScanInv, ByCaller, UNCHANGED <<scan, monitored>>
  PROVE  /\ DevicesKeyed' /\ MonitoredKeyed' /\ InHand' /\ FoundAreKnown'
         /\ Unbegun' /\ DoneAreEmpty' /\ NothingDropped'
BY DEF ScanInv, ByCaller, resolver, consumers, DevicesKeyed, MonitoredKeyed, InHand,
       FoundAreKnown, Unbegun, DoneAreEmpty, NothingDropped

LEMMA ReturnedGrowsLate ==
  ASSUME ScanInv, ByCaller, UNCHANGED scan, returned' \subseteq returned \cup {scan}
  PROVE  NewestSoFar'
<1>1. scan \in Nat
  BY DiscoveryAssumption DEF ScanInv, TypeOK
<1>2. 1..(scan - 1) \subseteq returned' => 1..(scan - 1) \subseteq returned
  BY <1>1
<1>. QED
  BY <1>2 DEF ScanInv, NewestSoFar, ByCaller, consumers

\* Browse, with an error or without, and the wait for the scan's time.
LEMMA ScanGoesOn ==
  ASSUME ScanInv, Browses \/ BrowseFails \/ TimesOut
  PROVE  ScanInv'
<1>1. /\ ByCaller /\ UNCHANGED <<scan, monitored, started, returned>>
      /\ main \in {"browse", "wait"} /\ main' \in {"idle", "wait", "drain"}
      /\ expired' = expired \/ expired' = expired \cup {scan}
      /\ main' = "drain" => scan \in expired'
  BY DEF Browses, BrowseFails, TimesOut, CallerGoes, Expires
<1>2. scan \in Scans /\ scan \notin returned
  BY <1>1, ScanIsScan DEF ScanInv, ReturnedLate
<1>3. TypeOK'
  BY <1>1, <1>2 DEF ScanInv, TypeOK, ByCaller, resolver, consumers
<1>4. CallerInScan' /\ ReturnedAreDone' /\ ReturnedLate' /\ GoneOver'
  BY <1>1, <1>2 DEF ScanInv, CallerInScan, ReturnedAreDone, ReturnedLate, GoneOver,
                    ByCaller, consumers
<1>5. NewestSoFar'
  BY <1>1, ReturnedGrowsLate
<1>. QED
  BY <1>1, <1>3, <1>4, <1>5, CallerKeeps DEF ScanInv

\* Discover returns the devices of a scan whose consumer has ended.
LEMMA DrainedKeeps ==
  ASSUME ScanInv, Drained
  PROVE  ScanInv'
<1>1. /\ ByCaller /\ UNCHANGED <<scan, monitored, started, expired>>
      /\ main = "drain" /\ main' = "start"
      /\ consumer[scan] = "done" /\ returned' = returned \cup {scan}
  BY DEF Drained, CallerGoes, Returns
<1>2. scan \in Scans /\ scan \in expired /\ started = 0
  BY <1>1, ScanIsScan DEF ScanInv, ReturnedLate
<1>3. TypeOK'
  BY <1>1, <1>2 DEF ScanInv, TypeOK, ByCaller, resolver, consumers
<1>4. CallerInScan' /\ ReturnedAreDone' /\ ReturnedLate' /\ GoneOver'
  BY <1>1, <1>2 DEF ScanInv, CallerInScan, ReturnedAreDone, ReturnedLate, GoneOver,
                    ByCaller, consumers, TypeOK
<1>5. NewestSoFar'
  BY <1>1, ReturnedGrowsLate
<1>. QED
  BY <1>1, <1>3, <1>4, <1>5, CallerKeeps DEF ScanInv

LEMMA EndsStartKeeps ==
  ASSUME ScanInv, EndsStart
  PROVE  ScanInv'
<1>1. /\ ByCaller /\ UNCHANGED <<scan, monitored, started, returned, expired>>
      /\ main = "start" /\ main' = "idle" /\ started = Len(found[scan])
  BY DEF EndsStart, CallerGoes
<1>2. scan \in Scans
  BY <1>1, ScanIsScan
<1>3. TypeOK'
  BY <1>1 DEF ScanInv, TypeOK, ByCaller, resolver, consumers
<1>4. CallerInScan' /\ ReturnedAreDone' /\ ReturnedLate' /\ GoneOver'
  BY <1>1, <1>2 DEF ScanInv, CallerInScan, ReturnedAreDone, ReturnedLate, GoneOver,
                    ByCaller, consumers
<1>5. NewestSoFar'
  BY <1>1, ReturnedGrowsLate
<1>. QED
  BY <1>1, <1>3, <1>4, <1>5, CallerKeeps DEF ScanInv

\* The next of the found devices is started, or it is monitored already.
LEMMA StartsNextKeeps ==
  ASSUME ScanInv, StartsNext
  PROVE  ScanInv'
<1>. DEFINE d == found[scan][started + 1]
            i == IdOf(d)
<1>1. /\ ByCaller /\ UNCHANGED <<scan, main, returned, expired>>
      /\ main = "start" /\ started < Len(found[scan]) /\ started' = started + 1
      /\ monitored' = IF Power(d) /\ i \notin DOMAIN monitored
                      THEN Put(monitored, i, d) ELSE monitored
  BY DEF StartsNext
<1>2. scan \in Scans
  BY <1>1, ScanIsScan
<1>3. /\ started \in Nat /\ Len(found[scan]) \in Nat
      /\ started + 1 \in 1..Len(found[scan]) /\ d \in Adverts
  BY <1>1, <1>2 DEF ScanInv, TypeOK, CallerInScan
<1>4. i \in DOMAIN devices
  BY <1>2, <1>3 DEF ScanInv, FoundAreKnown
<1>5. /\ DOMAIN monitored \subseteq DOMAIN monitored'
      /\ Power(d) => i \in DOMAIN monitored'
      /\ \A j \in DOMAIN monitored' :
           \/ j = i /\ monitored'[j] = d
           \/ j \in DOMAIN monitored /\ monitored'[j] = monitored[j]
  <2>1. CASE Power(d) /\ i \notin DOMAIN monitored
    <3>. HIDE DEF i, d
    <3>1. monitored' = Put(monitored, i, d)
      BY <1>1, <2>1
    <3>2. /\ DOMAIN Put(monitored, i, d) = DOMAIN monitored \cup {i}
          /\ Put(monitored, i, d)[i] = d
          /\ \A j \in DOMAIN monitored : j # i => Put(monitored, i, d)[j] = monitored[j]
      BY DEF Put
    <3>. QED
      BY <3>1, <3>2, <2>1
  <2>2. CASE ~(Power(d) /\ i \notin DOMAIN monitored)
    BY <1>1, <2>2
  <2>. QED
    BY <2>1, <2>2
<1>. HIDE DEF d
<1>6. TypeOK'
  BY <1>1, <1>3, <1>5 DEF ScanInv, TypeOK, ByCaller, resolver, consumers
<1>7. DevicesKeyed' /\ InHand' /\ FoundAreKnown' /\ Unbegun' /\ DoneAreEmpty'
      /\ NothingDropped' /\ CallerInScan' /\ ReturnedAreDone' /\ ReturnedLate'
  BY <1>1 DEF ScanInv, ByCaller, resolver, consumers, DevicesKeyed, InHand,
              FoundAreKnown, Unbegun, DoneAreEmpty, NothingDropped, CallerInScan,
              ReturnedAreDone, ReturnedLate
<1>8. MonitoredKeyed'
  BY <1>1, <1>4, <1>5 DEF ScanInv, ByCaller, MonitoredKeyed
<1>9. GoneOver'
  <2>1. SUFFICES ASSUME NEW k \in 1..(started + 1), Power(found[scan][k])
                 PROVE  IdOf(found[scan][k]) \in DOMAIN monitored'
    BY <1>1 DEF GoneOver, ByCaller, consumers
  <2>2. CASE k = started + 1
    BY <1>5, <2>1, <2>2 DEF d
  <2>3. CASE k # started + 1
    <3>1. k \in 1..started
      BY <1>3, <2>1, <2>3
    <3>. QED
      BY <1>1, <1>5, <2>1, <3>1 DEF ScanInv, GoneOver
  <2>. QED
    BY <2>2, <2>3
<1>10. NewestSoFar'
  BY <1>1, ReturnedGrowsLate
<1>. QED
  BY <1>6, <1>7, <1>8, <1>9, <1>10 DEF ScanInv

\* The next scan begins, with a consumer that has heard of nothing.
LEMMA DiscoverKeeps ==
  ASSUME ScanInv, Discover
  PROVE  ScanInv'
<1>1. /\ UNCHANGED <<devices, returned, monitored, expired, resolver, current, found>>
      /\ main = "idle" /\ main' = "browse" /\ started' = 0
      /\ scan < MaxScans /\ scan' = scan + 1
      /\ consumer' = [consumer EXCEPT ![scan'] = "receive"]
  BY DEF Discover, BeginsScan
<1>2. /\ scan \in Nat /\ scan' \in Scans /\ scan' > 0
      /\ consumer[scan'] = "unborn" /\ found[scan'] = <<>>
  <2>1. scan \in Nat /\ scan' \in Scans /\ scan' > scan
    BY <1>1, DiscoveryAssumption DEF ScanInv, TypeOK, Scans
  <2>. QED
    <3>1. consumer[scan'] = "unborn" <=> scan' > scan
      BY <2>1 DEF ScanInv, Unbegun
    <3>2. consumer[scan'] = "unborn" => found[scan'] = <<>>
      BY <2>1 DEF ScanInv, Unbegun
    <3>. QED
      BY <2>1, <3>1, <3>2 DEF Scans
<1>3. /\ consumer' \in [Scans -> {"unborn", "receive", "map", "append", "done"}]
      /\ consumer'[scan'] = "receive"
      /\ \A s \in Scans : s # scan' => consumer'[s] = consumer[s]
  BY <1>1, <1>2 DEF ScanInv, TypeOK
<1>4. scan' \notin returned
  BY <1>1, <1>2 DEF ScanInv, ReturnedAreDone
<1>5. TypeOK'
  BY <1>1, <1>2, <1>3 DEF ScanInv, TypeOK, resolver, Scans
<1>6. DevicesKeyed' /\ MonitoredKeyed' /\ InHand' /\ FoundAreKnown'
  BY <1>1, <1>3 DEF ScanInv, DevicesKeyed, MonitoredKeyed, InHand, FoundAreKnown
<1>7. Unbegun'
  BY <1>1, <1>2, <1>3 DEF ScanInv, Unbegun, Scans
<1>8. CallerInScan' /\ DoneAreEmpty' /\ ReturnedLate'
  BY <1>1, <1>2, <1>3, <1>4 DEF ScanInv, CallerInScan, DoneAreEmpty, ReturnedLate,
                                resolver
<1>9. ReturnedAreDone'
  BY <1>1, <1>2, <1>3, <1>4 DEF ScanInv, ReturnedAreDone, TypeOK, Scans
<1>10. NothingDropped'
  <2>1. \A s \in Scans : consumer[s] \in {"map", "append"} => consumer'[s] = consumer[s]
    BY <1>2, <1>3
  <2>. QED
    BY <1>1, <2>1 DEF ScanInv, NothingDropped, resolver
<1>11. GoneOver' /\ NewestSoFar'
  BY <1>1, <1>2, <1>3, <1>4 DEF GoneOver, NewestSoFar
<1>. QED
  BY <1>5, <1>6, <1>7, <1>8, <1>9, <1>10, <1>11 DEF ScanInv
-----------------------------------------------------------------------------
\* The resolver ends.
LEMMA ClosesKeeps ==
  ASSUME ScanInv, NEW s \in Scans, Closes(s)
  PROVE  ScanInv'
<1>1. ByResolver /\ closed' = closed \cup {s} /\ UNCHANGED <<queue, sent>>
  BY DEF Closes
<1>2. TypeOK'
  BY <1>1 DEF ByResolver, caller, consumers, ScanInv, TypeOK
<1>3. DoneAreEmpty' /\ NothingDropped'
  BY <1>1 DEF ByResolver, consumers, ScanInv, DoneAreEmpty, NothingDropped
<1>4. GoneOver' /\ NewestSoFar'
  BY <1>1 DEF ByResolver, caller, consumers, ScanInv, GoneOver, NewestSoFar
<1>. QED
  BY <1>1, <1>2, <1>3, <1>4
     DEF ByResolver, caller, consumers, ScanInv, DevicesKeyed, MonitoredKeyed, InHand,
         FoundAreKnown, Unbegun, CallerInScan, ReturnedAreDone, ReturnedLate

\* An advert joins a channel, whose consumer has not ended: it is not closed.
LEMMA AnswersKeeps ==
  ASSUME ScanInv, NEW s \in Scans, NEW a \in Adverts, Answers(s, a)
  PROVE  ScanInv'
<1>1. /\ ByResolver /\ UNCHANGED closed /\ s \notin closed
      /\ queue' = [queue EXCEPT ![s] = Append(@, a)]
      /\ sent' = [sent EXCEPT ![s] = @ \cup {a}]
  BY DEF Answers
<1>2. /\ queue \in [Scans -> Seq(Adverts)] /\ sent \in [Scans -> SUBSET Adverts]
      /\ queue[s] \in Seq(Adverts) /\ Len(queue[s]) \in Nat
  BY DEF ScanInv, TypeOK
<1>3. /\ Append(queue[s], a) \in Seq(Adverts)
      /\ Len(Append(queue[s], a)) = Len(queue[s]) + 1
      /\ Append(queue[s], a)[Len(queue[s]) + 1] = a
      /\ \A k \in 1..Len(queue[s]) : Append(queue[s], a)[k] = queue[s][k]
  BY <1>2, Appended
<1>4. TypeOK'
  BY <1>1, <1>2, <1>3 DEF ScanInv, TypeOK, ByResolver, caller, consumers
<1>5. DoneAreEmpty'
  BY <1>1, <1>2 DEF ScanInv, DoneAreEmpty, ByResolver, consumers
<1>6. NothingDropped'
  <2>1. SUFFICES ASSUME NEW r \in Scans, NEW b \in sent'[r], Address(b) # NoAddress
                 PROVE  \/ \E k \in 1..Len(queue'[r]) : queue'[r][k] = b
                        \/ consumer[r] \in {"map", "append"} /\ current[r] = b
                        \/ \E k \in 1..Len(found[r]) : found[r][k] = b
    BY <1>1 DEF NothingDropped, ByResolver, consumers
  <2>2. CASE r = s /\ b = a
    BY <1>1, <1>2, <1>3, <2>2
  <2>3. CASE r = s /\ b # a
    <3>1. b \in sent[s] /\ queue'[r] = Append(queue[s], a)
      BY <1>1, <1>2, <2>1, <2>3
    <3>2. 1..Len(queue[s]) \subseteq 1..Len(queue'[r])
      BY <1>2, <1>3, <3>1
    <3>. QED
      BY <1>3, <2>1, <2>3, <3>1, <3>2 DEF ScanInv, NothingDropped
  <2>4. CASE r # s
    BY <1>1, <1>2, <2>1, <2>4 DEF ScanInv, NothingDropped
  <2>. QED
    BY <2>2, <2>3, <2>4
<1>. QED
  BY <1>1, <1>4, <1>5, <1>6
     DEF ByResolver, caller, consumers, ScanInv, DevicesKeyed, MonitoredKeyed, InHand,
         FoundAreKnown, Unbegun, CallerInScan, ReturnedAreDone, ReturnedLate, GoneOver,
         NewestSoFar
-----------------------------------------------------------------------------
\* A consumer at work is that of a scan begun and not returned: of the current
\* one, if all those before it have returned.
LEMMA AtWork ==
  ASSUME ScanInv, NEW s \in Scans, consumer[s] \in {"receive", "map", "append"}
  PROVE  /\ s \notin returned /\ scan \in Scans
         /\ 1..(scan - 1) \subseteq returned => s = scan
<1>1. scan \in 0..MaxScans /\ ~(s > scan)
  BY DEF ScanInv, TypeOK, Unbegun
<1>2. s \notin returned
  BY DEF ScanInv, ReturnedAreDone
<1>. QED
  BY <1>1, <1>2, DiscoveryAssumption DEF Scans

\* What a step of a consumer that does not end leaves as it was.
LEMMA ConsumerKeeps ==
  ASSUME ScanInv, NEW s \in Scans, NEW from \in {"receive", "map", "append"},
         NEW to \in {"receive", "map", "append", "done"}, ConsumerGoes(s, from, to)
  PROVE  /\ consumer' \in [Scans -> {"unborn", "receive", "map", "append", "done"}]
         /\ consumer[s] = from /\ consumer'[s] = to
         /\ \A r \in Scans : r # s => consumer'[r] = consumer[r]
         /\ s \notin returned
         /\ UNCHANGED <<caller, closed, sent>>
         /\ CallerInScan' /\ ReturnedAreDone' /\ ReturnedLate'
         /\ \A r \in Scans : consumer'[r] = "unborn" <=> r > scan'
<1>1. /\ consumer \in [Scans -> {"unborn", "receive", "map", "append", "done"}]
      /\ consumer[s] = from /\ consumer' = [consumer EXCEPT ![s] = to]
      /\ UNCHANGED <<caller, closed, sent>>
  BY DEF ConsumerGoes, ScanInv, TypeOK
<1>2. /\ consumer' \in [Scans -> {"unborn", "receive", "map", "append", "done"}]
      /\ consumer'[s] = to /\ \A r \in Scans : r # s => consumer'[r] = consumer[r]
  BY <1>1
<1>3. s \notin returned
  BY <1>1, AtWork
<1>4. CallerInScan' /\ ReturnedAreDone' /\ ReturnedLate'
  BY <1>1, <1>2, <1>3 DEF caller, ScanInv, CallerInScan, ReturnedAreDone, ReturnedLate,
                          TypeOK
<1>5. \A r \in Scans : consumer'[r] = "unborn" <=> r > scan'
  BY <1>1, <1>2 DEF caller, ScanInv, Unbegun
<1>. QED
  BY <1>1, <1>2, <1>3, <1>4, <1>5

\* An entry is taken from a channel.  One without an address is let go.
LEMMA ReceivesKeeps ==
  ASSUME ScanInv, NEW s \in Scans, Receives(s)
  PROVE  ScanInv'
<1>. DEFINE a == Head(queue[s])
            to == IF Address(a) = NoAddress THEN "receive" ELSE "map"
<1>1. /\ queue[s] # <<>> /\ queue' = [queue EXCEPT ![s] = Tail(@)]
      /\ ConsumerGoes(s, "receive", to)
      /\ current' = IF Address(a) = NoAddress THEN current
                    ELSE [current EXCEPT ![s] = a]
      /\ UNCHANGED <<devices, found>>
  BY DEF Receives
<1>2. /\ consumer' \in [Scans -> {"unborn", "receive", "map", "append", "done"}]
      /\ consumer[s] = "receive" /\ consumer'[s] = to
      /\ \A r \in Scans : r # s => consumer'[r] = consumer[r]
      /\ s \notin returned /\ UNCHANGED <<caller, closed, sent>>
      /\ CallerInScan' /\ ReturnedAreDone' /\ ReturnedLate'
      /\ \A r \in Scans : consumer'[r] = "unborn" <=> r > scan'
  <2>1. to \in {"receive", "map", "append", "done"}
    OBVIOUS
  <2>. HIDE DEF to
  <2>. QED
    BY <1>1, <2>1, ConsumerKeeps
<1>3. /\ queue \in [Scans -> Seq(Adverts)] /\ queue[s] \in Seq(Adverts)
      /\ current \in [Scans -> Adverts \cup {NoDevice}]
  BY DEF ScanInv, TypeOK
<1>4. /\ a \in Adverts /\ Tail(queue[s]) \in Seq(Adverts)
      /\ \A k \in 1..Len(queue[s]) :
           queue[s][k] = a \/ \E j \in 1..Len(Tail(queue[s])) : Tail(queue[s])[j] = queue[s][k]
  BY <1>1, <1>3, Received
<1>. HIDE DEF a
<1>5. /\ queue' \in [Scans -> Seq(Adverts)] /\ queue'[s] = Tail(queue[s])
      /\ \A r \in Scans : r # s => queue'[r] = queue[r] /\ current'[r] = current[r]
      /\ current' \in [Scans -> Adverts \cup {NoDevice}]
      /\ to = "map" => current'[s] = a /\ Address(a) # NoAddress
      /\ to = "receive" => Address(a) = NoAddress
      /\ to \in {"receive", "map"}
  BY <1>1, <1>3, <1>4
<1>. HIDE DEF to
<1>6. TypeOK'
  BY <1>1, <1>2, <1>5 DEF ScanInv, TypeOK, caller
<1>7. DevicesKeyed' /\ MonitoredKeyed' /\ FoundAreKnown' /\ GoneOver'
  BY <1>1, <1>2 DEF ScanInv, DevicesKeyed, MonitoredKeyed, FoundAreKnown, GoneOver, caller
<1>8. InHand' /\ Unbegun' /\ DoneAreEmpty'
  <2>1. InHand'
    BY <1>1, <1>2, <1>4, <1>5 DEF ScanInv, InHand
  <2>2. Unbegun'
    BY <1>1, <1>2, <1>5 DEF ScanInv, Unbegun
  <2>3. DoneAreEmpty'
    BY <1>2, <1>5 DEF ScanInv, DoneAreEmpty
  <2>. QED
    BY <2>1, <2>2, <2>3
<1>9. NothingDropped'
  <2>1. SUFFICES ASSUME NEW r \in Scans, NEW b \in sent[r], Address(b) # NoAddress
                 PROVE  \/ \E k \in 1..Len(queue'[r]) : queue'[r][k] = b
                        \/ consumer'[r] \in {"map", "append"} /\ current'[r] = b
                        \/ \E k \in 1..Len(found[r]) : found[r][k] = b
    BY <1>1, <1>2 DEF NothingDropped
  <2>2. \/ \E k \in 1..Len(queue[r]) : queue[r][k] = b
        \/ consumer[r] \in {"map", "append"} /\ current[r] = b
        \/ \E k \in 1..Len(found[r]) : found[r][k] = b
    BY <2>1 DEF ScanInv, NothingDropped
  <2>3. CASE r = s
    <3>1. ASSUME NEW k \in 1..Len(queue[s]), queue[s][k] = b
          PROVE  \/ \E j \in 1..Len(queue'[s]) : queue'[s][j] = b
                 \/ consumer'[s] = "map" /\ current'[s] = b
      <4>1. CASE b = a
        BY <1>2, <1>5, <2>1, <4>1
      <4>2. CASE b # a
        BY <1>4, <1>5, <3>1, <4>2
      <4>. QED
        BY <4>1, <4>2
    <3>. QED
      BY <1>2, <2>2, <2>3, <3>1
  <2>4. CASE r # s
    BY <1>2, <1>5, <2>2, <2>4
  <2>. QED
    BY <2>3, <2>4
<1>10. NewestSoFar'
  <2>1. scan \in Scans
    BY <1>2, AtWork
  <2>2. /\ consumer'[scan] = "append" <=> consumer[scan] = "append"
        /\ consumer[scan] = "append" => current'[scan] = current[scan]
    BY <1>2, <1>5, <2>1
  <2>. QED
    BY <1>1, <1>2, <2>2 DEF ScanInv, NewestSoFar, caller
<1>. QED
  BY <1>2, <1>6, <1>7, <1>8, <1>9, <1>10 DEF ScanInv

\* A device goes into the map, that of the current scan unless one has failed.
LEMMA WritesMapKeeps ==
  ASSUME ScanInv, NEW s \in Scans, WritesMap(s)
  PROVE  ScanInv'
<1>. DEFINE d == current[s]
            i == IdOf(d)
<1>1. /\ ConsumerGoes(s, "map", "append") /\ devices' = Put(devices, i, d)
      /\ UNCHANGED <<queue, current, found>>
  BY DEF WritesMap, PutsDevice
<1>2. /\ consumer' \in [Scans -> {"unborn", "receive", "map", "append", "done"}]
      /\ consumer[s] = "map" /\ consumer'[s] = "append"
      /\ \A r \in Scans : r # s => consumer'[r] = consumer[r]
      /\ s \notin returned /\ UNCHANGED <<caller, closed, sent>>
      /\ CallerInScan' /\ ReturnedAreDone' /\ ReturnedLate'
      /\ \A r \in Scans : consumer'[r] = "unborn" <=> r > scan'
  BY <1>1, ConsumerKeeps
<1>3. d \in Adverts
  BY <1>2 DEF ScanInv, InHand
<1>4. scan \in Scans /\ (1..(scan - 1) \subseteq returned => s = scan)
  BY <1>2, AtWork
<1>5. /\ DOMAIN devices' = DOMAIN devices \cup {i} /\ devices'[i] = d
      /\ \A j \in DOMAIN devices : j # i => devices'[j] = devices[j]
  <2>. HIDE DEF d, i
  <2>. QED
    BY <1>1 DEF Put
<1>6. TypeOK'
  BY <1>1, <1>2, <1>3, <1>5 DEF ScanInv, TypeOK, caller
<1>7. DevicesKeyed' /\ MonitoredKeyed' /\ FoundAreKnown' /\ GoneOver'
  BY <1>1, <1>2, <1>5
     DEF ScanInv, DevicesKeyed, MonitoredKeyed, FoundAreKnown, GoneOver, caller
<1>8. InHand' /\ Unbegun' /\ DoneAreEmpty'
  BY <1>1, <1>2, <1>3, <1>5 DEF ScanInv, InHand, Unbegun, DoneAreEmpty
<1>9. NothingDropped'
  <2>1. \A r \in Scans : consumer[r] \in {"map", "append"} => consumer'[r] \in {"map", "append"}
    BY <1>2
  <2>. QED
    BY <1>1, <1>2, <2>1 DEF ScanInv, NothingDropped
<1>10. NewestSoFar'
  <2>1. SUFFICES ASSUME 1..(scan - 1) \subseteq returned
                 PROVE  /\ devices'[i] = d
                        /\ \A k \in 1..Len(found[s]) :
                             \/ devices'[IdOf(found[s][k])] = found[s][k]
                             \/ \E j \in (k + 1)..Len(found[s]) :
                                  IdOf(found[s][j]) = IdOf(found[s][k])
                             \/ i = IdOf(found[s][k])
    BY <1>1, <1>2, <1>4 DEF NewestSoFar, caller
  <2>2. SUFFICES ASSUME NEW k \in 1..Len(found[s]), IdOf(found[s][k]) # i
                 PROVE  \/ devices'[IdOf(found[s][k])] = found[s][k]
                        \/ \E j \in (k + 1)..Len(found[s]) :
                             IdOf(found[s][j]) = IdOf(found[s][k])
    BY <1>5
  <2>3. devices'[IdOf(found[s][k])] = devices[IdOf(found[s][k])]
    BY <1>5, <2>2 DEF ScanInv, FoundAreKnown
  <2>4. \/ devices[IdOf(found[s][k])] = found[s][k]
        \/ \E j \in (k + 1)..Len(found[s]) : IdOf(found[s][j]) = IdOf(found[s][k])
    BY <1>2, <1>4, <2>1, <2>2 DEF ScanInv, NewestSoFar, Scans
  <2>. QED
    BY <2>3, <2>4
<1>. QED
  BY <1>2, <1>6, <1>7, <1>8, <1>9, <1>10 DEF ScanInv

\* The device in hand, which the map has by now, joins those of its scan.
LEMMA AppendsKeeps ==
  ASSUME ScanInv, NEW s \in Scans, Appends(s)
  PROVE  ScanInv'
<1>. DEFINE d == current[s]
            n == Len(found[s])
<1>1. /\ ConsumerGoes(s, "append", "receive")
      /\ found' = [found EXCEPT ![s] = Append(@, d)]
      /\ current' = [current EXCEPT ![s] = NoDevice]
      /\ UNCHANGED <<devices, queue>>
  BY DEF Appends
<1>2. /\ consumer' \in [Scans -> {"unborn", "receive", "map", "append", "done"}]
      /\ consumer[s] = "append" /\ consumer'[s] = "receive"
      /\ \A r \in Scans : r # s => consumer'[r] = consumer[r]
      /\ s \notin returned /\ UNCHANGED <<caller, closed, sent>>
      /\ CallerInScan' /\ ReturnedAreDone' /\ ReturnedLate'
      /\ \A r \in Scans : consumer'[r] = "unborn" <=> r > scan'
  BY <1>1, ConsumerKeeps
<1>3. d \in Adverts /\ IdOf(d) \in DOMAIN devices
  BY <1>2 DEF ScanInv, InHand
<1>4. scan \in Scans /\ (1..(scan - 1) \subseteq returned => s = scan)
  BY <1>2, AtWork
<1>5. /\ found \in [Scans -> Seq(Adverts)] /\ found[s] \in Seq(Adverts) /\ n \in Nat
      /\ current \in [Scans -> Adverts \cup {NoDevice}]
  BY DEF ScanInv, TypeOK
<1>6. /\ Append(found[s], d) \in Seq(Adverts) /\ Len(Append(found[s], d)) = n + 1
      /\ Append(found[s], d)[n + 1] = d
      /\ \A k \in 1..n : Append(found[s], d)[k] = found[s][k]
  <2>. HIDE DEF d
  <2>. QED
    BY <1>3, <1>5, Appended
<1>7. /\ found' \in [Scans -> Seq(Adverts)] /\ Len(found'[s]) = n + 1 /\ found'[s][n + 1] = d
      /\ \A k \in 1..n : found'[s][k] = found[s][k]
      /\ \A r \in Scans : r # s => found'[r] = found[r] /\ current'[r] = current[r]
      /\ current' \in [Scans -> Adverts \cup {NoDevice}]
  <2>. HIDE DEF d
  <2>. QED
    BY <1>1, <1>5, <1>6
<1>. HIDE DEF d, n
<1>8. TypeOK'
  <2>1. scan > 0 /\ started \in 0..Len(found[scan]) => started \in 0..Len(found'[scan])
    BY <1>4, <1>5, <1>7 DEF n
  <2>. QED
    BY <1>1, <1>2, <1>7, <2>1 DEF ScanInv, TypeOK, caller
<1>9. DevicesKeyed' /\ MonitoredKeyed'
  BY <1>1, <1>2 DEF ScanInv, DevicesKeyed, MonitoredKeyed, caller
<1>10. FoundAreKnown'
  <2>1. \A k \in 1..(n + 1) : IdOf(found'[s][k]) \in DOMAIN devices
    <3>1. \A k \in 1..n : IdOf(found[s][k]) \in DOMAIN devices
      BY DEF ScanInv, FoundAreKnown, n
    <3>2. \A k \in 1..(n + 1) : k = n + 1 \/ k \in 1..n
      BY <1>5
    <3>. QED
      BY <1>3, <1>7, <3>1, <3>2
  <2>2. ASSUME NEW r \in Scans, r # s
        PROVE  \A k \in 1..Len(found'[r]) : IdOf(found'[r][k]) \in DOMAIN devices
    BY <1>7, <2>2 DEF ScanInv, FoundAreKnown
  <2>. QED
    BY <1>1, <1>7, <2>1, <2>2 DEF FoundAreKnown
<1>11. GoneOver'
  <2>1. scan \in returned => found'[scan] = found[scan]
    BY <1>2, <1>4, <1>7
  <2>2. main = "start" => scan \in returned
    BY DEF ScanInv, ReturnedLate
  <2>. QED
    BY <1>2, <2>1, <2>2 DEF ScanInv, GoneOver, caller
<1>12. InHand' /\ Unbegun' /\ DoneAreEmpty'
  <2>1. InHand'
    BY <1>1, <1>2, <1>7 DEF ScanInv, InHand
  <2>2. Unbegun'
    BY <1>2, <1>7 DEF ScanInv, Unbegun
  <2>3. DoneAreEmpty'
    BY <1>1, <1>2 DEF ScanInv, DoneAreEmpty
  <2>. QED
    BY <2>1, <2>2, <2>3
<1>13. NothingDropped'
  <2>1. SUFFICES ASSUME NEW r \in Scans, NEW b \in sent[r], Address(b) # NoAddress
                 PROVE  \/ \E k \in 1..Len(queue[r]) : queue[r][k] = b
                        \/ consumer'[r] \in {"map", "append"} /\ current'[r] = b
                        \/ \E k \in 1..Len(found'[r]) : found'[r][k] = b
    BY <1>1, <1>2 DEF NothingDropped
  <2>2. CASE r = s
    <3>1. \/ \E k \in 1..Len(queue[s]) : queue[s][k] = b
          \/ d = b
          \/ \E k \in 1..n : found[s][k] = b
      BY <2>1, <2>2 DEF ScanInv, NothingDropped, d, n
    <3>2. n + 1 \in 1..(n + 1) /\ \A k \in 1..n : k \in 1..(n + 1)
      BY <1>5
    <3>. QED
      BY <1>7, <2>2, <3>1, <3>2
  <2>3. CASE r # s
    <3>1. \/ \E k \in 1..Len(queue[r]) : queue[r][k] = b
          \/ consumer[r] \in {"map", "append"} /\ current[r] = b
          \/ \E k \in 1..Len(found[r]) : found[r][k] = b
      BY <2>1 DEF ScanInv, NothingDropped
    <3>. QED
      BY <1>2, <1>7, <2>3, <3>1
  <2>. QED
    BY <2>2, <2>3
<1>14. NewestSoFar'
  <2>1. SUFFICES ASSUME 1..(scan - 1) \subseteq returned
                 PROVE  \A i \in 1..(n + 1) :
                          \/ devices[IdOf(found'[s][i])] = found'[s][i]
                          \/ \E j \in (i + 1)..(n + 1) :
                               IdOf(found'[s][j]) = IdOf(found'[s][i])
    BY <1>1, <1>2, <1>4, <1>7 DEF NewestSoFar, caller
  <2>2. devices[IdOf(d)] = d
    BY <1>2, <1>4, <2>1 DEF ScanInv, NewestSoFar, Scans, d
  <2>3. ASSUME NEW i \in 1..n
        PROVE  \/ devices[IdOf(found'[s][i])] = found'[s][i]
               \/ \E j \in (i + 1)..(n + 1) : IdOf(found'[s][j]) = IdOf(found'[s][i])
    <3>1. \/ devices[IdOf(found[s][i])] = found[s][i]
          \/ \E j \in (i + 1)..n : IdOf(found[s][j]) = IdOf(found[s][i])
          \/ IdOf(d) = IdOf(found[s][i])
      BY <1>4, <2>1 DEF ScanInv, NewestSoFar, Scans, d, n
    <3>2. n + 1 \in (i + 1)..(n + 1)
          /\ \A j \in (i + 1)..n : j \in 1..n /\ j \in (i + 1)..(n + 1)
      BY <1>5
    <3>. QED
      BY <1>7, <3>1, <3>2
  <2>4. \A i \in 1..(n + 1) : i = n + 1 \/ i \in 1..n
    BY <1>5
  <2>. QED
    BY <1>7, <2>2, <2>3, <2>4
<1>. QED
  BY <1>2, <1>8, <1>9, <1>10, <1>11, <1>12, <1>13, <1>14 DEF ScanInv

\* The channel is closed and empty.
LEMMA ConsumerEndsKeeps ==
  ASSUME ScanInv, NEW s \in Scans, ConsumerEnds(s)
  PROVE  ScanInv'
<1>1. /\ s \in closed /\ queue[s] = <<>> /\ ConsumerGoes(s, "receive", "done")
      /\ UNCHANGED <<devices, queue, current, found>>
  BY DEF ConsumerEnds
<1>2. /\ consumer' \in [Scans -> {"unborn", "receive", "map", "append", "done"}]
      /\ consumer[s] = "receive" /\ consumer'[s] = "done"
      /\ \A r \in Scans : r # s => consumer'[r] = consumer[r]
      /\ s \notin returned /\ UNCHANGED <<caller, closed, sent>>
      /\ CallerInScan' /\ ReturnedAreDone' /\ ReturnedLate'
      /\ \A r \in Scans : consumer'[r] = "unborn" <=> r > scan'
  BY <1>1, ConsumerKeeps
<1>3. TypeOK'
  BY <1>1, <1>2 DEF ScanInv, TypeOK, caller
<1>4. DevicesKeyed' /\ MonitoredKeyed' /\ FoundAreKnown' /\ GoneOver'
  BY <1>1, <1>2 DEF ScanInv, DevicesKeyed, MonitoredKeyed, FoundAreKnown, GoneOver, caller
<1>5. InHand' /\ Unbegun' /\ DoneAreEmpty'
  BY <1>1, <1>2 DEF ScanInv, InHand, Unbegun, DoneAreEmpty
<1>6. \A r \in Scans : consumer[r] \in {"map", "append"} => consumer'[r] = consumer[r]
  BY <1>2
<1>7. NothingDropped'
  BY <1>1, <1>2, <1>6 DEF ScanInv, NothingDropped
<1>8. NewestSoFar'
  <2>1. scan \in Scans
    BY <1>2, AtWork
  <2>2. consumer[scan] = "append" <=> consumer'[scan] = "append"
    BY <1>2, <2>1
  <2>. QED
    BY <1>1, <1>2, <2>2 DEF ScanInv, NewestSoFar, caller
<1>. QED
  BY <1>2, <1>3, <1>4, <1>5, <1>7, <1>8 DEF ScanInv
-----------------------------------------------------------------------------
LEMMA ScanNext == ScanInv /\ [Next]_vars => ScanInv'
<1>. SUFFICES ASSUME ScanInv, [Next]_vars PROVE ScanInv'
  OBVIOUS
<1>1. CASE Discover
  BY <1>1, DiscoverKeeps
<1>2. CASE Caller
  BY <1>2, ScanGoesOn, DrainedKeeps, StartsNextKeeps, EndsStartKeeps DEF Caller
<1>3. CASE \E s \in Scans : Closes(s) \/ Consume(s) \/ \E a \in Adverts : Answers(s, a)
  BY <1>3, ClosesKeeps, AnswersKeeps, ReceivesKeeps, WritesMapKeeps, AppendsKeeps,
     ConsumerEndsKeeps DEF Consume
<1>4. CASE UNCHANGED vars
  <2>. USE <1>4 DEF vars, caller, resolver, consumers, ScanInv
  <2>1. TypeOK'
    BY DEF TypeOK
  <2>2. DevicesKeyed' /\ MonitoredKeyed' /\ InHand' /\ FoundAreKnown'
    BY DEF DevicesKeyed, MonitoredKeyed, InHand, FoundAreKnown
  <2>3. Unbegun' /\ CallerInScan' /\ DoneAreEmpty' /\ ReturnedAreDone' /\ ReturnedLate'
    BY DEF Unbegun, CallerInScan, DoneAreEmpty, ReturnedAreDone, ReturnedLate
  <2>4. NothingDropped' /\ GoneOver' /\ NewestSoFar'
    BY DEF NothingDropped, GoneOver, NewestSoFar
  <2>. QED
    BY <2>1, <2>2, <2>3, <2>4
<1>. QED
  BY <1>1, <1>2, <1>3, <1>4 DEF Next

LEMMA AlwaysScanInv == Spec => []ScanInv
BY ScanInit, ScanNext, PTL DEF Spec

\* Type correctness of the scanner, its scans and their caller.
THEOREM ScansTyped == Spec => []TypeOK
<1>1. ScanInv => TypeOK
  BY DEF ScanInv
<1>. QED
  BY <1>1, AlwaysScanInv, PTL

\* readPower finds the device of every monitoring goroutine in the map, under the
\* ID it was started with.
THEOREM MonitoredKnown == Spec => []MonitoredAreKnown
<1>1. ScanInv => MonitoredAreKnown
  BY DEF ScanInv, MonitoredAreKnown, MonitoredKeyed, DevicesKeyed
<1>. QED
  BY <1>1, AlwaysScanInv, PTL

\* No power device that answers with an address is lost between the resolver and
\* StartMonitoringDevice.
THEOREM AnsweredMonitored == Spec => []AnsweredAreMonitored
<1>1. ScanInv => AnsweredAreMonitored
  <2>1. SUFFICES ASSUME ScanInv, main = "idle", scan \in returned,
                        NEW a \in sent[scan], Power(a), Address(a) # NoAddress
                 PROVE  IdOf(a) \in DOMAIN monitored
    BY DEF AnsweredAreMonitored
  <2>2. scan \in Scans /\ consumer[scan] = "done" /\ queue[scan] = <<>>
    BY <2>1 DEF ScanInv, TypeOK, ReturnedAreDone, DoneAreEmpty
  <2>3. \E k \in 1..Len(found[scan]) : found[scan][k] = a
    BY <2>1, <2>2 DEF ScanInv, NothingDropped
  <2>. QED
    BY <2>1, <2>3 DEF ScanInv, GoneOver
<1>. QED
  BY <1>1, AlwaysScanInv, PTL

\* While no scan has failed, the map holds what was heard last of every device.
THEOREM NewestInMap == Spec => []MapIsNewest
<1>1. ScanInv => MapIsNewest
  <2>1. SUFFICES ASSUME ScanInv, main = "start", 1..scan \subseteq returned,
                        NEW i \in DOMAIN found[scan]
                 PROVE  \/ devices[IdOf(found[scan][i])] = found[scan][i]
                        \/ \E j \in i + 1..Len(found[scan]) :
                             IdOf(found[scan][j]) = IdOf(found[scan][i])
    BY DEF MapIsNewest
  <2>2. scan \in Scans /\ found[scan] \in Seq(Adverts)
    BY <2>1, ScanIsScan DEF ScanInv, TypeOK
  <2>3. scan \in returned /\ consumer[scan] = "done" /\ 1..(scan - 1) \subseteq returned
    BY <2>1, <2>2 DEF ScanInv, ReturnedLate, ReturnedAreDone, Scans
  <2>4. i \in 1..Len(found[scan])
    BY <2>1, <2>2
  <2>5. scan \in Nat /\ scan > 0
    BY <2>2, DiscoveryAssumption DEF Scans
  <2>6. consumer[scan] # "append"
    BY <2>3
  <2>7. \A k \in 1..Len(found[scan]) :
          \/ devices[IdOf(found[scan][k])] = found[scan][k]
          \/ \E j \in (k + 1)..Len(found[scan]) :
               IdOf(found[scan][j]) = IdOf(found[scan][k])
    BY <2>1, <2>3, <2>5, <2>6 DEF ScanInv, NewestSoFar
  <2>. QED
    BY <2>4, <2>7
<1>. QED
  BY <1>1, AlwaysScanInv, PTL
=============================================================================
