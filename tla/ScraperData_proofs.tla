------------------------- MODULE ScraperData_proofs -------------------------
(* Proofs about Scraper: what a batch holds, and what is logged of the rest. *)
EXTENDS Scraper_proofs

-----------------------------------------------------------------------------
(* The place of a scrape.                                                   *)

\* The order of the steps of a scrape; what comes before the calls is 0.
Order(step) ==
    CASE step = "device"             -> 1
      [] step = "wan-link"           -> 2
      [] step = "bytes-sent"         -> 3
      [] step = "bytes-received"     -> 4
      [] step = "packets-sent"       -> 5
      [] step = "packets-received"   -> 6
      [] step = "wan-utilization"    -> 7
      [] step = "utilization-limits" -> 8
      [] step = "wan-connection"     -> 9
      [] step = "external-ip"        -> 10
      [] step = "dsl"                -> 11
      [] step = "dsl-statistics"     -> 12
      [] step = "wlan"               -> 13
      [] step = "wlan-associations"  -> 14
      [] step = "wlan-statistics"    -> 15
      [] step = "hosts"              -> 16
      [] step = "host-entry"         -> 17
      [] step = "host-info"          -> 18
      [] step = "host-list"          -> 19
      [] step = "resource"           -> 20
      [] step = "device-info"        -> 21
      [] step = "emit"               -> 22
      [] OTHER                       -> 0

\* Is the scrape past the turn of the data point <<c, n>>?  The calls of a
\* radio follow each other radio by radio.
Past(c, n) ==
    IF Radio(c) /\ Radio(pc)
    THEN n < i \/ (n = i /\ Order(c) < Order(pc))
    ELSE Order(c) < Order(pc)

\* The list is fetched only when there is none, and the index of a scrape is
\* that of a radio or a host the device has, or 1.
PlaceInv ==
    /\ pc = "fetching" => services = {}
    /\ Radio(pc) => i \in 1 .. dev.radios
    /\ pc = "host-entry" => i \in 1 .. dev.hosts
    /\ pc \in Calls \cup {"resource"} /\ ~Radio(pc) /\ pc # "host-entry" => i = 1

\* The end of the radios or of the hosts.
LEMMA NextRadioPlace ==
    ASSUME TypeOK, NEW n \in Nat \ {0}, NextRadio(n)
    PROVE  \/ pc' = "wlan" /\ i' = n /\ n \in 1 .. dev.radios
           \/ pc' = "hosts" /\ i' = 1 /\ (n > dev.radios
                                        \/ "WLANConfiguration" \notin services)
<1>1. dev.radios \in Nat
  BY DevicesAssumption DEF TypeOK, Device
<1> QED
  BY <1>1 DEF NextRadio, GoTo

\* A call is followed by a call with an index of its own.
LEMMA AdvancePlace ==
    ASSUME TypeOK, PlaceInv, pc \in Calls, NEW goesOn \in BOOLEAN,
           Advance(pc, goesOn), given' = given, services' = services
    PROVE  PlaceInv'
<1>1. /\ dev' = dev /\ dev.radios \in Nat /\ dev.hosts \in Nat /\ i \in Nat
      /\ pc' # "fetching"
  <2>1. pc' # "fetching"
    BY AdvanceTypes DEF Calls
  <2> QED
    BY <2>1, DevicesAssumption DEF TypeOK, given, Device
<1> SUFFICES /\ Radio(pc') => i' \in 1 .. dev.radios
             /\ pc' = "host-entry" => i' \in 1 .. dev.hosts
             /\ ~Radio(pc') /\ pc' # "host-entry" => i' = 1
  BY <1>1 DEF PlaceInv, Radio
<1>2. ASSUME NEW n \in Nat \ {0}, NextRadio(n)
      PROVE  \/ pc' = "wlan" /\ i' \in 1 .. dev.radios
             \/ pc' = "hosts" /\ i' = 1
  BY <1>2, NextRadioPlace
<1>3. ASSUME AfterHosts
      PROVE  pc' \in {"host-info", "resource"} /\ i' = 1
  BY <1>3 DEF AfterHosts, GoTo
<1>4. CASE pc \in {"device", "wan-link", "bytes-sent", "bytes-received",
                   "packets-sent", "packets-received", "wan-utilization",
                   "utilization-limits", "wan-connection", "external-ip",
                   "host-info", "host-list", "device-info"}
  BY <1>4 DEF Advance, GoTo, Radio
<1>5. CASE pc \in {"dsl", "dsl-statistics"}
  <2>1. NextRadio(1) \/ GoTo("dsl-statistics", 1)
    BY <1>5 DEF Advance
  <2> QED
    BY <2>1, <1>2 DEF GoTo, Radio
<1>6. CASE Radio(pc)
  <2>1. i \in 1 .. dev.radios
    BY <1>6 DEF PlaceInv
  <2>2. \/ NextRadio(i + 1)
        \/ GoTo("wlan-associations", i)
        \/ GoTo("wlan-statistics", i)
    BY <1>6 DEF Advance, Radio
  <2> QED
    BY <1>1, <2>1, <2>2, <1>2 DEF GoTo, Radio
<1>7. CASE pc = "hosts"
  <2>1. (GoTo("host-entry", 1) /\ dev.hosts > 0) \/ AfterHosts
    BY <1>7 DEF Advance
  <2> QED
    BY <1>1, <2>1, <1>3 DEF GoTo, Radio
<1>8. CASE pc = "host-entry"
  <2>1. (GoTo("host-entry", i + 1) /\ i < dev.hosts) \/ AfterHosts
    BY <1>8 DEF Advance
  <2> QED
    BY <1>1, <2>1, <1>3 DEF GoTo, Radio
<1> QED
  BY <1>4, <1>5, <1>6, <1>7, <1>8 DEF Calls, Radio

\* A step of a call advances, and tells the caller whether to go on.
LEMMA CallStep ==
    ASSUME TypeOK, ServiceMissing \/ Answered \/ AnsweredOddly \/ Failed
    PROVE  /\ pc \in Calls /\ given' = given /\ services' = services
           /\ batch' = batch
           /\ Answered => Advance(pc, TRUE)
           /\ AnsweredOddly => Advance(pc, pc \in {"dsl", "wlan-associations"})
           /\ ServiceMissing \/ Failed => Advance(pc, FALSE)
           /\ \E goesOn \in BOOLEAN : Advance(pc, goesOn)
<1>1. pc \in Calls
  BY CallAdvances
<1>2. /\ Answered => Advance(pc, TRUE)
      /\ AnsweredOddly => Advance(pc, pc \in {"dsl", "wlan-associations"})
      /\ ServiceMissing \/ Failed => Advance(pc, FALSE)
  BY DEF ServiceMissing, Answered, AnsweredOddly, Failed
<1>3. (pc \in {"dsl", "wlan-associations"}) \in BOOLEAN
  OBVIOUS
<1>4. \E goesOn \in BOOLEAN : Advance(pc, goesOn)
  BY <1>2, <1>3, Zenon
<1> QED
  BY <1>1, <1>2, <1>4 DEF ServiceMissing, Answered, AnsweredOddly, Failed, given

LEMMA PlaceStep ==
    ASSUME TypeOK, PlaceInv, [Next]_vars
    PROVE  PlaceInv'
<1> USE DEF PlaceInv, Radio, Calls, given
<1>1. CASE Tick \/ Shutdown \/ Emit
  BY <1>1 DEF Tick, Shutdown, Emit, scraperVars
<1>2. CASE DiscoverCached \/ DiscoverFetch \/ Discovered \/ DiscoverFails
  BY <1>2 DEF DiscoverCached, DiscoverFetch, Discovered, DiscoverFails, GoTo,
              scraperVars
<1>3. CASE ServiceMissing \/ Answered \/ AnsweredOddly \/ Failed
  <2>1. \E goesOn \in BOOLEAN : Advance(pc, goesOn)
    BY <1>3, CallStep
  <2> QED
    BY <1>3, <2>1, CallStep, AdvancePlace
<1>4. CASE ReadCache
  BY <1>4 DEF ReadCache, scraperVars
<1>5. CASE Expire \/ UNCHANGED vars
  BY <1>5 DEF Expire, scraperVars, vars
<1> QED
  BY <1>1, <1>2, <1>3, <1>4, <1>5 DEF Next

LEMMA PlaceCorrect == Spec => []PlaceInv
<1>1. Init => PlaceInv
  BY DEF Init, PlaceInv, Radio, Calls
<1>2. TypeOK /\ PlaceInv /\ [Next]_vars => PlaceInv'
  BY PlaceStep
<1> QED
  BY <1>1, <1>2, TypeCorrect, PTL DEF Spec

-----------------------------------------------------------------------------
(* What a batch lacks.                                                      *)

\* A disturbed call took the data point with it.
Lost(p) == \E l \in log : /\ Disturbed(l) /\ l.call \in Chain(p[1])
                          /\ Radio(p[1]) => l.i = p[2]

\* The inductive invariant behind UnaffectedGroupsExport: a wanted data point
\* of known services whose turn is over is in the builder or lost, and one that
\* is missing from the batch of a finished scrape is lost.
ExportInv ==
    /\ \A p \in Wanted :
          Known(p[1]) /\ Past(p[1], p[2]) => p \in buffer \/ Lost(p)
    /\ pc \in {"idle", "stopped"} /\ batch.error # "plain" /\ log # {} =>
          \A p \in Wanted \ batch.metrics : Known(p[1]) => Lost(p)

\* What is known depends on the list alone.
LEMMA KnownFixed ==
    ASSUME services' = services
    PROVE  \A c : Known(c)' <=> Known(c)
BY DEF Known, Offered

\* What makes a data point a wanted one.
LEMMA WantedFacts ==
    ASSUME TypeOK, NEW p \in Wanted
    PROVE  /\ p[1] \in DataCalls /\ p[2] \in Nat \ {0} /\ p = <<p[1], p[2]>>
           /\ Radio(p[1]) => p[2] <= dev.radios
           /\ ~Radio(p[1]) => p[2] = 1
           /\ Enabled(p[1])
           /\ \A c \in Chain(p[1]) :
                 /\ OfferedBy(dev, c)
                 /\ Truth(c) = "ok" \/ (c = "host-entry" /\ dev.hosts = 0)
<1>1. dev.radios \in Nat
  BY DevicesAssumption DEF TypeOK, Device
<1>2. p \in DataCalls \X (1 .. (dev.radios + 1))
  BY DEF Wanted
<1>3. p[2] <= IF Radio(p[1]) THEN dev.radios ELSE 1
  BY DEF Wanted
<1>4. /\ Enabled(p[1])
      /\ \A c \in Chain(p[1]) :
            /\ OfferedBy(dev, c)
            /\ Truth(c) = "ok" \/ (c = "host-entry" /\ dev.hosts = 0)
  BY DEF Wanted
<1> QED
  BY <1>1, <1>2, <1>3, <1>4

\* The data points whose turn a call ends: its own, those that rest on it if
\* the code returns, and the number of active hosts if there is no host.
Ends(c, n, goesOn) ==
    \/ c = pc /\ (Radio(c) => n = i) /\ (c = "host-entry" /\ goesOn => i = dev.hosts)
    \/ ~goesOn /\ pc \in Chain(c) /\ (Radio(c) => n = i)
    \/ c = "host-entry" /\ pc = "hosts" /\ (goesOn => dev.hosts = 0)

\* Where each data point has its turn.
LEMMA OrderOfData ==
    ASSUME NEW c \in DataCalls
    PROVE  \/ c = "device" /\ Order(c) = 1
           \/ c = "wan-link" /\ Order(c) = 2
           \/ c = "bytes-received" /\ Order(c) = 4
           \/ c = "packets-received" /\ Order(c) = 6
           \/ c = "utilization-limits" /\ Order(c) = 8
           \/ c = "wan-connection" /\ Order(c) = 9
           \/ c = "external-ip" /\ Order(c) = 10
           \/ c = "dsl" /\ Order(c) = 11
           \/ c = "dsl-statistics" /\ Order(c) = 12
           \/ c = "wlan" /\ Order(c) = 13
           \/ c = "wlan-associations" /\ Order(c) = 14
           \/ c = "wlan-statistics" /\ Order(c) = 15
           \/ c = "hosts" /\ Order(c) = 16
           \/ c = "host-entry" /\ Order(c) = 17
           \/ c = "host-list" /\ Order(c) = 19
BY DEF Order, DataCalls, Calls

\* ... and each step of a scrape.
LEMMA OrderOfSteps ==
    /\ Order("device") = 1
    /\ Order("wan-link") = 2
    /\ Order("bytes-sent") = 3
    /\ Order("bytes-received") = 4
    /\ Order("packets-sent") = 5
    /\ Order("packets-received") = 6
    /\ Order("wan-utilization") = 7
    /\ Order("utilization-limits") = 8
    /\ Order("wan-connection") = 9
    /\ Order("external-ip") = 10
    /\ Order("dsl") = 11
    /\ Order("dsl-statistics") = 12
    /\ Order("wlan") = 13
    /\ Order("wlan-associations") = 14
    /\ Order("wlan-statistics") = 15
    /\ Order("hosts") = 16
    /\ Order("host-entry") = 17
    /\ Order("host-info") = 18
    /\ Order("host-list") = 19
    /\ Order("resource") = 20
    /\ Order("device-info") = 21
    /\ Order("emit") = 22
BY DEF Order

LEMMA AdvancePasses ==
    ASSUME TypeOK, PlaceInv, pc \in Calls, NEW goesOn \in BOOLEAN,
           Advance(pc, goesOn), given' = given, NEW c \in DataCalls,
           NEW n \in Nat \ {0}, Radio(c) => n <= dev.radios, Enabled(c),
           Known(c), Past(c, n)', ~Past(c, n)
    PROVE  Ends(c, n, goesOn)
<1>1. /\ dev' = dev /\ dev.radios \in Nat /\ dev.hosts \in Nat /\ i \in Nat
  BY DevicesAssumption DEF TypeOK, given, Device
<1>2. Radio(c) => "WLANConfiguration" \in services
  BY DEF Radio, Known, Chain, Offered, ServiceOf
<1>3. CASE pc \in {"device", "wan-link", "bytes-sent", "bytes-received", "packets-sent", "packets-received"}
  <2>1. CASE pc = "device"
    BY <2>1, OrderOfSteps, OrderOfData
       DEF Advance, GoTo, Past, Radio, Ends, Chain
  <2>2. CASE pc = "wan-link"
    BY <2>2, OrderOfSteps, OrderOfData
       DEF Advance, GoTo, Past, Radio, Ends, Chain
  <2>3. CASE pc = "bytes-sent"
    BY <2>3, OrderOfSteps, OrderOfData
       DEF Advance, GoTo, Past, Radio, Ends, Chain
  <2>4. CASE pc = "bytes-received"
    BY <2>4, OrderOfSteps, OrderOfData
       DEF Advance, GoTo, Past, Radio, Ends, Chain
  <2>5. CASE pc = "packets-sent"
    BY <2>5, OrderOfSteps, OrderOfData
       DEF Advance, GoTo, Past, Radio, Ends, Chain
  <2>6. CASE pc = "packets-received"
    BY <2>6, OrderOfSteps, OrderOfData
       DEF Advance, GoTo, Past, Radio, Ends, Chain
  <2> QED
    BY <1>3, <2>1, <2>2, <2>3, <2>4, <2>5, <2>6
<1>4. CASE pc \in {"wan-utilization", "utilization-limits", "wan-connection", "external-ip"}
  <2>1. CASE pc = "wan-utilization"
    BY <2>1, OrderOfSteps, OrderOfData
       DEF Advance, GoTo, Past, Radio, Ends, Chain, Enabled
  <2>2. CASE pc = "utilization-limits"
    BY <2>2, OrderOfSteps, OrderOfData
       DEF Advance, GoTo, Past, Radio, Ends, Chain, Enabled
  <2>3. CASE pc = "wan-connection"
    BY <2>3, OrderOfSteps, OrderOfData
       DEF Advance, GoTo, Past, Radio, Ends, Chain, Enabled
  <2>4. CASE pc = "external-ip"
    BY <2>4, OrderOfSteps, OrderOfData
       DEF Advance, GoTo, Past, Radio, Ends, Chain, Enabled
  <2> QED
    BY <1>4, <2>1, <2>2, <2>3, <2>4
<1>5. CASE pc \in {"host-info", "host-list", "device-info"}
  <2>1. CASE pc = "host-info"
    BY <2>1, OrderOfSteps, OrderOfData
       DEF Advance, GoTo, Past, Radio, Ends, Chain
  <2>2. CASE pc = "host-list"
    BY <2>2, OrderOfSteps, OrderOfData
       DEF Advance, GoTo, Past, Radio, Ends, Chain
  <2>3. CASE pc = "device-info"
    BY <2>3, OrderOfSteps, OrderOfData
       DEF Advance, GoTo, Past, Radio, Ends, Chain
  <2> QED
    BY <1>5, <2>1, <2>2, <2>3
<1>6. CASE pc \in {"dsl", "dsl-statistics"}
  <2>1. CASE goesOn /\ pc = "dsl"
    BY <2>1, OrderOfSteps, OrderOfData DEF Advance, GoTo, Past, Radio, Ends
  <2>2. CASE ~goesOn \/ pc = "dsl-statistics"
    <3>1. NextRadio(1)
      BY <1>6, <2>2 DEF Advance
    <3>2. pc' \in {"wlan", "hosts"} /\ i' = 1
      BY <3>1 DEF NextRadio, GoTo
    <3>3. ~Radio(c)
      BY <1>1, <1>2, <1>6, <3>1, <3>2, OrderOfSteps, OrderOfData, NextRadioPlace
         DEF Past, Radio
    <3> QED
      BY <1>6, <2>2, <3>2, <3>3, OrderOfSteps, OrderOfData
         DEF Past, Radio, Ends, Chain
  <2> QED
    BY <1>6, <2>1, <2>2
<1>7. CASE Radio(pc)
  <2>1. i \in 1 .. dev.radios
    BY <1>7 DEF PlaceInv
  <2>2. CASE goesOn /\ pc # "wlan-statistics"
    <3>1. /\ i' = i /\ Radio(pc') /\ Order(pc') = Order(pc) + 1
      <4>1. CASE pc = "wlan"
        BY <2>2, <4>1, OrderOfSteps DEF Advance, GoTo, Radio
      <4>2. CASE pc = "wlan-associations"
        BY <2>2, <4>2, OrderOfSteps DEF Advance, GoTo, Radio
      <4> QED
        BY <1>7, <2>2, <4>1, <4>2 DEF Radio
    <3>2. Radio(c) /\ n = i /\ Order(c) = Order(pc)
      BY <1>1, <1>7, <3>1, OrderOfSteps, OrderOfData DEF Past, Radio
    <3> QED
      BY <1>7, <3>2, OrderOfSteps, OrderOfData DEF Radio, Ends
  <2>3. CASE ~goesOn \/ pc = "wlan-statistics"
    <3>1. NextRadio(i + 1)
      BY <1>7, <2>3 DEF Advance, Radio
    <3>2. Radio(c) /\ n <= i
      BY <1>1, <1>2, <1>7, <2>1, <3>1, OrderOfSteps, OrderOfData, NextRadioPlace
         DEF Past, Radio
    <3>3. n = i /\ Order(c) >= Order(pc)
      BY <1>1, <1>7, <3>2, OrderOfSteps, OrderOfData DEF Past, Radio
    <3> QED
      BY <1>7, <2>3, <3>2, <3>3, OrderOfSteps, OrderOfData DEF Radio, Ends, Chain
  <2> QED
    BY <2>2, <2>3
<1>8. CASE pc = "hosts"
  BY <1>1, <1>8, OrderOfSteps, OrderOfData
     DEF Advance, AfterHosts, GoTo, Past, Radio, Ends, Enabled
<1>9. CASE pc = "host-entry"
  <2>1. i \in 1 .. dev.hosts
    BY <1>9 DEF PlaceInv
  <2>2. CASE goesOn /\ i < dev.hosts
    BY <1>1, <1>9, <2>2 DEF Advance, GoTo, Past, Radio
  <2>3. CASE ~(goesOn /\ i < dev.hosts)
    <3>1. pc' = IF cfg.hostsInfo THEN "host-info" ELSE "resource"
      BY <1>9, <2>3 DEF Advance, AfterHosts, GoTo
    <3>2. c = "host-entry"
      BY <1>9, <3>1, OrderOfSteps, OrderOfData DEF Past, Radio, Enabled
    <3>3. goesOn => i = dev.hosts
      BY <1>1, <2>1, <2>3
    <3> QED
      BY <1>9, <3>2, <3>3 DEF Radio, Ends
  <2> QED
    BY <2>2, <2>3
<1> QED
  BY <1>3, <1>4, <1>5, <1>6, <1>7, <1>8, <1>9 DEF Calls, Radio

\* What the properties look at of the device and the configuration is fixed.
LEMMA GivenFixed ==
    ASSUME given' = given
    PROVE  /\ dev' = dev /\ cfg' = cfg /\ Wanted' = Wanted
           /\ \A l : Disturbed(l)' <=> Disturbed(l)
BY DEF given, Wanted, OfferedBy, Enabled, Truth, Disturbed

LEMMA NextKeepsGiven ==
    ASSUME [Next]_vars
    PROVE  given' = given
BY DEF Next, Tick, Shutdown, DiscoverCached, DiscoverFetch, Discovered,
       DiscoverFails, ServiceMissing, Answered, AnsweredOddly, Failed, ReadCache,
       Emit, Expire, given, vars

\* A call ends the turn of a wanted data point that rests on it; if the code
\* goes on, of its own one and of a number of hosts that is zero.
LEMMA EndsOwn ==
    ASSUME NEW c, NEW n, NEW goesOn \in BOOLEAN, Ends(c, n, goesOn)
    PROVE  /\ pc \in Chain(c) /\ (Radio(c) => n = i)
           /\ goesOn => \/ c = pc /\ (c = "host-entry" => i = dev.hosts)
                        \/ c = "host-entry" /\ pc = "hosts" /\ dev.hosts = 0
BY DEF Ends, Chain, Radio

\* A call that brought no values takes with it what rests on it.
LEMMA CallLoses ==
    ASSUME TypeOK, PlaceInv, given' = given, NEW p \in Wanted,
           pc \in Chain(p[1]), Radio(p[1]) => p[2] = i,
           NEW outcome, outcome # "ok", Logged(outcome)
    PROVE  Lost(p)'
<1>1. PICK l \in log' : l.call = pc /\ l.i = i /\ l.outcome = outcome
  <2> DEFINE new == [call |-> pc, i |-> i, outcome |-> outcome]
  <2>1. new \in log'
    BY DEF Logged
  <2>2. new.call = pc /\ new.i = i /\ new.outcome = outcome
    OBVIOUS
  <2> HIDE DEF new
  <2> QED
    BY <2>1, <2>2
<1>2. Truth(pc) = "ok"
  <2>1. Truth(pc) = "ok" \/ (pc = "host-entry" /\ dev.hosts = 0)
    BY WantedFacts
  <2>2. dev.hosts \in Nat
    BY DevicesAssumption DEF TypeOK, Device
  <2> QED
    BY <2>1, <2>2 DEF PlaceInv
<1>3. Disturbed(l)
  BY <1>1, <1>2 DEF Disturbed
<1>4. Disturbed(l)'
  BY <1>3, GivenFixed
<1> QED
  BY <1>1, <1>4 DEF Lost

LEMMA CallKeepsExport ==
    ASSUME TypeOK, PlaceInv, ExportInv,
           ServiceMissing \/ Answered \/ AnsweredOddly \/ Failed
    PROVE  ExportInv'
<1>1. /\ pc \in Calls /\ given' = given /\ Wanted' = Wanted
      /\ \A c : Known(c)' <=> Known(c)
  BY CallStep, GivenFixed, KnownFixed
<1>2. pc' \notin {"idle", "stopped"}
  BY CallAdvances DEF Calls
<1> SUFFICES ASSUME NEW p \in Wanted, Known(p[1]), Past(p[1], p[2])'
             PROVE  p \in buffer' \/ Lost(p)'
  BY <1>1, <1>2 DEF ExportInv
<1>3. /\ p[1] \in DataCalls /\ p[2] \in Nat \ {0} /\ p = <<p[1], p[2]>>
      /\ Radio(p[1]) => p[2] <= dev.radios
      /\ ~Radio(p[1]) => p[2] = 1
      /\ Enabled(p[1])
  BY WantedFacts
<1>4. CASE Past(p[1], p[2])
  <2>1. p \in buffer \/ Lost(p)
    BY <1>4 DEF ExportInv
  <2>2. buffer \subseteq buffer' /\ log \subseteq log'
    BY DEF ServiceMissing, Answered, AnsweredOddly, Failed, Logged
  <2> QED
    BY <1>1, <2>1, <2>2, GivenFixed DEF Lost
<1>5. CASE ~Past(p[1], p[2])
  <2>1. ASSUME NEW goesOn \in BOOLEAN, Advance(pc, goesOn)
        PROVE  Ends(p[1], p[2], goesOn)
    BY <1>1, <1>3, <1>5, <2>1, AdvancePasses
  <2>2. pc \in Chain(p[1]) /\ (Radio(p[1]) => p[2] = i)
    BY <2>1, CallStep, EndsOwn
  <2>3. CASE ServiceMissing
    BY <2>2, <2>3 DEF ServiceMissing, Known
  <2>4. CASE Answered
    <3>1. Ends(p[1], p[2], TRUE)
      BY <2>1, <2>4, CallStep
    <3>2. buffer' = buffer \cup Recorded(pc)
      BY <2>4 DEF Answered
    <3>3. \/ p[1] = pc /\ (pc = "host-entry" => i = dev.hosts)
          \/ p[1] = "host-entry" /\ pc = "hosts" /\ dev.hosts = 0
      BY <3>1, EndsOwn
    <3>4. ~Radio(pc) /\ pc # "host-entry" => i = 1
      BY <1>1 DEF PlaceInv
    <3>5. CASE p[1] = pc /\ (pc = "host-entry" => i = dev.hosts)
      <4>1. CASE pc = "host-entry"
        BY <1>3, <3>2, <3>5, <4>1 DEF Recorded, Radio
      <4>2. CASE pc # "host-entry"
        <5>1. p = <<pc, i>>
          BY <1>3, <2>2, <3>4, <3>5, <4>2
        <5>2. <<pc, i>> \in Recorded(pc)
          BY <1>3, <3>5, <4>2 DEF Recorded, DataCalls
        <5> QED
          BY <3>2, <5>1, <5>2
      <4> QED
        BY <3>2, <4>1, <4>2
    <3>6. CASE p[1] = "host-entry" /\ pc = "hosts" /\ dev.hosts = 0
      <4>1. cfg.hostsActive /\ p = <<"host-entry", 1>>
        BY <1>3, <3>6 DEF Enabled, Radio
      <4> QED
        BY <3>2, <3>6, <4>1 DEF Recorded
    <3> QED
      BY <3>3, <3>5, <3>6
  <2>5. CASE AnsweredOddly
    BY <1>1, <2>2, <2>5, CallLoses DEF AnsweredOddly
  <2>6. CASE Failed
    <3>1. PICK outcome \in {"fault", "unauthorized", "error"} : Logged(outcome)
      BY <2>6 DEF Failed
    <3> QED
      BY <1>1, <2>2, <3>1, CallLoses
  <2> QED
    BY <2>3, <2>4, <2>5, <2>6
<1> QED
  BY <1>4, <1>5

\* Nothing is past before the calls, and nothing changes after them.
LEMMA ExportStep ==
    ASSUME TypeOK, PlaceInv, ExportInv, [Next]_vars
    PROVE  ExportInv'
<1>1. given' = given /\ Wanted' = Wanted
  BY NextKeepsGiven, GivenFixed
<1>2. \A p \in Wanted : p[1] \in DataCalls
  BY WantedFacts
<1>3. CASE Tick \/ DiscoverCached \/ DiscoverFetch \/ Discovered \/ DiscoverFails
  <2>1. pc' \in {"discover", "fetching", "device", "idle"}
    BY <1>3 DEF Tick, DiscoverCached, DiscoverFetch, Discovered, DiscoverFails,
                GoTo
  <2>2. Order(pc') \in {0, 1} /\ ~Radio(pc')
    BY <2>1 DEF Order, Radio
  <2>3. \A p \in Wanted : ~Past(p[1], p[2])'
    BY <1>2, <2>2, OrderOfData DEF Past, Radio
  <2>4. pc' \in {"idle", "stopped"} => batch'.error = "plain"
    BY <1>3, <2>1 DEF Tick, DiscoverCached, DiscoverFetch, Discovered,
                      DiscoverFails, GoTo, NoBatch
  <2> QED
    BY <1>1, <2>3, <2>4 DEF ExportInv
<1>4. CASE ServiceMissing \/ Answered \/ AnsweredOddly \/ Failed
  BY <1>4, CallKeepsExport
<1>5. CASE ReadCache
  <2>1. \A p \in Wanted : Past(p[1], p[2])
    BY <1>2, <1>5, OrderOfData, OrderOfSteps DEF ReadCache, Past, Radio
  <2>2. \A p \in Wanted : Known(p[1])' => p \in buffer' \/ Lost(p)'
    <3>1. \A c : Known(c)' <=> Known(c)
      BY <1>5, KnownFixed DEF ReadCache, scraperVars
    <3> QED
      BY <1>1, <1>5, <2>1, <3>1, GivenFixed DEF ReadCache, ExportInv, Lost
  <2>3. pc' \notin {"idle", "stopped"}
    BY <1>5 DEF ReadCache
  <2> QED
    BY <1>1, <2>2, <2>3 DEF ExportInv
<1>6. CASE Emit
  <2>1. pc = "emit" /\ pc' = "idle" /\ batch'.metrics = buffer /\ log' = log
    BY <1>6 DEF Emit
  <2>2. \A p \in Wanted : Past(p[1], p[2])
    BY <1>2, <2>1, OrderOfData, OrderOfSteps DEF Past, Radio
  <2>3. \A p \in Wanted : Known(p[1])' /\ p \notin buffer => Lost(p)'
    <3>1. \A c : Known(c)' <=> Known(c)
      BY <1>6, KnownFixed DEF Emit, scraperVars
    <3> QED
      BY <1>1, <2>1, <2>2, <3>1, GivenFixed DEF ExportInv, Lost
  <2>4. \A p \in Wanted : ~Past(p[1], p[2])'
    BY <1>2, <2>1, OrderOfData DEF Past, Radio, Order
  <2> QED
    BY <1>1, <2>1, <2>3, <2>4 DEF ExportInv
<1>7. CASE Shutdown \/ Expire \/ UNCHANGED vars
  <2>1. /\ log' = log /\ batch' = batch /\ buffer' = buffer /\ i' = i
        /\ pc' = pc \/ (pc = "idle" /\ pc' = "stopped")
    BY <1>7 DEF Shutdown, Expire, vars
  <2>2. \A p : Lost(p)' <=> Lost(p)
    BY <1>1, <2>1, GivenFixed DEF Lost
  <2>3. \A p \in Wanted : Past(p[1], p[2])' => Past(p[1], p[2])
    BY <1>2, <2>1, OrderOfData DEF Past, Radio, Order
  <2>4. \A c : Known(c)' <=> Known(c)
    BY <1>7, KnownFixed DEF Shutdown, Expire, scraperVars, vars
  <2> QED
    BY <1>1, <2>1, <2>2, <2>3, <2>4 DEF ExportInv
<1> QED
  BY <1>3, <1>4, <1>5, <1>6, <1>7 DEF Next

\* A failing call costs its own group's data points only.
THEOREM ExportCorrect == Spec => []UnaffectedGroupsExport
<1>1. Init => ExportInv
  <2> SUFFICES ASSUME Init
               PROVE  ExportInv
    OBVIOUS
  <2>1. Order(pc) = 0 /\ ~Radio(pc) /\ log = {}
    BY DEF Init, Order, Radio
  <2>2. \A c \in DataCalls : \A n : ~Past(c, n)
    BY <2>1, OrderOfData DEF Past
  <2>3. \A p \in Wanted : p[1] \in DataCalls
    BY DEF Wanted
  <2> QED
    BY <2>1, <2>2, <2>3 DEF ExportInv
<1>2. TypeOK /\ PlaceInv /\ ExportInv /\ [Next]_vars => ExportInv'
  BY ExportStep
<1>3. ExportInv => UnaffectedGroupsExport
  BY DEF ExportInv, Lost, UnaffectedGroupsExport, Delivered
<1> QED
  BY <1>1, <1>2, <1>3, TypeCorrect, PlaceCorrect, PTL DEF Spec

-----------------------------------------------------------------------------
(* What a batch holds.                                                      *)

AnsweredAs(c, n, outcomes) ==
    \E l \in log : l.call = c /\ l.i = n /\ l.outcome \in outcomes

\* The answers a data point rests on are in the log.
Whole(p) ==
    \A c \in Chain(p[1]) :
       \A n \in (IF c = "host-entry" THEN 1 .. dev.hosts ELSE {p[2]}) :
          AnsweredAs(c, n, IF c = p[1] THEN {"ok"} ELSE {"ok", "odd"})

\* The inductive invariant behind DataIsWhole: what a call under way builds
\* on has been answered, the builder and the batch hold whole points, and the
\* builder is empty when a scrape starts.
WholeInv ==
    /\ pc \in Calls =>
          \A c \in Chain(pc) \ {pc} :
             AnsweredAs(c, IF pc = "host-entry" THEN 1 ELSE i, {"ok", "odd"})
    /\ pc = "host-entry" =>
          \A n \in 1 .. (i - 1) : AnsweredAs("host-entry", n, {"ok"})
    /\ \A p \in buffer : Whole(p)
    /\ pc \in {"idle", "stopped", "discover", "fetching"} => buffer = {}
    /\ pc \in {"idle", "stopped"} => \A p \in batch.metrics : Whole(p)

\* Only a call whose code went on is followed by one that rests on others.
LEMMA AdvanceBuilds ==
    ASSUME TypeOK, PlaceInv, pc \in Calls, NEW goesOn \in BOOLEAN,
           Advance(pc, goesOn), pc' \in Calls, NEW c \in Chain(pc') \ {pc'}
    PROVE  /\ goesOn /\ c \in Chain(pc)
           /\ IF pc' = "host-entry" THEN pc \in {"hosts", "host-entry"}
                                    ELSE pc # "host-entry" /\ i' = i
<1>1. pc' \notin {"device", "wan-link", "bytes-sent", "packets-sent",
                  "wan-utilization", "wan-connection", "dsl", "wlan", "hosts",
                  "host-info", "device-info"}
  BY DEF Chain
<1>2. CASE pc \in {"device", "wan-link", "bytes-received", "packets-received",
                   "utilization-limits", "external-ip", "host-list",
                   "device-info"}
  BY <1>1, <1>2 DEF Advance, GoTo, Calls
<1>3. ASSUME NEW n, NextRadio(n) PROVE FALSE
  BY <1>1, <1>3 DEF NextRadio, GoTo
<1>4. ASSUME AfterHosts PROVE FALSE
  BY <1>1, <1>4 DEF AfterHosts, GoTo, Calls
<1>5. pc \notin {"dsl-statistics", "wlan-statistics"}
  BY <1>3 DEF Advance
<1>6. CASE pc = "bytes-sent"
  BY <1>1, <1>6 DEF Advance, GoTo, Chain, PlaceInv, Radio
<1>7. CASE pc = "packets-sent"
  BY <1>1, <1>7 DEF Advance, GoTo, Chain, PlaceInv, Radio
<1>8. CASE pc = "wan-utilization"
  BY <1>1, <1>8 DEF Advance, GoTo, Chain, PlaceInv, Radio
<1>9. CASE pc = "wan-connection"
  BY <1>1, <1>9 DEF Advance, GoTo, Chain, PlaceInv, Radio
<1>10. CASE pc = "dsl"
  BY <1>3, <1>10 DEF Advance, GoTo, Chain, PlaceInv, Radio
<1>11. CASE pc = "wlan"
  BY <1>3, <1>11 DEF Advance, GoTo, Chain
<1>12. CASE pc = "wlan-associations"
  BY <1>3, <1>12 DEF Advance, GoTo, Chain
<1>13. CASE pc = "hosts"
  BY <1>4, <1>13 DEF Advance, GoTo, Chain
<1>14. CASE pc = "host-entry"
  BY <1>4, <1>14 DEF Advance, GoTo, Chain
<1>15. CASE pc = "host-info"
  BY <1>1, <1>15 DEF Advance, GoTo, Chain, PlaceInv, Radio, Calls
<1> QED
  BY <1>2, <1>5, <1>6, <1>7, <1>8, <1>9, <1>10, <1>11, <1>12, <1>13, <1>14,
     <1>15 DEF Calls

\* Only host-entry counts hosts: it is in no other call's chain.
LEMMA ChainOfHosts ==
    ASSUME NEW c \in Calls
    PROVE  /\ c \in Chain(c)
           /\ "host-entry" \in Chain(c) => c = "host-entry"
           /\ Chain("host-entry") = {"hosts", "host-entry"}
           /\ Chain("hosts") = {"hosts"}
BY DEF Chain, Calls

\* A longer log takes nothing away.
LEMMA LogGrows ==
    ASSUME log \subseteq log', given' = given
    PROVE  /\ \A c, n, outcomes : AnsweredAs(c, n, outcomes)
                                     => AnsweredAs(c, n, outcomes)'
           /\ \A p : Whole(p) => Whole(p)'
<1>1. dev' = dev
  BY DEF given
<1>2. \A c, n, outcomes :
         AnsweredAs(c, n, outcomes) => AnsweredAs(c, n, outcomes)'
  BY DEF AnsweredAs
<1>3. \A p : Whole(p) => Whole(p)'
  BY <1>1, <1>2 DEF Whole
<1> QED
  BY <1>2, <1>3

\* The answer of a call is in the log.
LEMMA LoggedAnswer ==
    ASSUME NEW outcome, Logged(outcome), NEW c, NEW n, c = pc, n = i
    PROVE  \A outcomes : outcome \in outcomes => AnsweredAs(c, n, outcomes)'
<1> DEFINE new == [call |-> c, i |-> n, outcome |-> outcome]
<1>1. new \in log'
  BY DEF Logged
<1>2. new.call = c /\ new.i = n /\ new.outcome = outcome
  OBVIOUS
<1> HIDE DEF new
<1> QED
  BY <1>1, <1>2 DEF AnsweredAs

\* An answer completes the data points it records.
LEMMA RecordedIsWhole ==
    ASSUME TypeOK, PlaceInv, WholeInv, Answered, NEW p \in Recorded(pc)
    PROVE  Whole(p)'
<1>1. /\ pc \in Calls /\ given' = given /\ log \subseteq log' /\ dev' = dev
      /\ dev.hosts \in Nat /\ i \in Nat
  BY CallStep, DevicesAssumption DEF TypeOK, Device, Answered, Logged, given
<1>2. PICK c, n : c = pc /\ n = i
  OBVIOUS
<1>3. AnsweredAs(c, n, {"ok"})' /\ AnsweredAs(c, n, {"ok", "odd"})'
  BY <1>2, LoggedAnswer DEF Answered
<1>4. \/ c # "host-entry" /\ p = <<c, n>>
      \/ c = "host-entry" /\ n = dev.hosts /\ p = <<"host-entry", 1>>
      \/ c = "hosts" /\ n = 1 /\ dev.hosts = 0 /\ p = <<"host-entry", 1>>
  BY <1>1, <1>2 DEF Recorded, PlaceInv, Radio
<1> SUFFICES ASSUME NEW d \in Chain(p[1]),
                    NEW m \in (IF d = "host-entry" THEN 1 .. dev.hosts ELSE {p[2]})
             PROVE  AnsweredAs(d, m, IF d = p[1] THEN {"ok"} ELSE {"ok", "odd"})'
  BY <1>1 DEF Whole
<1>5. CASE c # "host-entry" /\ p = <<c, n>>
  <2>1. d # "host-entry" /\ m = n
    BY <1>1, <1>2, <1>5, ChainOfHosts
  <2>2. CASE d = c
    BY <1>3, <1>5, <2>1, <2>2
  <2>3. CASE d # c
    <3>1. AnsweredAs(d, n, {"ok", "odd"})
      BY <1>1, <1>2, <1>5, <2>3 DEF WholeInv
    <3> QED
      BY <1>1, <1>5, <2>1, <2>3, <3>1, LogGrows
  <2> QED
    BY <2>2, <2>3
<1>6. CASE c = "host-entry" /\ n = dev.hosts /\ p = <<"host-entry", 1>>
  <2>1. CASE d = "host-entry" /\ m = n
    BY <1>3, <1>6, <2>1
  <2>2. CASE d = "host-entry" /\ m # n
    <3>1. m \in 1 .. (i - 1)
      BY <1>1, <1>2, <1>6, <2>2
    <3>2. AnsweredAs(d, m, {"ok"})
      BY <1>2, <1>6, <2>2, <3>1 DEF WholeInv
    <3> QED
      BY <1>1, <1>6, <2>2, <3>2, LogGrows
  <2>3. CASE d = "hosts" /\ m = 1
    <3>1. AnsweredAs("hosts", 1, {"ok", "odd"})
      BY <1>1, <1>2, <1>6, ChainOfHosts DEF WholeInv
    <3> QED
      BY <1>1, <1>6, <2>3, <3>1, LogGrows
  <2> QED
    BY <1>6, <2>1, <2>2, <2>3, ChainOfHosts DEF Calls
<1>7. CASE c = "hosts" /\ n = 1 /\ dev.hosts = 0 /\ p = <<"host-entry", 1>>
  <2>1. d = "hosts" /\ m = 1
    BY <1>7, ChainOfHosts DEF Calls
  <2> QED
    BY <1>3, <1>7, <2>1
<1> QED
  BY <1>4, <1>5, <1>6, <1>7

LEMMA CallKeepsWhole ==
    ASSUME TypeOK, PlaceInv, WholeInv,
           ServiceMissing \/ Answered \/ AnsweredOddly \/ Failed
    PROVE  WholeInv'
<1>1. /\ pc \in Calls /\ given' = given /\ batch' = batch /\ i \in Nat
      /\ log \subseteq log'
  BY CallStep DEF TypeOK, ServiceMissing, Answered, AnsweredOddly, Failed, Logged
<1>2. pc' \notin {"idle", "stopped", "discover", "fetching"}
  BY CallAdvances DEF Calls
<1>3. PICK c, n : c = pc /\ n = i
  OBVIOUS
<1>4. PICK goesOn \in BOOLEAN :
         /\ Advance(pc, goesOn)
         /\ goesOn => AnsweredAs(c, n, {"ok", "odd"})'
         /\ goesOn /\ pc = "host-entry" => AnsweredAs(c, n, {"ok"})'
  <2>1. CASE Answered
    <3>1. Advance(pc, TRUE)
      BY <2>1, CallStep
    <3>2. AnsweredAs(c, n, {"ok", "odd"})' /\ AnsweredAs(c, n, {"ok"})'
      BY <1>3, <2>1, LoggedAnswer DEF Answered
    <3> QED
      BY <3>1, <3>2
  <2>2. CASE AnsweredOddly
    <3>1. Advance(pc, pc \in {"dsl", "wlan-associations"})
      BY <2>2, CallStep
    <3>2. AnsweredAs(c, n, {"ok", "odd"})'
      BY <1>3, <2>2, LoggedAnswer DEF AnsweredOddly
    <3>3. PICK on \in BOOLEAN : on <=> pc \in {"dsl", "wlan-associations"}
      OBVIOUS
    <3>4. Advance(pc, on)
      BY <3>1, <3>3
    <3> QED
      BY <3>2, <3>3, <3>4
  <2>3. CASE ServiceMissing \/ Failed
    BY <2>3, CallStep
  <2> QED
    BY <2>1, <2>2, <2>3
<1>5. ASSUME pc' \in Calls, NEW d \in Chain(pc') \ {pc'}, NEW m,
             m = IF pc' = "host-entry" THEN 1 ELSE i'
      PROVE  AnsweredAs(d, m, {"ok", "odd"})'
  <2>1. /\ goesOn /\ d \in Chain(pc)
        /\ IF pc' = "host-entry" THEN pc \in {"hosts", "host-entry"}
                                 ELSE pc # "host-entry" /\ i' = i
    BY <1>1, <1>4, <1>5, AdvanceBuilds
  <2>2. m = IF pc = "host-entry" THEN 1 ELSE i
    BY <1>1, <1>5, <2>1 DEF PlaceInv, Radio
  <2>3. CASE d = pc
    <3>1. pc # "host-entry"
      BY <1>5, <2>1, <2>3, ChainOfHosts
    <3> QED
      BY <1>3, <1>4, <2>1, <2>2, <2>3, <3>1
  <2>4. CASE d # pc
    <3>1. AnsweredAs(d, m, {"ok", "odd"})
      BY <1>1, <2>1, <2>2, <2>4 DEF WholeInv
    <3> QED
      BY <1>1, <3>1, LogGrows
  <2> QED
    BY <2>3, <2>4
<1>6. ASSUME pc' = "host-entry", NEW m \in 1 .. (i' - 1)
      PROVE  AnsweredAs("host-entry", m, {"ok"})'
  <2>1. \/ pc = "hosts" /\ i' = 1
        \/ pc = "host-entry" /\ goesOn /\ i' = i + 1
    <3>1. goesOn /\ pc \in {"hosts", "host-entry"}
      <4>1. "hosts" \in Chain(pc') \ {pc'} /\ pc' \in Calls
        BY <1>6, ChainOfHosts DEF Calls
      <4> QED
        BY <1>1, <1>4, <1>6, <4>1, AdvanceBuilds
    <3> QED
      BY <1>4, <1>6, <3>1 DEF Advance, AfterHosts, GoTo
  <2>2. CASE pc = "hosts" /\ i' = 1
    BY <1>6, <2>2
  <2>3. CASE pc = "host-entry" /\ goesOn /\ i' = i + 1
    <3>1. CASE m = n
      BY <1>3, <1>4, <2>3, <3>1
    <3>2. CASE m # n
      <4>1. m \in 1 .. (i - 1)
        BY <1>1, <1>3, <1>6, <2>3, <3>2
      <4>2. AnsweredAs("host-entry", m, {"ok"})
        BY <2>3, <4>1 DEF WholeInv
      <4> QED
        BY <1>1, <4>2, LogGrows
    <3> QED
      BY <3>1, <3>2
  <2> QED
    BY <2>1, <2>2, <2>3
<1>7. \A p \in buffer' : Whole(p)'
  <2>1. \A p \in buffer : Whole(p)'
    BY <1>1, LogGrows DEF WholeInv
  <2>2. CASE Answered
    BY <2>1, <2>2, RecordedIsWhole DEF Answered
  <2>3. CASE ServiceMissing \/ AnsweredOddly \/ Failed
    BY <2>1, <2>3 DEF ServiceMissing, AnsweredOddly, Failed
  <2> QED
    BY <2>2, <2>3
<1> QED
  BY <1>2, <1>5, <1>6, <1>7 DEF WholeInv, AnsweredAs

LEMMA WholeStep ==
    ASSUME TypeOK, PlaceInv, WholeInv, [Next]_vars
    PROVE  WholeInv'
<1>1. given' = given
  BY NextKeepsGiven
<1>2. CASE Tick
  BY <1>2 DEF Tick, WholeInv, Calls
<1>3. CASE DiscoverCached \/ Discovered
  <2>1. pc' = "device" /\ buffer' = {} /\ pc \in {"discover", "fetching"}
    BY <1>3 DEF DiscoverCached, Discovered, GoTo, WholeInv
  <2> QED
    BY <2>1 DEF WholeInv, Chain
<1>4. CASE DiscoverFetch \/ DiscoverFails
  BY <1>4 DEF DiscoverFetch, DiscoverFails, NoBatch, WholeInv, Calls
<1>5. CASE ServiceMissing \/ Answered \/ AnsweredOddly \/ Failed
  BY <1>5, CallKeepsWhole
<1>6. CASE ReadCache
  <2>1. /\ pc' \in {"emit", "device-info"}
        /\ log' = log /\ buffer' = buffer
    BY <1>6 DEF ReadCache
  <2>2. \A p \in buffer' : Whole(p)'
    BY <1>1, <2>1, LogGrows DEF WholeInv
  <2> QED
    BY <2>1, <2>2 DEF WholeInv, Chain
<1>7. CASE Emit
  <2>1. /\ pc' = "idle" /\ log' = log /\ buffer' = {}
        /\ batch'.metrics = buffer
    BY <1>7 DEF Emit
  <2>2. \A p \in batch'.metrics : Whole(p)'
    BY <1>1, <2>1, LogGrows DEF WholeInv
  <2> QED
    BY <2>1, <2>2 DEF WholeInv, Calls
<1>8. CASE Shutdown
  <2>1. /\ pc = "idle" /\ pc' = "stopped" /\ log' = log /\ buffer' = buffer
        /\ batch' = batch
    BY <1>8 DEF Shutdown
  <2>2. \A p \in batch'.metrics : Whole(p)'
    BY <1>1, <2>1, LogGrows DEF WholeInv
  <2> QED
    BY <2>1, <2>2 DEF WholeInv, Calls
<1>9. CASE Expire \/ UNCHANGED vars
  <2>1. /\ pc' = pc /\ log' = log /\ buffer' = buffer /\ batch' = batch
        /\ i' = i
    BY <1>9 DEF Expire, vars
  <2>2. \A p : Whole(p) => Whole(p)'
    BY <1>1, <2>1, LogGrows
  <2> QED
    BY <2>1, <2>2 DEF WholeInv, AnsweredAs
<1> QED
  BY <1>2, <1>3, <1>4, <1>5, <1>6, <1>7, <1>8, <1>9 DEF Next

\* Every data point of a batch rests on answers of the batch's own scrape.
THEOREM WholeCorrect == Spec => []DataIsWhole
<1>1. Init => WholeInv
  BY DEF Init, WholeInv, NoBatch, Calls
<1>2. TypeOK /\ PlaceInv /\ WholeInv /\ [Next]_vars => WholeInv'
  BY WholeStep
<1>3. WholeInv => DataIsWhole
  BY DEF WholeInv, Whole, AnsweredAs, DataIsWhole, Delivered
<1> QED
  BY <1>1, <1>2, <1>3, TypeCorrect, PlaceCorrect, PTL DEF Spec

-----------------------------------------------------------------------------
(* What is logged.                                                          *)

MissingLogged(c) ==
    Enabled(c) /\ ~Offered(c) =>
        \E k \in warned : k.group = Group(c) /\ k.kind = "missing"

SkipLogged(l) ==
    l.call \in Classified =>
       /\ l.outcome = "fault" =>
            \E k \in warned : k.group = Group(l.call) /\ k.kind = "unavailable"
       /\ l.outcome = "unauthorized" /\ cfg.creds = "none" =>
            \E k \in warned : k.group = Group(l.call) /\ k.kind = "credentials"

\* The inductive invariant behind SkipsAreLogged: what is in the log has been
\* logged, and so has every missing service whose turn is over.
LoggedInv ==
    /\ cached => Offered("device-info")
    /\ \A l \in log : SkipLogged(l)
    /\ \A c \in Classified : Order(c) < Order(pc) => MissingLogged(c)
    /\ pc \in {"idle", "stopped"} /\ batch.error # "plain" /\ log # {} =>
          \A c \in Classified : MissingLogged(c)

\* Where each classified call has its turn.
LEMMA OrderOfClassified ==
    ASSUME NEW c \in Classified
    PROVE  \/ c = "device" /\ Order(c) = 1
           \/ c = "wan-link" /\ Order(c) = 2
           \/ c = "bytes-sent" /\ Order(c) = 3
           \/ c = "bytes-received" /\ Order(c) = 4
           \/ c = "packets-sent" /\ Order(c) = 5
           \/ c = "packets-received" /\ Order(c) = 6
           \/ c = "wan-utilization" /\ Order(c) = 7
           \/ c = "wan-connection" /\ Order(c) = 9
           \/ c = "dsl" /\ Order(c) = 11
           \/ c = "dsl-statistics" /\ Order(c) = 12
           \/ c = "hosts" /\ Order(c) = 16
           \/ c = "host-info" /\ Order(c) = 18
           \/ c = "device-info" /\ Order(c) = 21
BY DEF Order, Classified, Grouped

\* A call ends the turn of a call of its own group and service only.
LEMMA AdvanceSkips ==
    ASSUME TypeOK, PlaceInv, pc \in Calls, NEW goesOn \in BOOLEAN,
           Advance(pc, goesOn), NEW c \in Classified, Enabled(c),
           Order(c) < Order(pc'), ~(Order(c) < Order(pc))
    PROVE  /\ pc \in Classified /\ Group(c) = Group(pc)
           /\ Offered(pc) => Offered(c)
<1>1. CASE pc \in {"device", "wan-link", "wan-utilization", "utilization-limits",
                   "wan-connection", "external-ip", "host-info", "host-list",
                   "device-info"}
  <2>1. c = pc
    <3>1. CASE pc = "device"
      BY <3>1, OrderOfSteps, OrderOfClassified DEF Advance, GoTo
    <3>2. CASE pc = "wan-link"
      BY <3>2, OrderOfSteps, OrderOfClassified DEF Advance, GoTo
    <3>3. CASE pc = "wan-utilization"
      BY <3>3, OrderOfSteps, OrderOfClassified DEF Advance, GoTo
    <3>4. CASE pc = "utilization-limits"
      BY <3>4, OrderOfSteps, OrderOfClassified DEF Advance, GoTo
    <3>5. CASE pc = "wan-connection"
      BY <3>5, OrderOfSteps, OrderOfClassified DEF Advance, GoTo
    <3>6. CASE pc = "external-ip"
      BY <3>6, OrderOfSteps, OrderOfClassified DEF Advance, GoTo
    <3>7. CASE pc = "host-info"
      BY <3>7, OrderOfSteps, OrderOfClassified DEF Advance, GoTo
    <3>8. CASE pc = "host-list"
      BY <3>8, OrderOfSteps, OrderOfClassified DEF Advance, GoTo
    <3>9. CASE pc = "device-info"
      BY <3>9, OrderOfSteps, OrderOfClassified DEF Advance, GoTo
    <3> QED
      BY <1>1, <3>1, <3>2, <3>3, <3>4, <3>5, <3>6, <3>7, <3>8, <3>9
  <2> QED
    BY <2>1
<1>2. CASE pc \in {"bytes-sent", "bytes-received"}
  <2>1. c \in {"bytes-sent", "bytes-received"}
    <3>1. CASE pc = "bytes-sent"
      BY <3>1, OrderOfSteps, OrderOfClassified DEF Advance, GoTo
    <3>2. CASE pc = "bytes-received"
      BY <3>2, OrderOfSteps, OrderOfClassified DEF Advance, GoTo
    <3> QED
      BY <1>2, <3>1, <3>2
  <2> QED
    BY <1>2, <2>1 DEF Group, Offered, ServiceOf, Classified, Grouped
<1>3. CASE pc \in {"packets-sent", "packets-received"}
  <2>1. c \in {"packets-sent", "packets-received"}
    <3>1. CASE pc = "packets-sent"
      BY <3>1, OrderOfSteps, OrderOfClassified DEF Advance, GoTo
    <3>2. CASE pc = "packets-received"
      BY <3>2, OrderOfSteps, OrderOfClassified DEF Advance, GoTo
    <3> QED
      BY <1>3, <3>1, <3>2
  <2> QED
    BY <1>3, <2>1 DEF Group, Offered, ServiceOf, Classified, Grouped
<1>4. CASE pc \in {"dsl", "dsl-statistics"}
  <2>1. pc' \in {"dsl-statistics", "wlan", "hosts"}
    BY <1>4 DEF Advance, NextRadio, GoTo
  <2>2. c \in {"dsl", "dsl-statistics"}
    BY <1>4, <2>1, OrderOfSteps, OrderOfClassified
  <2> QED
    BY <1>4, <2>2 DEF Group, Offered, ServiceOf, Classified, Grouped
<1>5. CASE Radio(pc)
  <2>1. pc' \in {"wlan", "wlan-associations", "wlan-statistics", "hosts"}
    BY <1>5 DEF Advance, NextRadio, GoTo, Radio
  <2> QED
    BY <1>5, <2>1, OrderOfSteps, OrderOfClassified DEF Radio
<1>6. CASE pc \in {"hosts", "host-entry"}
  <2>1. pc' = "host-entry" \/ pc' = IF cfg.hostsInfo THEN "host-info"
                                                   ELSE "resource"
    BY <1>6 DEF Advance, AfterHosts, GoTo
  <2>2. c = "hosts" /\ pc = "hosts"
    BY <1>6, <2>1, OrderOfSteps, OrderOfClassified DEF Enabled
  <2> QED
    BY <2>2
<1> QED
  BY <1>1, <1>2, <1>3, <1>4, <1>5, <1>6 DEF Calls, Radio

LEMMA CallKeepsLogged ==
    ASSUME TypeOK, PlaceInv, LoggedInv,
           ServiceMissing \/ Answered \/ AnsweredOddly \/ Failed
    PROVE  LoggedInv'
<1>1. /\ pc \in Calls /\ cfg' = cfg /\ services' = services
      /\ warned \subseteq warned'
  BY CallStep DEF ServiceMissing, Answered, AnsweredOddly, Failed,
                  WarnOnce, given
<1>2. pc' \notin {"idle", "stopped"}
  BY CallAdvances DEF Calls
<1>3. (cached => Offered("device-info"))'
  <2>1. CASE Answered
    <3>1. cached' = (cached \/ pc = "device-info") /\ Offered(pc)
      BY <2>1 DEF Answered, KeepResource
    <3> QED
      BY <1>1, <3>1 DEF LoggedInv, Offered
  <2>2. CASE ServiceMissing \/ AnsweredOddly \/ Failed
    BY <1>1, <2>2 DEF LoggedInv, Offered, ServiceMissing, AnsweredOddly, Failed
  <2> QED
    BY <2>1, <2>2
<1>4. ASSUME NEW l \in log'
      PROVE  SkipLogged(l)'
  <2>1. CASE l \in log
    BY <1>1, <2>1 DEF LoggedInv, SkipLogged
  <2>2. CASE l \notin log
    <3>1. CASE Answered \/ AnsweredOddly
      <4>1. CASE Answered
        <5>1. log' = log \cup {[call |-> pc, i |-> i, outcome |-> "ok"]}
          BY <4>1 DEF Answered, Logged
        <5>2. l = [call |-> pc, i |-> i, outcome |-> "ok"]
          BY <1>4, <2>2, <5>1
        <5> QED
          BY <5>2 DEF SkipLogged
      <4>2. CASE AnsweredOddly
        <5>1. log' = log \cup {[call |-> pc, i |-> i, outcome |-> "odd"]}
          BY <4>2 DEF AnsweredOddly, Logged
        <5>2. l = [call |-> pc, i |-> i, outcome |-> "odd"]
          BY <1>4, <2>2, <5>1
        <5> QED
          BY <5>2 DEF SkipLogged
      <4> QED
        BY <3>1, <4>1, <4>2
    <3>2. CASE Failed
      <4>1. PICK outcome : Logged(outcome) /\ WarnOnce(WarningsOf(pc, outcome))
        BY <3>2 DEF Failed
      <4>2. l.call = pc /\ l.outcome = outcome
        BY <2>2, <4>1 DEF Logged
      <4>3. ASSUME pc \in Classified, Classify(outcome) \in Skips
            PROVE  \E k \in warned' : /\ k.group = Group(pc)
                                       /\ k.kind = Classify(outcome)
        <5> DEFINE k == [group |-> Group(pc), kind |-> Classify(outcome),
                         radio |-> 0]
        <5>1. WarningsOf(pc, outcome) = {k}
          <6>1. pc \notin {"wlan", "wlan-associations", "host-list"}
            BY <4>3 DEF Classified, Grouped
          <6> QED
            BY <4>3, <6>1 DEF WarningsOf
        <5>2. k \in warned'
          BY <4>1, <5>1 DEF WarnOnce
        <5>3. k.group = Group(pc) /\ k.kind = Classify(outcome)
          OBVIOUS
        <5> HIDE DEF k
        <5> QED
          BY <5>2, <5>3
      <4>4. /\ outcome = "fault" => Classify(outcome) = "unavailable"
            /\ outcome = "unauthorized" /\ cfg.creds = "none"
                 => Classify(outcome) = "credentials"
        BY DEF Classify
      <4> QED
        BY <1>1, <4>2, <4>3, <4>4 DEF SkipLogged, Skips
    <3>3. CASE ServiceMissing
      BY <2>2, <3>3 DEF ServiceMissing
    <3> QED
      BY <3>1, <3>2, <3>3
  <2> QED
    BY <2>1, <2>2
<1>5. ASSUME NEW c \in Classified, Order(c) < Order(pc')
      PROVE  MissingLogged(c)'
  <2>1. CASE Order(c) < Order(pc)
    BY <1>1, <2>1 DEF LoggedInv, MissingLogged, Enabled, Offered
  <2>2. CASE ~(Order(c) < Order(pc))
    <3> SUFFICES ASSUME Enabled(c), ~Offered(c)
                 PROVE  \E k \in warned' : k.group = Group(c) /\ k.kind = "missing"
      BY <1>1 DEF MissingLogged, Enabled, Offered
    <3>1. PICK goesOn \in BOOLEAN : Advance(pc, goesOn)
      BY CallStep
    <3>2. Group(c) = Group(pc) /\ ~Offered(pc)
      BY <1>1, <1>5, <2>2, <3>1, AdvanceSkips
    <3>3. ServiceMissing
      BY <3>2 DEF Answered, AnsweredOddly, Failed
    <3> DEFINE k == [group |-> Group(pc), kind |-> "missing", radio |-> 0]
    <3>4. k \in warned'
      BY <3>3 DEF ServiceMissing, WarnOnce
    <3>5. k.group = Group(pc) /\ k.kind = "missing"
      OBVIOUS
    <3> HIDE DEF k
    <3> QED
      BY <3>2, <3>4, <3>5
  <2> QED
    BY <2>1, <2>2
<1> QED
  BY <1>2, <1>3, <1>4, <1>5 DEF LoggedInv

LEMMA LoggedStep ==
    ASSUME TypeOK, PlaceInv, LoggedInv, [Next]_vars
    PROVE  LoggedInv'
<1>1. dev' = dev /\ cfg' = cfg
  BY NextKeepsGiven DEF given
<1> USE DEF MissingLogged, SkipLogged, Offered, Enabled
<1>2. CASE Tick \/ DiscoverCached \/ DiscoverFetch \/ Discovered \/ DiscoverFails
  <2>1. pc' \in {"discover", "fetching", "device", "idle"}
    BY <1>2 DEF Tick, DiscoverCached, DiscoverFetch, Discovered, DiscoverFails,
                GoTo
  <2>2. Order(pc') \in {0, 1}
    BY <2>1 DEF Order
  <2>3. \A c \in Classified : ~(Order(c) < Order(pc'))
    BY <2>2, OrderOfClassified
  <2>4. /\ cached' = cached /\ warned' = warned /\ log' \subseteq log
        /\ pc' \in {"idle", "stopped"} => batch'.error = "plain"
    BY <1>2, <2>1 DEF Tick, DiscoverCached, DiscoverFetch, Discovered,
                      DiscoverFails, GoTo, NoBatch, scraperVars
  <2>5. services' = services \/ services = {}
    BY <1>2 DEF PlaceInv, Tick, DiscoverCached, DiscoverFetch, Discovered,
                DiscoverFails, scraperVars
  <2>6. (cached => Offered("device-info"))'
    <3>1. cached => services' = services
      BY <2>5 DEF LoggedInv
    <3> QED
      BY <2>4, <3>1 DEF LoggedInv
  <2> QED
    BY <1>1, <2>3, <2>4, <2>6 DEF LoggedInv
<1>3. CASE ServiceMissing \/ Answered \/ AnsweredOddly \/ Failed
  BY <1>3, CallKeepsLogged
<1>4. CASE ReadCache
  <2>1. /\ pc = "resource" /\ pc' = IF cached THEN "emit" ELSE "device-info"
        /\ cached' = cached /\ warned' = warned /\ log' = log
        /\ services' = services
    BY <1>4 DEF ReadCache, scraperVars
  <2>2. ASSUME NEW c \in Classified, Order(c) < Order(pc')
        PROVE  MissingLogged(c)
    <3>1. Order(c) < Order(pc) \/ (cached /\ c = "device-info")
      BY <2>1, <2>2, OrderOfClassified, OrderOfSteps
    <3> QED
      BY <2>2, <3>1 DEF LoggedInv
  <2> QED
    BY <1>1, <2>1, <2>2 DEF LoggedInv
<1>5. CASE Emit
  <2>1. /\ pc = "emit" /\ pc' = "idle" /\ cached' = cached /\ warned' = warned
        /\ log' = log /\ services' = services
    BY <1>5 DEF Emit, scraperVars
  <2>2. \A c \in Classified : Order(c) < Order(pc) /\ ~(Order(c) < Order(pc'))
    <3>1. Order(pc) = 22 /\ Order(pc') = 0
      BY <2>1 DEF Order
    <3> QED
      BY <3>1, OrderOfClassified
  <2> QED
    BY <1>1, <2>1, <2>2 DEF LoggedInv
<1>6. CASE Shutdown \/ Expire \/ UNCHANGED vars
  <2>1. /\ cached' = cached /\ warned' = warned /\ log' = log /\ batch' = batch
        /\ pc' = pc \/ (pc = "idle" /\ pc' = "stopped")
        /\ services' = services
    BY <1>6 DEF Shutdown, Expire, scraperVars, vars
  <2>2. Order(pc') = Order(pc)
    BY <2>1 DEF Order
  <2> QED
    BY <1>1, <2>1, <2>2 DEF LoggedInv
<1> QED
  BY <1>2, <1>3, <1>4, <1>5, <1>6 DEF Next

\* What is skipped has been logged when the batch goes out without it.
THEOREM SkipsCorrect == Spec => []SkipsAreLogged
<1>1. Init => LoggedInv
  <2> SUFFICES ASSUME Init
               PROVE  LoggedInv
    OBVIOUS
  <2>1. Order(pc) = 0 /\ log = {} /\ ~cached
    BY DEF Init, Order
  <2> QED
    BY <2>1, OrderOfClassified DEF LoggedInv
<1>2. TypeOK /\ PlaceInv /\ LoggedInv /\ [Next]_vars => LoggedInv'
  BY LoggedStep
<1>3. LoggedInv => SkipsAreLogged
  BY DEF LoggedInv, MissingLogged, SkipLogged, SkipsAreLogged, Delivered
<1> QED
  BY <1>1, <1>2, <1>3, TypeCorrect, PlaceCorrect, PTL DEF Spec
=============================================================================
