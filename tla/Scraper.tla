------------------------------ MODULE Scraper -------------------------------
(* One scrape after another of receiver/fritzbox/scraper.go.                *)
(*                                                                          *)
(* A scrape discovers the device's services (once), makes its calls group   *)
(* by group, then fetches the resource attributes (once) and emits what it  *)
(* recorded.  Every call is a step, so that the device may fail, and the    *)
(* scrape's deadline may expire, between any two of them.  The controller   *)
(* that ticks and takes the batch is scraperhelper's: external, here only   *)
(* Tick and the variable batch.                                             *)
EXTENDS Naturals, FiniteSets

CONSTANTS
    Devices,    \* the devices a behavior may face
    Configs,    \* the configurations it may run with
    Parts,      \* the parts of its service list a booting device may describe
    MaxFaults   \* bound: calls that go wrong, deadlines that expire

\* The services the scraper looks for, and any other one.
Services == {"DeviceInfo", "WANCommonInterfaceConfig", "WANIPConnection",
             "WANPPPConnection", "WANDSLInterfaceConfig", "WLANConfiguration",
             "Hosts", "other"}

\* The calls of a scrape, in the order of the code.
Calls ==
    {"device", "wan-link", "bytes-sent", "bytes-received", "packets-sent",
     "packets-received", "wan-utilization", "utilization-limits",
     "wan-connection", "external-ip", "dsl", "dsl-statistics", "wlan",
     "wlan-associations", "wlan-statistics", "hosts", "host-entry",
     "host-info", "host-list", "device-info"}

\* The service a call goes to; the connection's is chosen at run time.
ServiceOf(c) ==
    CASE c \in {"device", "device-info"} -> "DeviceInfo"
      [] c \in {"wan-link", "bytes-sent", "bytes-received", "packets-sent",
                "packets-received", "wan-utilization", "utilization-limits"}
                                         -> "WANCommonInterfaceConfig"
      [] c \in {"dsl", "dsl-statistics"} -> "WANDSLInterfaceConfig"
      [] c \in {"wlan", "wlan-associations", "wlan-statistics"}
                                         -> "WLANConfiguration"
      [] OTHER                           -> "Hosts"

\* Two calls repeat the action of another one.
ActionOf(c) ==
    CASE c = "utilization-limits" -> "wan-link"
      [] c = "device-info"        -> "device"
      [] OTHER                    -> c

\* A device: the services in its description, its WLAN radios and hosts, the
\* actions that answer with a UPnP fault and those open to everybody.
Device == [offers : SUBSET Services, radios : Nat, hosts : Nat,
           faulty : SUBSET Calls, open : SUBSET Calls]

ASSUME DevicesAssumption ==
    /\ Devices \subseteq Device
    /\ \A d \in Devices : d.radios > 0 <=> "WLANConfiguration" \in d.offers

Credentials == {"none", "right", "wrong"}

\* A configuration: the credentials and which of the opt-in metrics that cost
\* calls of their own are enabled.
Config == [creds : Credentials, externalIP : BOOLEAN, hostsActive : BOOLEAN,
           hostsInfo : BOOLEAN]

ASSUME ConfigsAssumption == Configs \subseteq Config
ASSUME PartsAssumption   == Parts \subseteq SUBSET Services
ASSUME BoundAssumption   == MaxFaults \in Nat

\* What a call brings: values, an answer whose numbers do not parse, a UPnP
\* fault, ErrUnauthorized, or any other error.
Outcomes == {"ok", "odd", "fault", "unauthorized", "error"}

VARIABLES
    dev,       \* the device, fixed
    cfg,       \* the configuration, fixed
    mu,        \* fritzboxScraper.mu: "free" or "held"
    services,  \* the cached service list, {} when nil
    warned,    \* the keys warnOnce has logged
    cached,    \* is resourceAttrsCache set?
    pc,        \* "idle", "discover", "fetching", a call, "resource", "emit"
               \* or "stopped"
    i,         \* the radio or host of the call, from 1
    expired,   \* has the scrape's context ended?
    resource,  \* has resourceOptions found the attributes in this scrape?
    buffer,    \* what the metrics builder holds: <<call, i>> per data point
    errs,      \* the scrape's errors, one per call at most
    log,       \* the calls of the scrape and their outcomes (properties only)
    batch,     \* what the last scrape returned
    faults     \* faults so far

given == <<dev, cfg>>
scraperVars == <<mu, services, warned, cached>>
vars == <<dev, cfg, mu, services, warned, cached, pc, i, expired, resource,
          buffer, errs, log, batch, faults>>

Kinds == {"missing", "credentials", "unavailable", "rejected", "failed"}

\* The kinds isCapabilitySkip removes.
Skips == {"missing", "credentials", "unavailable"}

Error == [call : Calls, kind : Kinds]

\* A key of warnOnce: the group, the suffix as a kind, and the radio (else 0).
Key == [group : Calls \cup {"wan-traffic"}, kind : Kinds \cup {"unparsed"},
        radio : Nat]

NoBatch == [metrics |-> {}, resource |-> FALSE, error |-> "none", failed |-> {}]

TypeOK ==
    /\ dev \in Devices /\ cfg \in Configs
    /\ mu \in {"free", "held"}
    /\ services \subseteq Services
    /\ warned \subseteq Key
    /\ cached \in BOOLEAN /\ expired \in BOOLEAN /\ resource \in BOOLEAN
    /\ pc \in Calls \cup {"idle", "discover", "fetching", "resource", "emit",
                      "stopped"}
    /\ i \in Nat /\ faults \in Nat
    /\ buffer \subseteq Calls \X Nat
    /\ errs \subseteq Error
    /\ log \subseteq [call : Calls, i : Nat, outcome : Outcomes]
    /\ batch \in [metrics : SUBSET (Calls \X Nat), resource : BOOLEAN,
                  error : {"none", "partial", "plain"}, failed : SUBSET Error]

Init ==
    /\ dev \in Devices /\ cfg \in Configs
    /\ mu = "free" /\ services = {} /\ warned = {} /\ cached = FALSE
    /\ pc = "idle" /\ i = 1 /\ expired = FALSE /\ resource = FALSE
    /\ buffer = {} /\ errs = {} /\ log = {} /\ batch = NoBatch
    /\ faults = 0

-----------------------------------------------------------------------------
(* How a call's failure is treated.                                         *)

\* The calls made by callGroup: it reports a missing service.
Grouped ==
    {"device", "wan-link", "bytes-sent", "bytes-received", "packets-sent",
     "packets-received", "wan-utilization", "dsl", "dsl-statistics", "hosts",
     "host-info", "device-info"}

\* The calls whose failures go through classifyCallError.
Classified == Grouped \cup {"wan-connection"}

\* The classified calls whose error is appended to the scrape's errors.
Reported == Classified \ {"wan-utilization", "device-info"}

\* The group name callGroup is given.
Group(c) ==
    CASE c \in {"bytes-sent", "bytes-received", "packets-sent",
                "packets-received"} -> "wan-traffic"
      [] c = "dsl-statistics"      -> "dsl"
      [] OTHER                     -> c

\* Mutant: the case for the UPnP fault is missing.
FaultsFail(outcome) ==
    CASE outcome = "unauthorized" /\ cfg.creds = "none" -> "credentials"
      [] outcome = "unauthorized" /\ cfg.creds # "none" -> "rejected"
      [] OTHER                                      -> "failed"

\* Mutant: the default case is missing.
NoDefault(outcome) ==
    CASE outcome = "unauthorized" /\ cfg.creds = "none" -> "credentials"
      [] outcome = "unauthorized" /\ cfg.creds # "none" -> "rejected"
      [] outcome = "fault"                          -> "unavailable"
      [] OTHER                                      -> outcome

\* classifyCallError: without credentials a 401 is a missing capability, with
\* credentials a rejection; a UPnP fault is a missing capability.
Classify(outcome) ==
    CASE outcome = "unauthorized" /\ cfg.creds = "none" -> "credentials"
      [] outcome = "unauthorized" /\ cfg.creds # "none" -> "rejected"
      [] outcome = "fault"                          -> "unavailable"
      [] OTHER                                      -> "failed"

\* Mutant: scrapeHosts returns without appending its error.
HostsFailSilently(c, outcome) ==
    IF c \in Reported \ {"hosts"}
    THEN {[call |-> c, kind |-> Classify(outcome)]} ELSE {}

\* The errors a failed call appends: hosts.active appends the raw error.
ErrorsOf(c, outcome) ==
    CASE c \in Reported     -> {[call |-> c, kind |-> Classify(outcome)]}
      [] c = "host-entry"   -> {[call |-> c, kind |-> "failed"]}
      [] OTHER              -> {}

\* Mutant: missing credentials are not logged.
CredentialsUnlogged(c, outcome) ==
    IF c \in Classified /\ Classify(outcome) = "unavailable"
    THEN {[group |-> Group(c), kind |-> "unavailable", radio |-> 0]} ELSE {}

\* What a failed call logs: a classified one its skip, a radio or the host
\* list whatever went wrong, the others nothing.
WarningsOf(c, outcome) ==
    CASE c \in Classified /\ Classify(outcome) \in Skips ->
             {[group |-> Group(c), kind |-> Classify(outcome), radio |-> 0]}
      [] c \in {"wlan", "wlan-associations"} ->
             {[group |-> c, kind |-> "failed", radio |-> i]}
      [] c = "host-list" -> {[group |-> c, kind |-> "failed", radio |-> 0]}
      [] OTHER -> {}

\* warnOnce takes mu.
WarnOnce(keys) ==
    /\ keys # {} => mu = "free"
    /\ warned' = warned \cup keys

-----------------------------------------------------------------------------
(* The order of the calls.                                                  *)

GoTo(step, n) == pc' = step /\ i' = n

\* Mutant: the loop over the radios ends one early.
RadiosButLast(n) == IF n < dev.radios /\ "WLANConfiguration" \in services
                    THEN GoTo("wlan", n) ELSE GoTo("hosts", 1)

\* The n-th radio, or the hosts after the last one.
NextRadio(n) == IF n <= dev.radios /\ "WLANConfiguration" \in services
              THEN GoTo("wlan", n) ELSE GoTo("hosts", 1)

AfterHosts == GoTo(IF cfg.hostsInfo THEN "host-info" ELSE "resource", 1)

\* Where the scrape goes after a call, by whether the code after the call
\* goes on with its answer or returns from the group.
Advance(c, goesOn) ==
    CASE c = "device"             -> GoTo("wan-link", 1)
      [] c = "wan-link"           -> GoTo("bytes-sent", 1)
      [] c = "bytes-sent"         -> GoTo(IF goesOn THEN "bytes-received"
                                                    ELSE "packets-sent", 1)
      [] c = "bytes-received"     -> GoTo("packets-sent", 1)
      [] c = "packets-sent"       -> GoTo(IF goesOn THEN "packets-received"
                                                    ELSE "wan-utilization", 1)
      [] c = "packets-received"   -> GoTo("wan-utilization", 1)
      [] c = "wan-utilization"    -> GoTo(IF goesOn THEN "utilization-limits"
                                                    ELSE "wan-connection", 1)
      [] c = "utilization-limits" -> GoTo("wan-connection", 1)
      [] c = "wan-connection"     -> GoTo(IF goesOn /\ cfg.externalIP
                                          THEN "external-ip" ELSE "dsl", 1)
      [] c = "external-ip"        -> GoTo("dsl", 1)
      [] c = "dsl"                -> IF goesOn THEN GoTo("dsl-statistics", 1)
                                               ELSE NextRadio(1)
      [] c = "dsl-statistics"     -> NextRadio(1)
      [] c = "wlan"               -> IF goesOn THEN GoTo("wlan-associations", i)
                                               ELSE NextRadio(i + 1)
      [] c = "wlan-associations"  -> IF goesOn THEN GoTo("wlan-statistics", i)
                                               ELSE NextRadio(i + 1)
      [] c = "wlan-statistics"    -> NextRadio(i + 1)
      [] c = "hosts"              -> IF goesOn /\ cfg.hostsActive
                                        /\ dev.hosts > 0
                                     THEN GoTo("host-entry", 1) ELSE AfterHosts
      [] c = "host-entry"         -> IF goesOn /\ i < dev.hosts
                                     THEN GoTo("host-entry", i + 1)
                                     ELSE AfterHosts
      [] c = "host-info"          -> GoTo(IF goesOn THEN "host-list"
                                                    ELSE "resource", 1)
      [] c = "host-list"          -> GoTo("resource", 1)
      [] c = "device-info"        -> GoTo("emit", 1)

-----------------------------------------------------------------------------
(* What the device answers (external).                                      *)

\* The answer of an undisturbed device.  FetchURL needs no digest.
Truth(c) ==
    CASE c = "host-list" -> "ok"
      [] /\ c # "host-list" /\ ActionOf(c) \notin dev.open
         /\ cfg.creds # "right" -> "unauthorized"
      [] OTHER -> IF ActionOf(c) \in dev.faulty THEN "fault" ELSE "ok"

\* The calls whose answer is of no use, or of another use, without numbers,
\* an address, a path or a well-formed list in it.
MayBeOdd ==
    {"device", "bytes-received", "packets-received", "wan-utilization",
     "utilization-limits", "external-ip", "dsl", "dsl-statistics",
     "wlan-associations", "wlan-statistics", "hosts", "host-info", "host-list"}

\* What may go wrong with one call: any error, an odd answer, a fault of an
\* action the device does support, a 401 to the right credentials (TR064 shows
\* when either comes of a replay or a rotation).  FetchURL knows no fault.
Mishaps(c) ==
    {"error"} \cup (IF c \in MayBeOdd /\ Truth(c) = "ok" THEN {"odd"} ELSE {})
              \cup (IF c # "host-list" THEN {"fault"} ELSE {})
              \cup (IF c # "host-list" /\ cfg.creds = "right"
                       /\ ActionOf(c) \notin dev.open
                    THEN {"unauthorized"} ELSE {})

Happens(c, outcome) ==
    \/ ~expired /\ outcome = Truth(c) /\ UNCHANGED faults
    \/ expired /\ outcome = "error" /\ UNCHANGED faults
    \/ /\ ~expired /\ outcome \in Mishaps(c) \ {Truth(c)}
       /\ faults < MaxFaults /\ faults' = faults + 1

-----------------------------------------------------------------------------
(* A scrape.                                                                *)

\* The controller's ticker starts a scrape with a fresh context.
Tick ==
    /\ pc = "idle"
    /\ pc' = "discover" /\ errs' = {} /\ log' = {} /\ expired' = FALSE
    /\ UNCHANGED <<given, scraperVars, i, resource, buffer, batch, faults>>

\* discover: a list once fetched is kept.
DiscoverCached ==
    /\ pc = "discover" /\ mu = "free" /\ services # {}
    /\ GoTo("device", 1)
    /\ UNCHANGED <<given, scraperVars, expired, resource, buffer, errs, log,
                   batch, faults>>

\* discover: otherwise the list is fetched with mu held.
DiscoverFetch ==
    /\ pc = "discover" /\ mu = "free" /\ services = {}
    /\ mu' = "held" /\ pc' = "fetching"
    /\ UNCHANGED <<given, services, warned, cached, i, expired, resource,
                   buffer, errs, log, batch, faults>>

\* Client.Services returned what the description holds, which may be a part
\* of the list.  It is kept, unless it is nil for want of any service.
Discovered ==
    /\ pc = "fetching" /\ ~expired
    /\ \/ services' = dev.offers /\ UNCHANGED faults
       \/ /\ faults < MaxFaults /\ faults' = faults + 1
          /\ services' \in {dev.offers \cap part : part \in Parts}
    /\ mu' = "free" /\ GoTo("device", 1)
    /\ UNCHANGED <<given, warned, cached, expired, resource, buffer, errs,
                   log, batch>>

\* Mutant: the part of the list that was read before the error is kept.
DiscoverFailsHalfway ==
    /\ pc = "fetching"
    /\ \/ expired /\ UNCHANGED faults
       \/ ~expired /\ faults < MaxFaults /\ faults' = faults + 1
    /\ services' = dev.offers \cap {"DeviceInfo"}
    /\ mu' = "free" /\ pc' = "idle"
    /\ batch' = [NoBatch EXCEPT !.error = "plain"]
    /\ UNCHANGED <<given, warned, cached, i, expired, resource, buffer, errs,
                   log>>

\* Client.Services failed: the scrape returns an empty batch and a plain error.
DiscoverFails ==
    /\ pc = "fetching"
    /\ \/ expired /\ UNCHANGED faults
       \/ ~expired /\ faults < MaxFaults /\ faults' = faults + 1
    /\ mu' = "free" /\ pc' = "idle"
    /\ batch' = [NoBatch EXCEPT !.error = "plain"]
    /\ UNCHANGED <<given, services, warned, cached, i, expired, resource,
                   buffer, errs, log>>

Offered(c) ==
    IF c \in {"wan-connection", "external-ip"}
    THEN services \cap {"WANIPConnection", "WANPPPConnection"} # {}
    ELSE ServiceOf(c) \in services

\* The device does not offer the service of a call.  The error is appended
\* but for the WAN connection and for DSL, which many devices do not have.
ServiceMissing ==
    /\ pc \in Classified /\ ~Offered(pc)
    /\ WarnOnce({[group |-> Group(pc), kind |-> "missing", radio |-> 0]})
    /\ errs' = errs \cup (IF pc \in Reported \ {"wan-connection", "dsl"}
                          THEN {[call |-> pc, kind |-> "missing"]} ELSE {})
    /\ Advance(pc, FALSE)
    /\ UNCHANGED <<given, mu, services, cached, expired, resource, buffer,
                   log, batch, faults>>

Logged(outcome) == log' = log \cup {[call |-> pc, i |-> i, outcome |-> outcome]}

\* Mutant: the active hosts are recorded while they are counted.
RecordedWhileCounting(c) ==
    CASE c \in {"bytes-sent", "packets-sent", "wan-utilization", "host-info",
                "device-info"} -> {}
      [] c = "host-entry" -> {<<c, 1>>}
      [] OTHER -> {<<c, i>>}

\* The data points a call's values add.  The counter of active hosts is
\* recorded after the last entry, at once when there is none.
Recorded(c) ==
    CASE c \in {"bytes-sent", "packets-sent", "wan-utilization", "host-info",
                "device-info"} -> {}
      [] c = "hosts" -> {<<c, i>>} \cup
                        (IF cfg.hostsActive /\ dev.hosts = 0
                         THEN {<<"host-entry", 1>>} ELSE {})
      [] c = "host-entry" -> IF i = dev.hosts THEN {<<c, 1>>} ELSE {}
      [] OTHER -> {<<c, i>>}

\* Mutant: the attributes are used but not kept.
ForgetResource(c) ==
    /\ resource' = (resource \/ c = "device-info")
    /\ UNCHANGED cached

\* resourceOptions keeps what DeviceInfo.GetInfo brought, under mu.
KeepResource(c) ==
    /\ c = "device-info" => mu = "free"
    /\ cached' = (cached \/ c = "device-info")
    /\ resource' = (resource \/ c = "device-info")

\* The call brought values.
Answered ==
    /\ pc \in Calls /\ Offered(pc)
    /\ Happens(pc, "ok") /\ Logged("ok")
    /\ buffer' = buffer \cup Recorded(pc)
    /\ KeepResource(pc)
    /\ Advance(pc, TRUE)
    /\ UNCHANGED <<given, mu, services, warned, expired, errs, batch>>

\* The call brought an answer without the values: nothing is recorded.  A
\* counter pair (either answer stands for both) is an error, an unreadable
\* host list is logged, the rest passes in silence; DSL and the radio go on.
AnsweredOddly ==
    /\ pc \in Calls /\ Offered(pc)
    /\ Happens(pc, "odd") /\ Logged("odd")
    /\ errs' = errs \cup (IF pc \in {"bytes-received", "packets-received"}
                          THEN {[call |-> pc, kind |-> "failed"]} ELSE {})
    /\ WarnOnce(IF pc = "host-list"
                THEN {[group |-> pc, kind |-> "unparsed", radio |-> 0]} ELSE {})
    /\ Advance(pc, pc \in {"dsl", "wlan-associations"})
    /\ UNCHANGED <<given, mu, services, cached, expired, resource, buffer,
                   batch>>

\* The call failed.
Failed ==
    /\ pc \in Calls /\ Offered(pc)
    /\ \E outcome \in {"fault", "unauthorized", "error"} :
         /\ Happens(pc, outcome) /\ Logged(outcome)
         /\ errs' = errs \cup ErrorsOf(pc, outcome)
         /\ WarnOnce(WarningsOf(pc, outcome))
    /\ Advance(pc, FALSE)
    /\ UNCHANGED <<given, mu, services, cached, expired, resource, buffer,
                   batch>>

\* Mutant: mu is held across the call to the device.
ReadCacheLocked ==
    /\ pc = "resource" /\ mu = "free"
    /\ resource' = cached
    /\ pc' = IF cached THEN "emit" ELSE "device-info"
    /\ mu' = IF cached THEN "free" ELSE "held"
    /\ UNCHANGED <<given, services, warned, cached, i, expired, buffer, errs,
                   log, batch, faults>>

\* resourceOptions reads its cache under mu, then calls the device without.
ReadCache ==
    /\ pc = "resource" /\ mu = "free"
    /\ resource' = cached
    /\ pc' = IF cached THEN "emit" ELSE "device-info"
    /\ UNCHANGED <<given, scraperVars, i, expired, buffer, errs, log, batch,
                   faults>>

\* Emit empties the metrics builder into the batch, under the resource if it
\* is known; a batch without metrics has no resource.  Capability skips are no
\* errors; what is left makes the scrape a partial one.
Emit ==
    /\ pc = "emit"
    /\ LET failed == {e \in errs : e.kind \notin Skips}
       IN  batch' = [metrics |-> buffer,
                     resource |-> resource /\ buffer # {},
                     error |-> IF failed = {} THEN "none" ELSE "partial",
                     failed |-> failed]
    /\ buffer' = {} /\ pc' = "idle"
    /\ UNCHANGED <<given, scraperVars, i, expired, resource, errs, log,
                   faults>>

\* The scrape's context ends: every later call of the scrape fails.
Expire ==
    /\ pc \notin {"idle", "stopped"} /\ ~expired
    /\ faults < MaxFaults /\ faults' = faults + 1
    /\ expired' = TRUE
    /\ UNCHANGED <<given, scraperVars, pc, i, resource, buffer, errs, log,
                   batch>>

\* The controller shuts the scraper down between two scrapes.
Shutdown ==
    /\ pc = "idle" /\ pc' = "stopped"
    /\ UNCHANGED <<given, scraperVars, i, expired, resource, buffer, errs,
                   log, batch, faults>>

Next ==
    \/ Tick
    \/ Shutdown
    \/ DiscoverCached
    \/ DiscoverFetch
    \/ Discovered
    \/ DiscoverFails
    \/ ServiceMissing
    \/ Answered
    \/ AnsweredOddly
    \/ Failed
    \/ ReadCache
    \/ Emit
    \/ Expire

\* The ticker goes on until the shutdown, and a scrape waits for nothing but its
\* calls, which all return.
Fairness ==
    /\ WF_vars(Tick)
    /\ WF_vars(DiscoverCached \/ DiscoverFetch \/ Discovered \/ DiscoverFails
                \/ ServiceMissing \/ Answered \/ AnsweredOddly \/ Failed
                \/ ReadCache \/ Emit)

Spec == Init /\ [][Next]_vars /\ Fairness

-----------------------------------------------------------------------------
(* Properties.                                                              *)

\* What a device and a configuration should yield, stated without the order
\* of the code: the calls whose answers hold data points, ...
DataCalls == Calls \ {"bytes-sent", "packets-sent", "wan-utilization",
                      "host-info", "device-info"}

Enabled(c) == /\ c = "external-ip" => cfg.externalIP
              /\ c = "host-entry" => cfg.hostsActive
              /\ c \in {"host-info", "host-list"} => cfg.hostsInfo

\* ... the calls each of them rests on, itself included, ...
Chain(c) ==
    {c} \cup CASE c = "bytes-received"     -> {"bytes-sent"}
               [] c = "packets-received"   -> {"packets-sent"}
               [] c = "utilization-limits" -> {"wan-utilization"}
               [] c = "external-ip"        -> {"wan-connection"}
               [] c = "dsl-statistics"     -> {"dsl"}
               [] c = "wlan-associations"  -> {"wlan"}
               [] c = "wlan-statistics"    -> {"wlan", "wlan-associations"}
               [] c = "host-entry"         -> {"hosts"}
               [] c = "host-list"          -> {"host-info"}
               [] OTHER                    -> {}

Radio(c) == c \in {"wlan", "wlan-associations", "wlan-statistics"}

OfferedBy(d, c) ==
    IF c \in {"wan-connection", "external-ip"}
    THEN d.offers \cap {"WANIPConnection", "WANPPPConnection"} # {}
    ELSE ServiceOf(c) \in d.offers

\* ... and the data points a device that is let alone yields.
Wanted ==
    {p \in DataCalls \X (1 .. (dev.radios + 1)) :
        /\ p[2] <= IF Radio(p[1]) THEN dev.radios ELSE 1
        /\ Enabled(p[1])
        /\ \A c \in Chain(p[1]) :
              /\ OfferedBy(dev, c)
              /\ Truth(c) = "ok" \/ (c = "host-entry" /\ dev.hosts = 0)}

\* The scrape has returned a batch.
Delivered == pc = "idle" /\ batch.error # "plain" /\ log # {}

Disturbed(l) == l.outcome # Truth(l.call)

\* The scraper knows the services a call rests on.
Known(c) == \A d \in Chain(c) : Offered(d)

\* A failing call costs its own group's data points at most: whatever else
\* the device offers, in the list the scraper has of it, is in the batch
\* (scrape's comment: "so unaffected groups still export").
UnaffectedGroupsExport ==
    Delivered =>
        \A p \in Wanted \ batch.metrics :
           Known(p[1]) =>
              \E l \in log : /\ Disturbed(l) /\ l.call \in Chain(p[1])
                             /\ Radio(p[1]) => l.i = p[2]

\* A data point rests on answers of the same scrape, all of them: none is
\* carried over from an earlier scrape, and hosts.active counts every host
\* ("An incomplete enumeration would undercount: emit nothing").
DataIsWhole ==
    Delivered =>
        \A p \in batch.metrics : \A c \in Chain(p[1]) :
           \A n \in (IF c = "host-entry" THEN 1 .. dev.hosts ELSE {p[2]}) :
              \E l \in log : /\ l.call = c /\ l.i = n
                             /\ l.outcome \in (IF c = p[1] THEN {"ok"}
                                                         ELSE {"ok", "odd"})

\* Why a call may be reported: it was disturbed, or the credentials are wrong.
Excuse(l) == Disturbed(l) \/ (l.outcome = "unauthorized" /\ cfg.creds = "wrong")

\* What the device or the configuration does not support never fails a
\* scrape: every error it reports but hosts.active's has an excuse.
CapabilityGapsDontFail ==
    Delivered =>
        \A e \in batch.failed : e.call # "host-entry" =>
           \E l \in log : l.call = e.call /\ Excuse(l)

\* The same for the host entries of hosts.active, which scrapeHosts reports
\* unclassified (CHANGELOG.md: missing credentials skip protected groups with
\* one warning instead of failing each scrape).
HostEntryGapsDontFail ==
    Delivered =>
        \A e \in batch.failed : e.call = "host-entry" =>
           \E l \in log : l.call = e.call /\ Excuse(l)

\* A failure that is no capability gap.
RealFailure(l) ==
    l.outcome = "error" \/ (l.outcome = "unauthorized" /\ cfg.creds # "none")

\* A scrape that lost a device, link, traffic, connection, DSL or hosts group
\* or hosts.info to a failure says so, naming the call.  A failure of the WAN
\* utilization, of the resource attributes, of a radio and of the host list is
\* outside the property: the code drops it.
FailuresReported ==
    Delivered =>
        \A l \in log : RealFailure(l) /\ l.call \in Reported \cup {"host-entry"}
            => \E e \in batch.failed : e.call = l.call

\* ... and so does a scrape that lost a radio.
RadioFailuresReported ==
    Delivered =>
        \A l \in log : RealFailure(l) /\ Radio(l.call)
            => \E e \in batch.failed : e.call = l.call

\* A group that is skipped for want of a service (of the device or of the list
\* kept of it), an action or credentials has been logged by the time the batch
\* goes out without it.
SkipsAreLogged ==
    Delivered =>
        /\ \A c \in Classified : Enabled(c) /\ ~Offered(c) =>
              \E k \in warned : k.group = Group(c) /\ k.kind = "missing"
        /\ \A l \in log : l.call \in Classified =>
              /\ l.outcome = "fault" =>
                   \E k \in warned :
                      k.group = Group(l.call) /\ k.kind = "unavailable"
              /\ l.outcome = "unauthorized" /\ cfg.creds = "none" =>
                   \E k \in warned :
                      k.group = Group(l.call) /\ k.kind = "credentials"

\* Once a batch has carried the device's resource attributes, every later
\* batch with metrics in it does, even when the device no longer answers
\* GetInfo, and whatever scrapes come in between.
ResourceSticks ==
    [](batch.resource => [](batch.metrics # {} => batch.resource))

\* Only the fetch of the service list runs under mu: warnOnce, discover and
\* resourceOptions never wait for a mutex their own goroutine holds (the
\* deadlock TestScrapeUnauthenticatedNoDeadlock guards one path of).
MutexNotHeld == mu = "held" => pc = "fetching"

\* A scrape always returns, whatever its calls bring.
ScrapeReturns == pc \notin {"idle", "stopped"} ~> pc = "idle"

\* Once the faults are over, every batch is complete: no early failure, of
\* the discovery or of a group, is remembered, nor a description without any
\* service.  One with some of them is, and excluded here.
EventuallyComplete ==
    Parts \subseteq {{}} =>
    <>[](pc = "idle" =>
            /\ batch.error # "plain" /\ batch.metrics = Wanted
            /\ batch.resource <=> OfferedBy(dev, "device-info")
                                     /\ Truth("device-info") = "ok")
=============================================================================
