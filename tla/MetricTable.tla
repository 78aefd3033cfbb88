---------------------------- MODULE MetricTable -----------------------------
(* The metrics of the receiver and where their points come from:            *)
(* generated_metrics.go and generated_config.go of                          *)
(* receiver/fritzbox/internal/metadata, scraper.go.                         *)
(*                                                                          *)
(* The generator repeats the code of a metric for each of them (a buffer,   *)
(* init, recordDataPoint, emit): what differs is here, what they have in    *)
(* common is MetricsBuilder.  Names are the source's, units and             *)
(* descriptions are left out.                                               *)
EXTENDS Naturals, Sequences, SequencesExt

Gauge(type, keys) == [sum |-> FALSE, type |-> type, attributes |-> keys]

\* SetIsMonotonic(true), AggregationTemporalityCumulative.
CumulativeSum(keys) == [sum |-> TRUE, type |-> "int", attributes |-> keys]

FritzboxDeviceUptime          == Gauge("int", {})
FritzboxDslAttenuation        == Gauge("double", {"direction"})
FritzboxDslErrorSeconds       == CumulativeSum({"severity"})
FritzboxDslNoiseMargin        == Gauge("double", {"direction"})
FritzboxDslRateCurrent        == Gauge("int", {"direction"})
FritzboxDslRateMax            == Gauge("int", {"direction"})
FritzboxHostsActive           == Gauge("int", {})
FritzboxHostsInfo             == Gauge("int",
    {"hostname", "ip", "mac", "interface_type", "active", "guest",
     "friendly_name"})
FritzboxHostsTotal            == Gauge("int", {})
FritzboxWanConnectionStatus   == Gauge("int", {})
FritzboxWanConnectionUptime   == Gauge("int", {})
FritzboxWanExternalIP         == Gauge("int", {"external_ip"})
FritzboxWlanChannel           == Gauge("int", {"hw_id", "ssid"})
FritzboxWlanClients           == Gauge("int", {"hw_id", "ssid"})
HwErrors                      == CumulativeSum({"hw_id", "error_type",
                                                "direction"})
HwNetworkBandwidthLimit       == Gauge("int", {"hw_id"})
HwNetworkBandwidthUtilization == Gauge("double", {"hw_id", "direction"})
HwNetworkIo                   == CumulativeSum({"hw_id", "hw_name",
                                                "direction"})
HwNetworkPackets              == CumulativeSum({"hw_id", "hw_name",
                                                "direction"})
HwNetworkUp                   == Gauge("int", {"hw_id", "hw_name"})

\* MetricsConfig: the metrics by their names.
Table ==
    [device_uptime         |-> FritzboxDeviceUptime,
     dsl_attenuation       |-> FritzboxDslAttenuation,
     dsl_error_seconds     |-> FritzboxDslErrorSeconds,
     dsl_noise_margin      |-> FritzboxDslNoiseMargin,
     dsl_rate_current      |-> FritzboxDslRateCurrent,
     dsl_rate_max          |-> FritzboxDslRateMax,
     hosts_active          |-> FritzboxHostsActive,
     hosts_info            |-> FritzboxHostsInfo,
     hosts_total           |-> FritzboxHostsTotal,
     wan_connection_status |-> FritzboxWanConnectionStatus,
     wan_connection_uptime |-> FritzboxWanConnectionUptime,
     wan_external_ip       |-> FritzboxWanExternalIP,
     wlan_channel          |-> FritzboxWlanChannel,
     wlan_clients          |-> FritzboxWlanClients,
     errors                |-> HwErrors,
     bandwidth_limit       |-> HwNetworkBandwidthLimit,
     bandwidth_utilization |-> HwNetworkBandwidthUtilization,
     io                    |-> HwNetworkIo,
     packets               |-> HwNetworkPackets,
     up                    |-> HwNetworkUp]

Metrics == DOMAIN Table
Sums    == {m \in Metrics : Table[m].sum}
Doubles == {m \in Metrics : Table[m].type = "double"}
Keys    == UNION {Table[m].attributes : m \in Metrics}

-----------------------------------------------------------------------------
(* Configuration.                                                           *)

Strategies == {"sum", "avg", "min", "max"}

\* A metric without attributes has no strategy either.
MetricConfig == [enabled : BOOLEAN, attributes : SUBSET Keys,
                 strategy : Strategies \cup {"none"}]

\* Validate of a metric's configuration.
Valid(m, c) ==
    /\ c.attributes \subseteq Table[m].attributes
    /\ IF Table[m].attributes = {} THEN c.strategy = "none"
                                   ELSE c.strategy \in Strategies

OptIn == {"hosts_active", "hosts_info", "wan_external_ip"}

DefaultMetricsConfig ==
    [m \in Metrics |->
        [enabled    |-> m \notin OptIn,
         attributes |-> Table[m].attributes,
         strategy   |-> CASE Table[m].attributes = {} -> "none"
                          [] m \in Sums               -> "sum"
                          [] OTHER                    -> "avg"]]

-----------------------------------------------------------------------------
(* The Record calls of a scrape, each a metric and its attributes.          *)

Plain(m) == [metric |-> m, attrs |-> <<>>]
By(m, attrs) == [metric |-> m, attrs |-> attrs]

\* A record call per direction, in that order.
Both(m, first, second) ==
    <<By(m, [direction |-> first]), By(m, [direction |-> second])>>

\* The same for an interface with an id and a name.
PortBoth(m, id, name) ==
    <<By(m, [hw_id |-> id, hw_name |-> name, direction |-> "transmit"]),
      By(m, [hw_id |-> id, hw_name |-> name, direction |-> "receive"])>>

hwIDWAN == <<"wan", 0>>
hwID(i) == <<"wlan", i>>

DeviceSources == <<Plain("device_uptime")>>

Utilization(direction) ==
    By("bandwidth_utilization", [hw_id |-> hwIDWAN, direction |-> direction])

\* scrapeWAN and recordUtilization.
WANSources ==
    <<By("bandwidth_limit", [hw_id |-> hwIDWAN]),
      By("up", [hw_id |-> hwIDWAN, hw_name |-> "wan"])>>
    \o PortBoth("io", hwIDWAN, "wan") \o PortBoth("packets", hwIDWAN, "wan")
    \o <<Utilization("receive"), Utilization("transmit")>>

WANConnectionSources(ip) ==
    <<Plain("wan_connection_status"), Plain("wan_connection_uptime"),
      By("wan_external_ip", [external_ip |-> ip])>>

Error(type, direction) ==
    By("errors", [hw_id |-> hwIDWAN, error_type |-> type,
                  direction |-> direction])

DSLSources ==
    Both("dsl_rate_current", "receive", "transmit")
    \o Both("dsl_rate_max", "receive", "transmit")
    \o Both("dsl_noise_margin", "receive", "transmit")
    \o Both("dsl_attenuation", "receive", "transmit")
    \o <<Error("fec", "receive"), Error("fec", "transmit"),
         Error("crc", "receive"), Error("crc", "transmit"),
         Error("hec", "receive"), Error("hec", "transmit"),
         By("dsl_error_seconds", [severity |-> "errored"]),
         By("dsl_error_seconds", [severity |-> "severely_errored"])>>

\* Mutant: every radio is called the first one.
AllFirstRadio(i, ssid) ==
    <<By("up", [hw_id |-> hwID(1), hw_name |-> ssid]),
      By("wlan_channel", [hw_id |-> hwID(1), ssid |-> ssid]),
      By("wlan_clients", [hw_id |-> hwID(1), ssid |-> ssid])>>
    \o PortBoth("packets", hwID(1), ssid)

\* One turn of scrapeWLAN: the radios are numbered in the order of the
\* description, and two of them may well have one SSID.
RadioSources(i, ssid) ==
    <<By("up", [hw_id |-> hwID(i), hw_name |-> ssid]),
      By("wlan_channel", [hw_id |-> hwID(i), ssid |-> ssid]),
      By("wlan_clients", [hw_id |-> hwID(i), ssid |-> ssid])>>
    \o PortBoth("packets", hwID(i), ssid)

\* scrapeHosts and scrapeHostInfo, for a list of hosts.
HostSources(hosts) ==
    <<Plain("hosts_total"), Plain("hosts_active")>>
    \o [i \in DOMAIN hosts |-> By("hosts_info", hosts[i])]

\* scrape, with the SSIDs of the radios, the address and the hosts.
ScrapeSources(ssids, ip, hosts) ==
    DeviceSources \o WANSources \o WANConnectionSources(ip) \o DSLSources
    \o FlattenSeq([i \in DOMAIN ssids |-> RadioSources(i, ssids[i])])
    \o HostSources(hosts)
=============================================================================
