------------------------- MODULE MetricTable_proofs --------------------------
(* Proofs about MetricTable: what the record calls of a scrape are, for any *)
(* number of radios, any SSIDs and any list of hosts.                       *)
EXTENDS MetricTable, NumberSets_proofs, SequenceTheorems

-----------------------------------------------------------------------------
(* Plans, and how they are put together.                                    *)

\* The sources of a sum differ in one of the metric's attributes.
Apart(p) ==
    \A j, k \in DOMAIN p :
        /\ j # k /\ p[j].metric = p[k].metric /\ p[j].metric \in Sums
        => \E key \in Table[p[j].metric].attributes :
              p[j].attrs[key] # p[k].attrs[key]

\* No confusion of two sources: they record two metrics, or one that has
\* attributes, and if it is a sum they differ in one of them.
Differ(s, t) ==
    s.metric = t.metric
    => /\ Table[s.metric].attributes # {}
       /\ s.metric \in Sums => \E key \in Table[s.metric].attributes :
                                  s.attrs[key] # t.attrs[key]

\* A source records a metric, with its attributes.
IsSource(s) ==
    s.metric \in Metrics /\ DOMAIN s.attrs = Table[s.metric].attributes

\* What the sources of a scrape, or of a part of one, are.
IsPlan(p) ==
    /\ Len(p) \in Nat /\ p = [k \in 1 .. Len(p) |-> p[k]]
    /\ \A k \in 1 .. Len(p) : IsSource(p[k])
    /\ \A j, k \in 1 .. Len(p) : j # k => Differ(p[j], p[k])

\* A plan is a sequence of its sources.
LEMMA PlanIsSequence ==
    ASSUME NEW p, IsPlan(p)
    PROVE  p \in Seq(Range(p)) /\ DOMAIN p = 1 .. Len(p)
<1>1. DOMAIN p = 1 .. Len(p) /\ \A k \in DOMAIN p : p[k] \in Range(p)
  BY DEF IsPlan, Range
<1>2. p \in [1 .. Len(p) -> Range(p)] /\ Len(p) \in Nat
  BY <1>1 DEF IsPlan
<1> QED
  BY <1>1, <1>2

\* Two parts that share no sum but with other attributes make a plan.
LEMMA PlansJoin ==
    ASSUME NEW p, NEW q, IsPlan(p), IsPlan(q),
           \A j \in 1 .. Len(p), k \in 1 .. Len(q) :
              Differ(p[j], q[k]) /\ Differ(q[k], p[j])
    PROVE  /\ IsPlan(p \o q) /\ Len(p \o q) = Len(p) + Len(q)
           /\ \A k \in 1 .. Len(p) + Len(q) :
                 (p \o q)[k] = IF k <= Len(p) THEN p[k] ELSE q[k - Len(p)]
           /\ Range(p \o q) = Range(p) \cup Range(q)
<1>1. Len(p) \in Nat /\ Len(q) \in Nat
  BY DEF IsPlan
<1> DEFINE S == Range(p) \cup Range(q)
           r == p \o q
<1>2. p \in Seq(S) /\ q \in Seq(S)
  BY PlanIsSequence
<1> HIDE DEF S
<1>3. /\ r \in Seq(S) /\ Len(r) = Len(p) + Len(q)
      /\ \A k \in 1 .. Len(p) + Len(q) :
            r[k] = IF k <= Len(p) THEN p[k] ELSE q[k - Len(p)]
  BY <1>2, ConcatProperties
<1> HIDE DEF r
<1>4. r = [k \in 1 .. Len(r) |-> r[k]]
  BY <1>3
<1>5. \A k \in 1 .. Len(r) : k <= Len(p) \/ k - Len(p) \in 1 .. Len(q)
  BY <1>1, <1>3
<1>6. \A k \in 1 .. Len(r) : k <= Len(p) => k \in 1 .. Len(p)
  BY <1>1, <1>3
<1>7. \A k \in 1 .. Len(r) : IsSource(r[k])
  BY <1>3, <1>5, <1>6 DEF IsPlan
<1>8. ASSUME NEW j \in 1 .. Len(r), NEW k \in 1 .. Len(r), j # k
      PROVE  Differ(r[j], r[k])
  <2>1. CASE j <= Len(p) /\ k <= Len(p)
    BY <1>3, <1>6, <1>8, <2>1 DEF IsPlan
  <2>2. CASE j > Len(p) /\ k > Len(p)
    <3>1. j - Len(p) # k - Len(p)
      BY <1>1, <1>3, <1>8
    <3>2. r[j] = q[j - Len(p)] /\ r[k] = q[k - Len(p)]
      BY <1>1, <1>3, <1>8, <2>2
    <3> QED
      BY <1>1, <1>3, <1>5, <1>8, <2>2, <3>1, <3>2 DEF IsPlan
  <2>3. CASE j <= Len(p) /\ k > Len(p)
    BY <1>1, <1>3, <1>5, <1>6, <1>8, <2>3
  <2>4. CASE j > Len(p) /\ k <= Len(p)
    BY <1>1, <1>3, <1>5, <1>6, <1>8, <2>4
  <2> QED
    BY <1>1, <1>3, <2>1, <2>2, <2>3, <2>4
<1>9. Range(r) = Range(p) \cup Range(q)
  <2>1. Range(r) \subseteq Range(p) \cup Range(q)
    BY <1>2, <1>3, <1>5, <1>6, PlanIsSequence DEF Range
  <2>2. ASSUME NEW k \in 1 .. Len(p)
        PROVE  p[k] \in Range(r)
    <3>1. k \in DOMAIN r /\ r[k] = p[k]
      BY <1>1, <1>3, <1>4
    <3> QED
      BY <3>1 DEF Range
  <2>3. ASSUME NEW k \in 1 .. Len(q)
        PROVE  q[k] \in Range(r)
    <3>1. /\ k + Len(p) \in 1 .. Len(p) + Len(q)
          /\ ~(k + Len(p) <= Len(p)) /\ (k + Len(p)) - Len(p) = k
      BY <1>1
    <3>2. k + Len(p) \in DOMAIN r /\ r[k + Len(p)] = q[k]
      BY <1>3, <1>4, <3>1
    <3> QED
      BY <3>2 DEF Range
  <2> QED
    BY <2>1, <2>2, <2>3, PlanIsSequence DEF Range
<1> QED
  BY <1>1, <1>3, <1>4, <1>7, <1>8, <1>9 DEF IsPlan, r

\* A plan of metrics of N.
IsPlanOf(p, N) == IsPlan(p) /\ \A s \in Range(p) : s.metric \in N

\* Two plans that share no metric make one.
LEMMA PartsJoin ==
    ASSUME NEW p, NEW q, NEW N, NEW M, IsPlanOf(p, N), IsPlanOf(q, M),
           N \cap M = {}
    PROVE  /\ IsPlanOf(p \o q, N \cup M)
           /\ Range(p \o q) = Range(p) \cup Range(q)
<1>1. \A s \in Range(p), t \in Range(q) : Differ(s, t) /\ Differ(t, s)
  BY DEF IsPlanOf, Differ
<1>2. \A j \in 1 .. Len(p), k \in 1 .. Len(q) :
         p[j] \in Range(p) /\ q[k] \in Range(q)
  BY PlanIsSequence DEF IsPlanOf, Range
<1>3. IsPlan(p \o q) /\ Range(p \o q) = Range(p) \cup Range(q)
  BY <1>1, <1>2, PlansJoin DEF IsPlanOf
<1> QED
  BY <1>3 DEF IsPlanOf

\* One source is a plan.
LEMMA PlanOfOne ==
    ASSUME NEW s, IsSource(s)
    PROVE  IsPlanOf(<<s>>, {s.metric}) /\ Range(<<s>>) = {s}
BY DEF IsPlanOf, IsPlan, Range

\* Two sources that differ are a plan.
LEMMA PlanOfTwo ==
    ASSUME NEW s, NEW t, IsSource(s), IsSource(t), Differ(s, t), Differ(t, s)
    PROVE  IsPlanOf(<<s, t>>, {s.metric, t.metric}) /\ Range(<<s, t>>) = {s, t}
BY DEF IsPlanOf, IsPlan, Range

\* Three sources of three metrics are a plan.
LEMMA PlanOfThree ==
    ASSUME NEW s, NEW t, NEW u, IsSource(s), IsSource(t), IsSource(u),
           s.metric # t.metric, t.metric # u.metric, s.metric # u.metric
    PROVE  IsPlanOf(<<s, t, u>>, {s.metric, t.metric, u.metric})
BY DEF IsPlanOf, IsPlan, Differ, Range

-----------------------------------------------------------------------------
(* The parts of a scrape.                                                   *)

\* The table, row by row.
LEMMA TableRows ==
    /\ Sums = {"dsl_error_seconds", "errors", "io", "packets"}
    /\ Metrics = {"device_uptime", "dsl_attenuation", "dsl_error_seconds",
                  "dsl_noise_margin", "dsl_rate_current", "dsl_rate_max",
                  "hosts_active", "hosts_info", "hosts_total",
                  "wan_connection_status", "wan_connection_uptime",
                  "wan_external_ip", "wlan_channel", "wlan_clients", "errors",
                  "bandwidth_limit", "bandwidth_utilization", "io", "packets",
                  "up"}
    /\ \A m \in {"device_uptime", "hosts_active", "hosts_total",
                 "wan_connection_status", "wan_connection_uptime"} :
          Table[m].attributes = {}
    /\ \A m \in {"dsl_attenuation", "dsl_noise_margin", "dsl_rate_current",
                 "dsl_rate_max"} : Table[m].attributes = {"direction"}
    /\ Table["dsl_error_seconds"].attributes = {"severity"}
    /\ Table["hosts_info"].attributes =
          {"hostname", "ip", "mac", "interface_type", "active", "guest",
           "friendly_name"}
    /\ Table["wan_external_ip"].attributes = {"external_ip"}
    /\ \A m \in {"wlan_channel", "wlan_clients"} :
          Table[m].attributes = {"hw_id", "ssid"}
    /\ Table["errors"].attributes = {"hw_id", "error_type", "direction"}
    /\ Table["bandwidth_limit"].attributes = {"hw_id"}
    /\ Table["bandwidth_utilization"].attributes = {"hw_id", "direction"}
    /\ \A m \in {"io", "packets"} :
          Table[m].attributes = {"hw_id", "hw_name", "direction"}
    /\ Table["up"].attributes = {"hw_id", "hw_name"}
BY DEF Sums, Table, Metrics, CumulativeSum, Gauge,
       FritzboxDeviceUptime, FritzboxDslAttenuation, FritzboxDslErrorSeconds,
       FritzboxDslNoiseMargin, FritzboxDslRateCurrent, FritzboxDslRateMax,
       FritzboxHostsActive, FritzboxHostsInfo, FritzboxHostsTotal,
       FritzboxWanConnectionStatus, FritzboxWanConnectionUptime,
       FritzboxWanExternalIP, FritzboxWlanChannel, FritzboxWlanClients,
       HwErrors, HwNetworkBandwidthLimit, HwNetworkBandwidthUtilization,
       HwNetworkIo, HwNetworkPackets, HwNetworkUp

\* Two sources of one metric, told apart by a key.
LEMMA PlanOfPair ==
    ASSUME NEW m \in Metrics, NEW a, NEW b, NEW key,
           DOMAIN a = Table[m].attributes, DOMAIN b = Table[m].attributes,
           key \in Table[m].attributes, a[key] # b[key]
    PROVE  IsPlanOf(<<By(m, a), By(m, b)>>, {m})
<1> DEFINE s == By(m, a)
           t == By(m, b)
<1>1. s.metric = m /\ t.metric = m /\ s.attrs = a /\ t.attrs = b
  BY DEF By
<1> HIDE DEF s, t
<1>2. IsSource(s) /\ IsSource(t) /\ Differ(s, t) /\ Differ(t, s)
  BY <1>1 DEF IsSource, Differ
<1>3. IsPlanOf(<<s, t>>, {m})
  BY <1>1, <1>2, PlanOfTwo
<1> QED
  BY <1>3 DEF s, t

\* One source of a metric.
LEMMA PlanOfSource ==
    ASSUME NEW m \in Metrics, NEW a, DOMAIN a = Table[m].attributes
    PROVE  IsPlanOf(<<By(m, a)>>, {m})
<1> DEFINE s == By(m, a)
<1>1. s.metric = m /\ s.attrs = a
  BY DEF By
<1> HIDE DEF s
<1>2. IsPlanOf(<<s>>, {m})
  BY <1>1, PlanOfOne DEF IsSource
<1> QED
  BY <1>2 DEF s

\* The two directions of a port (scrapeWAN, scrapeWLAN).
LEMMA PlanOfPorts ==
    ASSUME NEW m \in {"io", "packets"}, NEW id, NEW name
    PROVE  IsPlanOf(PortBoth(m, id, name), {m})
<1> DEFINE a == [hw_id |-> id, hw_name |-> name, direction |-> "transmit"]
           b == [hw_id |-> id, hw_name |-> name, direction |-> "receive"]
<1>1. DOMAIN a = Table[m].attributes /\ DOMAIN b = Table[m].attributes
  BY TableRows
<1>2. "direction" \in Table[m].attributes /\ m \in Metrics
  BY TableRows
<1>3. a["direction"] # b["direction"]
  OBVIOUS
<1>4. PortBoth(m, id, name) = <<By(m, a), By(m, b)>>
  BY DEF PortBoth
<1> HIDE DEF a, b
<1> QED
  BY <1>1, <1>2, <1>3, <1>4, PlanOfPair

\* The two directions of a rate (scrapeDSL).
LEMMA PlanOfBoth ==
    ASSUME NEW m \in {"dsl_attenuation", "dsl_noise_margin",
                      "dsl_rate_current", "dsl_rate_max"}
    PROVE  IsPlanOf(Both(m, "receive", "transmit"), {m})
<1> DEFINE a == [direction |-> "receive"]
           b == [direction |-> "transmit"]
<1>1. DOMAIN a = Table[m].attributes /\ DOMAIN b = Table[m].attributes
  BY TableRows
<1>2. "direction" \in Table[m].attributes /\ m \in Metrics
  BY TableRows
<1>3. a["direction"] # b["direction"]
  OBVIOUS
<1>4. Both(m, "receive", "transmit") = <<By(m, a), By(m, b)>>
  BY DEF Both
<1> HIDE DEF a, b
<1> QED
  BY <1>1, <1>2, <1>3, <1>4, PlanOfPair

\* Two sources of two metrics.
LEMMA PlanOfTwoMetrics ==
    ASSUME NEW m \in Metrics, NEW n \in Metrics, m # n, NEW a, NEW b,
           DOMAIN a = Table[m].attributes, DOMAIN b = Table[n].attributes
    PROVE  IsPlanOf(<<By(m, a), By(n, b)>>, {m, n})
<1> DEFINE s == By(m, a)
           t == By(n, b)
<1>1. s.metric = m /\ t.metric = n /\ s.attrs = a /\ t.attrs = b
  BY DEF By
<1> HIDE DEF s, t
<1>2. IsSource(s) /\ IsSource(t) /\ Differ(s, t) /\ Differ(t, s)
  BY <1>1 DEF IsSource, Differ
<1>3. IsPlanOf(<<s, t>>, {m, n})
  BY <1>1, <1>2, PlanOfTwo
<1> QED
  BY <1>3 DEF s, t

\* Three sources of three metrics.
LEMMA PlanOfThreeMetrics ==
    ASSUME NEW l \in Metrics, NEW m \in Metrics, NEW n \in Metrics,
           l # m, m # n, l # n, NEW a, NEW b, NEW c,
           DOMAIN a = Table[l].attributes, DOMAIN b = Table[m].attributes,
           DOMAIN c = Table[n].attributes
    PROVE  IsPlanOf(<<By(l, a), By(m, b), By(n, c)>>, {l, m, n})
<1> DEFINE s == By(l, a)
           t == By(m, b)
           u == By(n, c)
<1>1. /\ s.metric = l /\ t.metric = m /\ u.metric = n
      /\ s.attrs = a /\ t.attrs = b /\ u.attrs = c
  BY DEF By
<1> HIDE DEF s, t, u
<1>2. IsSource(s) /\ IsSource(t) /\ IsSource(u)
  BY <1>1 DEF IsSource
<1>3. IsPlanOf(<<s, t, u>>, {l, m, n})
  BY <1>1, <1>2, PlanOfThree
<1> QED
  BY <1>3 DEF s, t, u

\* A metric without attributes has a source without them.
LEMMA PlainIsBy == \A m : Plain(m) = By(m, <<>>) /\ DOMAIN <<>> = {}
BY DEF Plain, By

WANMetrics == {"bandwidth_limit", "up", "io", "packets",
               "bandwidth_utilization"}

\* scrapeWAN's sources, all packets of them under the WAN port's id.
LEMMA WANIsPlan ==
    /\ IsPlanOf(WANSources, WANMetrics)
    /\ \A s \in Range(WANSources) :
          s.metric = "packets" => s.attrs["hw_id"] = hwIDWAN
<1> DEFINE a == [hw_id |-> hwIDWAN]
           b == [hw_id |-> hwIDWAN, hw_name |-> "wan"]
           c == [hw_id |-> hwIDWAN, direction |-> "receive"]
           d == [hw_id |-> hwIDWAN, direction |-> "transmit"]
           one == <<By("bandwidth_limit", a), By("up", b)>>
           io == PortBoth("io", hwIDWAN, "wan")
           packets == PortBoth("packets", hwIDWAN, "wan")
           last == <<By("bandwidth_utilization", c),
                     By("bandwidth_utilization", d)>>
<1>1. WANSources = one \o io \o packets \o last
  BY DEF WANSources, Utilization
<1>2. IsPlanOf(one, {"bandwidth_limit", "up"})
  <2>1. DOMAIN a = Table["bandwidth_limit"].attributes
        /\ DOMAIN b = Table["up"].attributes
    BY TableRows
  <2>2. "bandwidth_limit" \in Metrics /\ "up" \in Metrics
    BY TableRows
  <2> HIDE DEF a, b
  <2> QED
    BY <2>1, <2>2, PlanOfTwoMetrics
<1>3. IsPlanOf(io, {"io"}) /\ IsPlanOf(packets, {"packets"})
  BY PlanOfPorts
<1>4. IsPlanOf(last, {"bandwidth_utilization"})
  <2>1. /\ DOMAIN c = Table["bandwidth_utilization"].attributes
        /\ DOMAIN d = Table["bandwidth_utilization"].attributes
        /\ "direction" \in Table["bandwidth_utilization"].attributes
    BY TableRows
  <2>2. "bandwidth_utilization" \in Metrics /\ c["direction"] # d["direction"]
    BY TableRows
  <2> HIDE DEF c, d
  <2> QED
    BY <2>1, <2>2, PlanOfPair
<1>5. \A s \in Range(packets) : s.attrs["hw_id"] = hwIDWAN
  BY DEF PortBoth, By, Range
<1> HIDE DEF one, io, packets, last
<1> DEFINE N1 == {"bandwidth_limit", "up"}
           N2 == N1 \cup {"io"}
           N3 == N2 \cup {"packets"}
           N4 == N3 \cup {"bandwidth_utilization"}
<1>6. /\ N1 \cap {"io"} = {} /\ N2 \cap {"packets"} = {}
      /\ N3 \cap {"bandwidth_utilization"} = {}
  OBVIOUS
<1>7. N4 = WANMetrics /\ "packets" \notin N2
      /\ "packets" # "bandwidth_utilization"
  BY DEF WANMetrics
<1>8. IsPlanOf(one, N1)
  BY <1>2
<1> HIDE DEF N1
<1>9. IsPlanOf(one \o io, N2)
  BY <1>3, <1>6, <1>8, PartsJoin
<1> HIDE DEF N2
<1> DEFINE p == one \o io
           q == p \o packets
<1>10. /\ IsPlanOf(q, N3)
       /\ Range(q) = Range(p) \cup Range(packets)
  <2> HIDE DEF p
  <2> QED
    BY <1>3, <1>6, <1>9, PartsJoin DEF p
<1> HIDE DEF N3
<1>11. /\ IsPlanOf(q \o last, N4)
       /\ Range(q \o last) = Range(q) \cup Range(last)
  <2> HIDE DEF q
  <2> QED
    BY <1>4, <1>6, <1>10, PartsJoin
<1> HIDE DEF N4
<1>12. ASSUME NEW s \in Range(WANSources), s.metric = "packets"
       PROVE  s.attrs["hw_id"] = hwIDWAN
  <2>1. s \in Range(p) \/ s \in Range(packets) \/ s \in Range(last)
    BY <1>1, <1>10, <1>11, <1>12
  <2>2. s \notin Range(p) /\ s \notin Range(last)
    BY <1>4, <1>7, <1>9, <1>12 DEF IsPlanOf
  <2> QED
    BY <1>5, <2>1, <2>2
<1> QED
  BY <1>1, <1>7, <1>11, <1>12

ConnectionMetrics == {"wan_connection_status", "wan_connection_uptime",
                      "wan_external_ip"}

\* scrapeWANConnection's sources.
LEMMA ConnectionIsPlan ==
    ASSUME NEW ip
    PROVE  IsPlanOf(WANConnectionSources(ip), ConnectionMetrics)
<1> DEFINE a == [external_ip |-> ip]
<1>1. DOMAIN a = Table["wan_external_ip"].attributes
      /\ \A m \in ConnectionMetrics \ {"wan_external_ip"} :
            Table[m].attributes = DOMAIN <<>>
  BY TableRows, PlainIsBy DEF ConnectionMetrics
<1>2. WANConnectionSources(ip) = <<By("wan_connection_status", <<>>),
                                   By("wan_connection_uptime", <<>>),
                                   By("wan_external_ip", a)>>
  BY PlainIsBy DEF WANConnectionSources
<1>3. ConnectionMetrics \subseteq Metrics
  BY TableRows DEF ConnectionMetrics
<1> HIDE DEF a
<1>4. IsPlanOf(<<By("wan_connection_status", <<>>),
               By("wan_connection_uptime", <<>>), By("wan_external_ip", a)>>,
             {"wan_connection_status", "wan_connection_uptime",
              "wan_external_ip"})
  <2>1. /\ "wan_connection_status" \in Metrics
        /\ "wan_connection_uptime" \in Metrics
        /\ "wan_external_ip" \in Metrics
        /\ Table["wan_connection_status"].attributes = DOMAIN <<>>
        /\ Table["wan_connection_uptime"].attributes = DOMAIN <<>>
    BY <1>1, <1>3 DEF ConnectionMetrics
  <2> QED
    BY <1>1, <2>1, PlanOfThreeMetrics
<1> QED
  BY <1>2, <1>4 DEF ConnectionMetrics

\* scrapeDevice's source.
LEMMA DeviceIsPlan == IsPlanOf(DeviceSources, {"device_uptime"})
<1>1. /\ "device_uptime" \in Metrics
      /\ DOMAIN <<>> = Table["device_uptime"].attributes
  BY TableRows, PlainIsBy
<1> QED
  BY <1>1, PlanOfSource, PlainIsBy DEF DeviceSources

\* The errors and the error seconds of the line.
DSLErrors ==
    <<Error("fec", "receive"), Error("fec", "transmit"),
      Error("crc", "receive"), Error("crc", "transmit"),
      Error("hec", "receive"), Error("hec", "transmit"),
      By("dsl_error_seconds", [severity |-> "errored"]),
      By("dsl_error_seconds", [severity |-> "severely_errored"])>>

\* A source of the errors.
LEMMA ErrorIsSource ==
    ASSUME NEW type, NEW direction
    PROVE  /\ Error(type, direction).metric = "errors"
           /\ IsSource(Error(type, direction))
           /\ Error(type, direction).attrs["error_type"] = type
           /\ Error(type, direction).attrs["direction"] = direction
<1> DEFINE a == [hw_id |-> hwIDWAN, error_type |-> type,
                 direction |-> direction]
           s == Error(type, direction)
<1>1. a["error_type"] = type /\ a["direction"] = direction
  OBVIOUS
<1>2. DOMAIN a = Table["errors"].attributes /\ "errors" \in Metrics
  BY TableRows
<1>3. s = By("errors", a)
  BY DEF Error
<1> HIDE DEF a, s
<1>4. s.metric = "errors" /\ s.attrs = a
  BY <1>3 DEF By
<1>5. IsSource(s)
  BY <1>2, <1>4 DEF IsSource
<1> QED
  BY <1>1, <1>4, <1>5 DEF s

\* A source of the error seconds.
LEMMA SeverityIsSource ==
    ASSUME NEW severity
    PROVE  LET s == By("dsl_error_seconds", [severity |-> severity])
           IN  /\ s.metric = "dsl_error_seconds" /\ IsSource(s)
               /\ s.attrs["severity"] = severity
<1> DEFINE a == [severity |-> severity]
           s == By("dsl_error_seconds", a)
<1>1. a["severity"] = severity
  OBVIOUS
<1>2. DOMAIN a = Table["dsl_error_seconds"].attributes
      /\ "dsl_error_seconds" \in Metrics
  BY TableRows
<1> HIDE DEF a
<1>3. s.metric = "dsl_error_seconds" /\ s.attrs = a
  BY DEF By
<1> HIDE DEF s
<1>4. IsSource(s)
  BY <1>2, <1>3 DEF IsSource
<1> QED
  BY <1>1, <1>3, <1>4 DEF s, a

\* No two of the errors have both type and direction in common.
LEMMA DSLErrorsArePlan == IsPlanOf(DSLErrors, {"errors", "dsl_error_seconds"})
<1> DEFINE type(k) == IF k <= 2 THEN "fec" ELSE IF k <= 4 THEN "crc" ELSE "hec"
           direction(k) == IF k \in {1, 3, 5} THEN "receive" ELSE "transmit"
           severity(k) == IF k = 7 THEN "errored" ELSE "severely_errored"
           L == DSLErrors
<1>1. Len(L) = 8 /\ DOMAIN L = 1 .. 8 /\ L = [k \in 1 .. 8 |-> L[k]]
  BY DEF DSLErrors
<1>2. \A k \in 1 .. 6 : L[k] = Error(type(k), direction(k))
  BY DEF DSLErrors
<1>3. \A k \in 7 .. 8 :
         L[k] = By("dsl_error_seconds", [severity |-> severity(k)])
  BY DEF DSLErrors
<1> HIDE DEF L
<1>4. \A k \in 1 .. 6 : /\ L[k].metric = "errors" /\ IsSource(L[k])
                        /\ L[k].attrs["error_type"] = type(k)
                        /\ L[k].attrs["direction"] = direction(k)
  BY <1>2, ErrorIsSource
<1>5. \A k \in 7 .. 8 : /\ L[k].metric = "dsl_error_seconds" /\ IsSource(L[k])
                        /\ L[k].attrs["severity"] = severity(k)
  BY <1>3, SeverityIsSource
<1>6. \A k \in 1 .. 8 : k \in 1 .. 6 \/ k \in 7 .. 8
  OBVIOUS
<1>7. ASSUME NEW j \in 1 .. 8, NEW k \in 1 .. 8, j # k,
             L[j].metric = L[k].metric
      PROVE  /\ Table[L[j].metric].attributes # {}
             /\ \E key \in Table[L[j].metric].attributes :
                   L[j].attrs[key] # L[k].attrs[key]
  <2>1. CASE j \in 1 .. 6 /\ k \in 1 .. 6
    <3>1. type(j) # type(k) \/ direction(j) # direction(k)
      BY <1>7, <2>1
    <3> HIDE DEF type, direction
    <3>2. "error_type" \in Table["errors"].attributes
          /\ "direction" \in Table["errors"].attributes
      BY TableRows
    <3> QED
      BY <1>4, <2>1, <3>1, <3>2
  <2>2. CASE j \in 7 .. 8 /\ k \in 7 .. 8
    <3>1. severity(j) # severity(k)
      BY <1>7, <2>2
    <3> HIDE DEF severity
    <3>2. "severity" \in Table["dsl_error_seconds"].attributes
      BY TableRows
    <3> QED
      BY <1>5, <2>2, <3>1, <3>2
  <2> QED
    BY <1>4, <1>5, <1>6, <1>7, <2>1, <2>2
<1>8. IsPlan(L)
  <2>1. \A k \in 1 .. 8 : IsSource(L[k])
    BY <1>4, <1>5, <1>6
  <2>2. \A j, k \in 1 .. 8 : j # k => Differ(L[j], L[k])
    BY <1>7 DEF Differ
  <2> QED
    BY <1>1, <2>1, <2>2 DEF IsPlan
<1>9. \A s \in Range(L) : s.metric \in {"errors", "dsl_error_seconds"}
  BY <1>1, <1>4, <1>5, <1>6 DEF Range
<1> QED
  BY <1>8, <1>9 DEF IsPlanOf, L

RateMetrics == {"dsl_rate_current", "dsl_rate_max", "dsl_noise_margin",
                "dsl_attenuation"}
DSLMetrics == RateMetrics \cup {"errors", "dsl_error_seconds"}

\* scrapeDSL's sources.
LEMMA DSLIsPlan == IsPlanOf(DSLSources, DSLMetrics)
<1> DEFINE p(m) == Both(m, "receive", "transmit")
           p1 == p("dsl_rate_current")
           p2 == p("dsl_rate_max")
           p3 == p("dsl_noise_margin")
           p4 == p("dsl_attenuation")
           N2 == {"dsl_rate_current", "dsl_rate_max"}
           N3 == N2 \cup {"dsl_noise_margin"}
<1>1. DSLSources = p1 \o p2 \o p3 \o p4 \o DSLErrors
  BY DEF DSLSources, DSLErrors
<1>2. /\ IsPlanOf(p1, {"dsl_rate_current"}) /\ IsPlanOf(p2, {"dsl_rate_max"})
      /\ IsPlanOf(p3, {"dsl_noise_margin"})
      /\ IsPlanOf(p4, {"dsl_attenuation"})
  BY PlanOfBoth
<1> HIDE DEF p1, p2, p3, p4
<1>3. IsPlanOf(p1 \o p2, N2)
  <2>1. /\ {"dsl_rate_current"} \cap {"dsl_rate_max"} = {}
        /\ N2 = {"dsl_rate_current"} \cup {"dsl_rate_max"}
    OBVIOUS
  <2> HIDE DEF N2
  <2> QED
    BY <1>2, <2>1, PartsJoin
<1>4. IsPlanOf(p1 \o p2 \o p3, N3)
  <2>1. N2 \cap {"dsl_noise_margin"} = {}
    OBVIOUS
  <2> HIDE DEF N2
  <2> QED
    BY <1>2, <1>3, <2>1, PartsJoin
<1>5. IsPlanOf(p1 \o p2 \o p3 \o p4, RateMetrics)
  <2>1. /\ N3 \cap {"dsl_attenuation"} = {}
        /\ RateMetrics = N3 \cup {"dsl_attenuation"}
    BY DEF RateMetrics
  <2> HIDE DEF N3
  <2> QED
    BY <1>2, <1>4, <2>1, PartsJoin
<1>6. RateMetrics \cap {"errors", "dsl_error_seconds"} = {}
  BY DEF RateMetrics
<1> QED
  BY <1>1, <1>5, <1>6, DSLErrorsArePlan, PartsJoin DEF DSLMetrics

RadioMetrics == {"up", "wlan_channel", "wlan_clients", "packets"}

\* The sources of one turn of scrapeWLAN, under the radio's id.
LEMMA RadioIsPlan ==
    ASSUME NEW i, NEW ssid
    PROVE  /\ IsPlanOf(RadioSources(i, ssid), RadioMetrics)
           /\ \A s \in Range(RadioSources(i, ssid)) :
                 s.attrs["hw_id"] = hwID(i)
<1> DEFINE a == [hw_id |-> hwID(i), hw_name |-> ssid]
           b == [hw_id |-> hwID(i), ssid |-> ssid]
           p == <<By("up", a), By("wlan_channel", b), By("wlan_clients", b)>>
           q == PortBoth("packets", hwID(i), ssid)
           r == RadioSources(i, ssid)
<1>1. r = p \o q
  BY DEF RadioSources
<1>2. /\ \A s \in Range(p) : s.attrs["hw_id"] = hwID(i)
      /\ \A s \in Range(q) : s.attrs["hw_id"] = hwID(i)
  BY DEF PortBoth, By, Range
<1>3. IsPlanOf(p, {"up", "wlan_channel", "wlan_clients"})
  <2>1. /\ "up" \in Metrics /\ "wlan_channel" \in Metrics
        /\ "wlan_clients" \in Metrics
    BY TableRows
  <2>2. /\ DOMAIN a = Table["up"].attributes
        /\ DOMAIN b = Table["wlan_channel"].attributes
        /\ DOMAIN b = Table["wlan_clients"].attributes
    BY TableRows
  <2> HIDE DEF a, b
  <2> QED
    BY <2>1, <2>2, PlanOfThreeMetrics
<1>4. IsPlanOf(q, {"packets"})
  BY PlanOfPorts
<1> HIDE DEF p, q, r
<1>5. /\ IsPlanOf(r, {"up", "wlan_channel", "wlan_clients"} \cup {"packets"})
      /\ Range(r) = Range(p) \cup Range(q)
  <2>1. {"up", "wlan_channel", "wlan_clients"} \cap {"packets"} = {}
    OBVIOUS
  <2> QED
    BY <1>1, <1>3, <1>4, <2>1, PartsJoin
<1>6. /\ IsPlanOf(r, RadioMetrics)
      /\ \A s \in Range(r) : s.attrs["hw_id"] = hwID(i)
  BY <1>2, <1>5 DEF IsPlanOf, RadioMetrics
<1> QED
  BY <1>6 DEF r

\* FlattenSeq's function, f[n] the first n sequences in one.
IsFlattening(f, seqs, N) ==
    f = [i \in 1 .. N |-> IF i = 1 THEN seqs[i] ELSE f[i - 1] \o seqs[i]]

\* There is such a function, whatever the sequences.
LEMMA FlatteningExists ==
    ASSUME NEW seqs, NEW N \in Nat
    PROVE  \E f : IsFlattening(f, seqs, N)
<1> DEFINE S == {n \in Nat : \E f : IsFlattening(f, seqs, n)}
<1>1. 0 \in S
  <2>1. IsFlattening(<<>>, seqs, 0)
    BY DEF IsFlattening
  <2> QED
    BY <2>1
<1>2. ASSUME NEW n \in Nat, n \in S
      PROVE  n + 1 \in S
  <2>1. PICK f : IsFlattening(f, seqs, n)
    BY <1>2
  <2> DEFINE last == IF n + 1 = 1 THEN seqs[n + 1] ELSE f[n] \o seqs[n + 1]
             g == [i \in 1 .. n + 1 |-> IF i = n + 1 THEN last ELSE f[i]]
  <2>2. \A i \in 1 .. n :
           f[i] = IF i = 1 THEN seqs[i] ELSE f[i - 1] \o seqs[i]
    BY <2>1 DEF IsFlattening
  <2> HIDE DEF last
  <2>3. \A i \in 1 .. n : g[i] = f[i]
    OBVIOUS
  <2>4. g[n + 1] = last /\ DOMAIN g = 1 .. n + 1 /\ (n # 0 => g[n] = f[n])
    OBVIOUS
  <2>5. ASSUME NEW i \in 1 .. n + 1
        PROVE  g[i] = IF i = 1 THEN seqs[i] ELSE g[i - 1] \o seqs[i]
    <3> HIDE DEF g
    <3>1. CASE i = n + 1
      <4>1. i - 1 = n
        BY <3>1
      <4> QED
        BY <2>4, <3>1, <4>1 DEF last
    <3>2. CASE i \in 1 .. n /\ i # 1
      <4>1. i - 1 \in 1 .. n
        BY <3>2
      <4> QED
        BY <2>2, <2>3, <3>2, <4>1
    <3>3. CASE i \in 1 .. n /\ i = 1
      BY <2>2, <2>3, <3>3
    <3> QED
      BY <3>1, <3>2, <3>3
  <2>6. g = [i \in 1 .. n + 1 |-> g[i]]
    OBVIOUS
  <2> HIDE DEF g
  <2>7. IsFlattening(g, seqs, n + 1)
    BY <2>5, <2>6 DEF IsFlattening
  <2> QED
    BY <2>7
<1> HIDE DEF S
<1>3. N \in S
  BY <1>1, <1>2, InductionOnNaturals
<1> QED
  BY <1>3 DEF S

\* What concatenation keeps, FlattenSeq keeps.
LEMMA Flattened ==
    ASSUME NEW seqs, Len(seqs) \in Nat, Len(seqs) # 0
    PROVE  \E f : IsFlattening(f, seqs, Len(seqs))
                  /\ FlattenSeq(seqs) = f[Len(seqs)]
<1> DEFINE f == CHOOSE g : IsFlattening(g, seqs, Len(seqs))
<1>1. IsFlattening(f, seqs, Len(seqs))
  BY FlatteningExists
<1>2. FlattenSeq(seqs) = f[Len(seqs)]
  BY DEF FlattenSeq, IsFlattening
<1> QED
  BY <1>1, <1>2

\* The sources of radios, of those up to n.
RadioPlan(p, n) ==
    /\ IsPlanOf(p, RadioMetrics)
    /\ \A s \in Range(p) : \E i \in 1 .. n : s.attrs["hw_id"] = hwID(i)

\* Two radios, or a radio and the WAN port, have two ids.
LEMMA RadiosDiffer ==
    ASSUME NEW s, NEW t, s.metric \in RadioMetrics,
           s.metric = "packets" => s.attrs["hw_id"] # t.attrs["hw_id"]
    PROVE  Differ(s, t)
<1>1. /\ \A m \in RadioMetrics : Table[m].attributes # {}
      /\ "hw_id" \in Table["packets"].attributes
      /\ RadioMetrics \cap Sums = {"packets"}
  BY TableRows DEF RadioMetrics
<1> QED
  BY <1>1 DEF Differ

\* scrapeWLAN's sources, of any number of radios, even with one SSID.
LEMMA RadiosArePlan ==
    ASSUME NEW ssids, Len(ssids) \in Nat, DOMAIN ssids = 1 .. Len(ssids)
    PROVE  RadioPlan(FlattenSeq([i \in DOMAIN ssids |->
                                    RadioSources(i, ssids[i])]), Len(ssids))
<1> DEFINE N == Len(ssids)
           seqs == [i \in DOMAIN ssids |-> RadioSources(i, ssids[i])]
<1>1. /\ Len(seqs) = N /\ N \in Nat
      /\ \A i \in 1 .. N : seqs[i] = RadioSources(i, ssids[i])
  BY LenProperties
<1>2. CASE N = 0
  <2>1. seqs = <<>>
    BY <1>2
  <2>2. Range(<<>>) = {} /\ Len(<<>>) = 0 /\ DOMAIN <<>> = {}
    BY DEF Range
  <2>3. RadioPlan(<<>>, 0)
    BY <2>2 DEF RadioPlan, IsPlanOf, IsPlan
  <2>4. FlattenSeq(seqs) = seqs
    BY <1>1, <1>2 DEF FlattenSeq
  <2> QED
    BY <1>2, <2>1, <2>3, <2>4
<1>3. CASE N # 0
  <2> HIDE DEF seqs, N
  <2>1. PICK f : IsFlattening(f, seqs, N) /\ FlattenSeq(seqs) = f[N]
    BY <1>1, <1>3, Flattened
  <2>2. \A i \in 1 .. N :
           f[i] = IF i = 1 THEN seqs[i] ELSE f[i - 1] \o seqs[i]
    BY <2>1 DEF IsFlattening
  <2> DEFINE S == {n \in Nat : n \in 1 .. N => RadioPlan(f[n], n)}
  <2>3. 0 \in S
    OBVIOUS
  <2>4. ASSUME NEW n \in Nat, n \in S, n + 1 \in 1 .. N
        PROVE  RadioPlan(f[n + 1], n + 1)
    <3> DEFINE q == seqs[n + 1]
    <3>1. /\ IsPlanOf(q, RadioMetrics)
          /\ \A s \in Range(q) : s.attrs["hw_id"] = hwID(n + 1)
      BY <1>1, <2>4, RadioIsPlan
    <3> HIDE DEF q
    <3>2. CASE n = 0
      <4>1. f[n + 1] = q
        BY <2>2, <2>4, <3>2 DEF q
      <4> QED
        BY <3>1, <4>1 DEF RadioPlan
    <3>3. CASE n # 0
      <4> DEFINE p == f[n]
      <4>1. n \in 1 .. N /\ n + 1 # 1 /\ (n + 1) - 1 = n
        BY <1>1, <2>4, <3>3
      <4>2. f[n + 1] = p \o q /\ RadioPlan(p, n)
        BY <2>2, <2>4, <4>1 DEF q
      <4> HIDE DEF p
      <4>3. \A s \in Range(p), t \in Range(q) :
               s.attrs["hw_id"] # t.attrs["hw_id"]
        <5>1. \A i \in 1 .. n : hwID(i) # hwID(n + 1)
          BY DEF hwID
        <5> QED
          BY <3>1, <4>2, <5>1 DEF RadioPlan
      <4>4. \A s \in Range(p), t \in Range(q) :
               Differ(s, t) /\ Differ(t, s)
        BY <3>1, <4>2, <4>3, RadiosDiffer DEF RadioPlan, IsPlanOf
      <4>5. \A j \in 1 .. Len(p), k \in 1 .. Len(q) :
               p[j] \in Range(p) /\ q[k] \in Range(q)
        BY <3>1, <4>2, PlanIsSequence DEF RadioPlan, IsPlanOf, Range
      <4>6. IsPlan(p \o q) /\ Range(p \o q) = Range(p) \cup Range(q)
        BY <3>1, <4>2, <4>4, <4>5, PlansJoin DEF RadioPlan, IsPlanOf
      <4>7. \A s \in Range(p \o q) : s.metric \in RadioMetrics
        BY <3>1, <4>2, <4>6 DEF RadioPlan, IsPlanOf
      <4>8. \A s \in Range(p \o q) :
               \E i \in 1 .. n + 1 : s.attrs["hw_id"] = hwID(i)
        BY <3>1, <4>2, <4>6 DEF RadioPlan
      <4> QED
        BY <4>2, <4>6, <4>7, <4>8 DEF RadioPlan, IsPlanOf
    <3> QED
      BY <3>2, <3>3
  <2>5. \A n \in Nat : n \in S => n + 1 \in S
    BY <2>4
  <2> HIDE DEF S
  <2>6. N \in S
    BY <1>1, <2>3, <2>5, InductionOnNaturals
  <2>7. RadioPlan(f[N], N)
    BY <1>1, <1>3, <2>6 DEF S
  <2> QED
    BY <2>1, <2>7 DEF seqs, N
<1> QED
  BY <1>2, <1>3

\* A list of hosts, as the device tells of them.
IsHosts(hosts) ==
    /\ Len(hosts) \in Nat /\ DOMAIN hosts = 1 .. Len(hosts)
    /\ \A i \in DOMAIN hosts :
          DOMAIN hosts[i] = Table["hosts_info"].attributes

HostMetrics == {"hosts_total", "hosts_active", "hosts_info"}

\* scrapeHosts' sources, of any list of hosts, even one that repeats a host.
LEMMA HostsArePlan ==
    ASSUME NEW hosts, IsHosts(hosts)
    PROVE  IsPlanOf(HostSources(hosts), HostMetrics)
<1> DEFINE p == <<By("hosts_total", <<>>), By("hosts_active", <<>>)>>
           q == [i \in DOMAIN hosts |-> By("hosts_info", hosts[i])]
<1>1. HostSources(hosts) = p \o q
  BY PlainIsBy DEF HostSources
<1>2. IsPlanOf(p, {"hosts_total", "hosts_active"})
  <2>1. /\ "hosts_total" \in Metrics /\ "hosts_active" \in Metrics
        /\ Table["hosts_total"].attributes = DOMAIN <<>>
        /\ Table["hosts_active"].attributes = DOMAIN <<>>
    BY TableRows, PlainIsBy
  <2> QED
    BY <2>1, PlanOfTwoMetrics
<1>3. IsPlanOf(q, {"hosts_info"})
  <2>1. Len(q) = Len(hosts) /\ DOMAIN q = 1 .. Len(hosts) /\ Len(hosts) \in Nat
    BY LenProperties DEF IsHosts
  <2>2. \A i \in 1 .. Len(hosts) :
           q[i].metric = "hosts_info" /\ q[i].attrs = hosts[i]
    BY DEF IsHosts, By
  <2>3. q = [k \in 1 .. Len(q) |-> q[k]]
    BY <2>1
  <2> HIDE DEF q
  <2>4. /\ "hosts_info" \in Metrics /\ "hosts_info" \notin Sums
        /\ Table["hosts_info"].attributes # {}
    BY TableRows
  <2>5. \A i \in 1 .. Len(hosts) : IsSource(q[i])
    BY <2>2, <2>4 DEF IsSource, IsHosts
  <2>6. \A j, k \in 1 .. Len(hosts) : Differ(q[j], q[k])
    BY <2>2, <2>4 DEF Differ
  <2> QED
    BY <2>1, <2>2, <2>3, <2>5, <2>6 DEF IsPlanOf, IsPlan, Range
<1> HIDE DEF p, q
<1>4. {"hosts_total", "hosts_active"} \cap {"hosts_info"} = {}
  OBVIOUS
<1>5. HostMetrics = {"hosts_total", "hosts_active"} \cup {"hosts_info"}
  BY DEF HostMetrics
<1> QED
  BY <1>1, <1>2, <1>3, <1>4, <1>5, PartsJoin

\* The record calls of a scrape, of any radios and hosts, are a plan: no two
\* of them write one point of a cumulative sum.
LEMMA ScrapeIsPlan ==
    ASSUME NEW ssids, Len(ssids) \in Nat, DOMAIN ssids = 1 .. Len(ssids),
           NEW ip, NEW hosts, IsHosts(hosts)
    PROVE  IsPlan(ScrapeSources(ssids, ip, hosts))
<1> DEFINE p1 == DeviceSources
           p2 == WANSources
           p3 == WANConnectionSources(ip)
           p4 == DSLSources
           p5 == FlattenSeq([i \in DOMAIN ssids |-> RadioSources(i, ssids[i])])
           p6 == HostSources(hosts)
<1>1. ScrapeSources(ssids, ip, hosts) = p1 \o p2 \o p3 \o p4 \o p5 \o p6
  BY DEF ScrapeSources
<1>2. /\ IsPlanOf(p1, {"device_uptime"}) /\ IsPlanOf(p2, WANMetrics)
      /\ IsPlanOf(p3, ConnectionMetrics) /\ IsPlanOf(p4, DSLMetrics)
      /\ RadioPlan(p5, Len(ssids)) /\ IsPlanOf(p6, HostMetrics)
  BY DeviceIsPlan, WANIsPlan, ConnectionIsPlan, DSLIsPlan, RadiosArePlan,
     HostsArePlan
<1>3. \A s \in Range(p2) : s.metric = "packets" => s.attrs["hw_id"] = hwIDWAN
  BY WANIsPlan
<1> HIDE DEF p1, p2, p3, p4, p5, p6
<1> DEFINE M2 == {"device_uptime"} \cup WANMetrics
           M3 == M2 \cup ConnectionMetrics
           M4 == M3 \cup DSLMetrics
<1>4. /\ {"device_uptime"} \cap WANMetrics = {}
      /\ M2 \cap ConnectionMetrics = {}
      /\ M3 \cap DSLMetrics = {}
      /\ (M4 \cup RadioMetrics) \cap HostMetrics = {}
      /\ "packets" \notin {"device_uptime"}
      /\ "packets" \notin ConnectionMetrics /\ "packets" \notin DSLMetrics
  BY DEF WANMetrics, ConnectionMetrics, DSLMetrics, RateMetrics, RadioMetrics,
         HostMetrics
<1> HIDE DEF M2, M3, M4
<1>5. IsPlanOf(p1 \o p2, M2) /\ Range(p1 \o p2) = Range(p1) \cup Range(p2)
  BY <1>2, <1>4, PartsJoin DEF M2
<1>6. IsPlanOf(p1 \o p2 \o p3, M3)
      /\ Range(p1 \o p2 \o p3) = Range(p1 \o p2) \cup Range(p3)
  BY <1>2, <1>4, <1>5, PartsJoin DEF M3
<1> DEFINE p == p1 \o p2 \o p3 \o p4
<1>7. IsPlanOf(p, M4) /\ Range(p) = Range(p1 \o p2 \o p3) \cup Range(p4)
  BY <1>2, <1>4, <1>6, PartsJoin DEF M4
<1> HIDE DEF p
<1>8. \A s \in Range(p) : s.metric = "packets" => s.attrs["hw_id"] = hwIDWAN
  BY <1>2, <1>3, <1>4, <1>5, <1>6, <1>7 DEF IsPlanOf
<1>9. \A s \in Range(p), t \in Range(p5) : Differ(s, t) /\ Differ(t, s)
  <2>1. \A i : hwID(i) # hwIDWAN
    BY DEF hwID, hwIDWAN
  <2> SUFFICES ASSUME NEW s \in Range(p), NEW t \in Range(p5),
                      s.metric = t.metric
               PROVE  Differ(s, t) /\ Differ(t, s)
    BY DEF Differ
  <2>2. t.metric \in RadioMetrics
    BY <1>2 DEF RadioPlan, IsPlanOf
  <2>3. s.metric = "packets" => s.attrs["hw_id"] # t.attrs["hw_id"]
    BY <1>2, <1>8, <2>1 DEF RadioPlan
  <2> QED
    BY <2>2, <2>3, RadiosDiffer
<1>10. \A j \in 1 .. Len(p), k \in 1 .. Len(p5) :
          p[j] \in Range(p) /\ p5[k] \in Range(p5)
  BY <1>2, <1>7, PlanIsSequence DEF RadioPlan, IsPlanOf, Range
<1>11. IsPlan(p \o p5) /\ Range(p \o p5) = Range(p) \cup Range(p5)
  BY <1>2, <1>7, <1>9, <1>10, PlansJoin DEF RadioPlan, IsPlanOf
<1>12. IsPlanOf(p \o p5, M4 \cup RadioMetrics)
  BY <1>2, <1>7, <1>11 DEF RadioPlan, IsPlanOf
<1>13. IsPlanOf(p \o p5 \o p6, (M4 \cup RadioMetrics) \cup HostMetrics)
  BY <1>2, <1>4, <1>12, PartsJoin
<1> QED
  BY <1>1, <1>13 DEF p, IsPlanOf

\* What MetricsBuilder assumes of a plan, and SumsCorrect besides, is so of
\* every scrape.
THEOREM ScrapesAreApart ==
    ASSUME NEW ssids, Len(ssids) \in Nat, DOMAIN ssids = 1 .. Len(ssids),
           NEW ip, NEW hosts, IsHosts(hosts)
    PROVE  LET p == ScrapeSources(ssids, ip, hosts)
           IN  /\ p \in Seq(Range(p))
               /\ \A s \in Range(p) :
                     /\ s.metric \in Metrics
                     /\ DOMAIN s.attrs = Table[s.metric].attributes
               /\ \A j, k \in DOMAIN p :
                     /\ p[j].metric = p[k].metric
                     /\ Table[p[j].metric].attributes = {}
                     => j = k
               /\ Apart(p)
<1> DEFINE p == ScrapeSources(ssids, ip, hosts)
<1>1. IsPlan(p)
  BY ScrapeIsPlan
<1> HIDE DEF p
<1>2. p \in Seq(Range(p)) /\ DOMAIN p = 1 .. Len(p)
  BY <1>1, PlanIsSequence
<1>3. \A s \in Range(p) : IsSource(s)
  BY <1>1, <1>2 DEF IsPlan, Range
<1>4. \A j, k \in DOMAIN p : j # k => Differ(p[j], p[k])
  BY <1>1, <1>2 DEF IsPlan
<1> QED
  BY <1>2, <1>3, <1>4 DEF Apart, IsSource, Differ, p
=============================================================================
