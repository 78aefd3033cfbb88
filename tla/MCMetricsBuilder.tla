-------------------------- MODULE MCMetricsBuilder --------------------------
(* Small instances of MetricsBuilder for TLC: every metric as a scrape      *)
(* records it with its default configuration, and four metrics in the other *)
(* ways a user may configure them.                                          *)
EXTENDS MetricsBuilder

Host(name, active) ==
    [hostname |-> name, ip |-> name, mac |-> name, interface_type |-> "lan",
     active |-> active, guest |-> FALSE, friendly_name |-> name]

\* A box with two radios of one SSID, and a list that names a host twice.
FullScrape ==
    ScrapeSources(<<"home", "home">>, "ip1",
                  <<Host("a", TRUE), Host("b", FALSE), Host("a", TRUE)>>)

\* The first four sources of a metric in a scrape.
PlanOf(m) ==
    LET all == SelectSeq(FullScrape, LAMBDA s : s.metric = m)
    IN  SubSeq(all, 1, Min({4, Len(all)}))

\* The default configuration; what is off by default is switched on.
Default(m) == [DefaultMetricsConfig[m] EXCEPT !.enabled = TRUE]

DefaultCases ==
    {[cfg |-> [n \in {m} |-> Default(m)], plan |-> PlanOf(m)] : m \in Metrics}

\* The packets of both radios, which differ in hw_id and direction only.
RadioPackets ==
    [cfg  |-> [n \in {"packets"} |-> Default("packets")],
     plan |-> SelectSeq(RadioSources(1, "home") \o RadioSources(2, "home"),
                        LAMBDA s : s.metric = "packets")]

\* Every configuration of the packets, with a metric beside them.
PacketsConfigs ==
    {c \in MetricConfig :
        /\ Valid("packets", c)
        /\ c.enabled \/ (c.strategy = "avg" /\ c.attributes = {})}

ConfiguredCases ==
    {[cfg  |-> ("packets" :> c @@ "hosts_total" :> Default("hosts_total")),
      plan |-> PortBoth("packets", hwIDWAN, "wan")
               \o <<PortBoth("packets", hwID(1), "home")[1],
                    Plain("hosts_total")>>] :
        c \in PacketsConfigs}

\* Doubles and hosts merged into one point, in every way.
MergedCases ==
    {[cfg  |-> [n \in {m} |-> [enabled |-> TRUE, attributes |-> {},
                               strategy |-> strategy]],
      plan |-> PlanOf(m)] :
        m \in {"dsl_noise_margin", "bandwidth_utilization", "hosts_info"},
        strategy \in Strategies}

MCCases == DefaultCases \cup {RadioPackets} \cup ConfiguredCases
           \cup MergedCases

RebootCases == {RadioPackets}
=============================================================================
