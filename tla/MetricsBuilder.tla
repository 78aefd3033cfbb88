--------------------------- MODULE MetricsBuilder ---------------------------
(* The metrics builder between the scraper and its batches:                 *)
(* receiver/fritzbox/internal/metadata/generated_metrics.go.                *)
(*                                                                          *)
(* Each metric buffers the data points of one scrape.  A point keeps the    *)
(* attributes its metric is configured to keep; points that become alike    *)
(* are aggregated as they are recorded, and Emit moves everything to the    *)
(* batch.  A plan is the Record calls of a scrape in the order of           *)
(* scraper.go, each with the value it reads on the device (external: a      *)
(* counter grows until the device reboots, anything else moves freely).     *)
(* The metrics share nothing but timestamps, so that an instance may keep   *)
(* to some of them.  Values are naturals; names, units and the capacities,  *)
(* hints to the allocator, are left out.                                    *)
EXTENDS MetricTable, FiniteSetsExt, Functions

CONSTANTS
    Cases,       \* a set of [cfg, plan]: configurations, and what is recorded
    Values,      \* bound: the values read on the device
    MaxScrapes,  \* bound: scrapes
    MaxReboots   \* bound: reboots of the device

\* A source records a metric of the case, with the attributes of the table;
\* a metric without any is recorded by one source.
ASSUME CasesAssumption ==
    \A c \in Cases :
        /\ DOMAIN c.cfg \subseteq Metrics
        /\ \A m \in DOMAIN c.cfg :
              c.cfg[m] \in MetricConfig /\ Valid(m, c.cfg[m])
        /\ c.plan \in Seq(Range(c.plan))
        /\ \A s \in Range(c.plan) :
              /\ s.metric \in DOMAIN c.cfg
              /\ DOMAIN s.attrs = Table[s.metric].attributes
        /\ \A j, k \in DOMAIN c.plan :
              /\ c.plan[j].metric = c.plan[k].metric
              /\ Table[c.plan[j].metric].attributes = {}
              => j = k
ASSUME BoundsAssumption ==
    Values \subseteq Nat /\ MaxScrapes \in Nat /\ MaxReboots \in Nat

VARIABLES
    cfg,        \* the configurations of the metrics, fixed
    plan,       \* the sources of a scrape, fixed
    startTime,  \* MetricsBuilder.startTime
    data,       \* per metric, the buffered points
    agg,        \* per metric, aggDataPoints: the values in each point
    batch,      \* per metric, the points of the last batch
    now,        \* the timestamp of the scrape
    next,       \* the next source, 0 between scrapes
    counters,   \* per source of a sum, the device's counter when last read
    reboots,    \* reboots of the device
    recorded    \* <<source, value>> recorded in the scrape (properties only)

vars == <<cfg, plan, startTime, data, agg, batch, now, next, counters,
          reboots, recorded>>

Empty == [m \in DOMAIN cfg |-> <<>>]

TypeOK ==
    /\ \E c \in Cases : cfg = c.cfg /\ plan = c.plan
    /\ startTime \in Nat /\ now \in Nat /\ reboots \in Nat
    /\ next \in 0 .. Len(plan) + 1
    /\ counters \in [DOMAIN plan -> Nat]
    /\ recorded \subseteq (DOMAIN plan) \X Nat
    /\ DOMAIN data = DOMAIN cfg /\ DOMAIN agg = DOMAIN cfg
    /\ \A m \in DOMAIN cfg :
          /\ DOMAIN agg[m] = DOMAIN data[m]
          /\ \A k \in DOMAIN data[m] :
                data[m][k].value \in Nat /\ agg[m][k] > 0

\* NewMetricsBuilder, before the first scrape.
Init ==
    /\ \E c \in Cases : cfg = c.cfg /\ plan = c.plan
    /\ startTime = 0 /\ now = 0 /\ next = 0 /\ reboots = 0
    /\ data = Empty /\ agg = Empty /\ batch = Empty
    /\ counters = [s \in DOMAIN plan |-> 0] /\ recorded = {}

-----------------------------------------------------------------------------
\* The attributes of a source that its metric keeps.
Kept(s) == Restrict(s.attrs, DOMAIN s.attrs \cap cfg[s.metric].attributes)

Alike(p, q) == p.attrs = q.attrs /\ p.start = q.start /\ p.ts = q.ts

\* One point for two values; an average is a sum until it is emitted.
Combined(strategy, old, new) ==
    CASE strategy \in {"sum", "avg"} -> old + new
      [] strategy = "min"            -> IF old > new THEN new ELSE old
      [] strategy = "max"            -> IF old < new THEN new ELSE old

\* Mutant: aggDataPoints is not appended to.
RecordUncounted(s, value) ==
    LET m == s.metric
        dp == [attrs |-> Kept(s), start |-> startTime, ts |-> now,
               value |-> value]
    IN  /\ data' = IF cfg[m].enabled
                   THEN [data EXCEPT ![m] = Append(@, dp)] ELSE data
        /\ UNCHANGED agg

\* recordDataPoint: the first point alike takes the value in, if any.
RecordDataPoint(s, value) ==
    LET m == s.metric
        dp == [attrs |-> Kept(s), start |-> startTime, ts |-> now,
               value |-> value]
        alike == {k \in DOMAIN data[m] :
                     cfg[m].strategy # "none" /\ Alike(dp, data[m][k])}
        first == Min(alike)
        grows == IF cfg[m].strategy \in {"sum", "avg"} THEN 1 ELSE 0
    IN  \/ ~cfg[m].enabled /\ UNCHANGED <<data, agg>>
        \/ /\ cfg[m].enabled /\ alike = {}
           /\ data' = [data EXCEPT ![m] = Append(@, dp)]
           /\ agg' = [agg EXCEPT ![m] = Append(@, 1)]
        \/ /\ cfg[m].enabled /\ alike # {}
           /\ data' = [data EXCEPT ![m][first].value =
                                       Combined(cfg[m].strategy, @, value)]
           /\ agg' = [agg EXCEPT ![m][first] = @ + grows]

\* The average of n values: exact for a double (its rounding is left out),
\* cut off for an integer.
Quotient(m, total, n) == IF m \in Doubles THEN <<total, n>> ELSE total \div n

\* What emit makes of a metric's points: averages are divided.
Emitted(m) ==
    IF cfg[m].strategy # "avg" THEN data[m]
    ELSE [k \in DOMAIN data[m] |->
             [data[m][k] EXCEPT !.value = Quotient(m, @, agg[m][k])]]

-----------------------------------------------------------------------------
\* A scrape takes its timestamp.
Begin ==
    /\ next = 0 /\ now < MaxScrapes
    /\ now' = now + 1 /\ next' = 1 /\ recorded' = {}
    /\ UNCHANGED <<cfg, plan, startTime, data, agg, batch, counters,
                   reboots>>

\* The next source's call brought a value.
Record(value) ==
    /\ next \in DOMAIN plan
    /\ LET s == plan[next]
       IN  /\ RecordDataPoint(s, value)
           /\ IF s.metric \in Sums
              THEN /\ value >= counters[next]
                   /\ counters' = [counters EXCEPT ![next] = value]
              ELSE UNCHANGED counters
    /\ recorded' = recorded \cup {<<next, value>>}
    /\ next' = next + 1
    /\ UNCHANGED <<cfg, plan, startTime, batch, now, reboots>>

\* The next source's call brought none.
Skip ==
    /\ next \in DOMAIN plan
    /\ next' = next + 1
    /\ UNCHANGED <<cfg, plan, startTime, data, agg, batch, now, counters,
                   reboots, recorded>>

\* Mutant: init forgets to empty aggDataPoints.
EmitKeepingCounts ==
    /\ next = Len(plan) + 1
    /\ batch' = [m \in DOMAIN cfg |-> Emitted(m)]
    /\ data' = Empty /\ UNCHANGED agg
    /\ next' = 0
    /\ UNCHANGED <<cfg, plan, startTime, now, counters, reboots, recorded>>

\* Emit: every metric's points move to the batch.
Emit ==
    /\ next = Len(plan) + 1
    /\ batch' = [m \in DOMAIN cfg |-> Emitted(m)]
    /\ data' = Empty /\ agg' = Empty
    /\ next' = 0
    /\ UNCHANGED <<cfg, plan, startTime, now, counters, reboots, recorded>>

\* The device reboots (external).  Nobody calls MetricsBuilder.Reset.
Reboot ==
    /\ reboots < MaxReboots /\ reboots' = reboots + 1
    /\ counters' = [s \in DOMAIN plan |-> 0]
    /\ UNCHANGED <<cfg, plan, startTime, data, agg, batch, now, next,
                   recorded>>

Next ==
    \/ Begin
    \/ \E value \in Values : Record(value)
    \/ Skip
    \/ Emit
    \/ Reboot

\* A scrape that has begun comes to its Emit (Scraper's ScrapeReturns).
Fairness ==
    WF_vars((\E value \in Values : Record(value)) \/ Skip \/ Emit)

Spec == Init /\ [][Next]_vars /\ Fairness

-----------------------------------------------------------------------------
(* Properties.                                                              *)

\* The reference: what its strategy makes of a set of recorded values.  One
\* without a strategy has no attributes, and is recorded once in a scrape.
Aggregate(m, R) ==
    LET values == {r[2] : r \in R}
        total  == MapThenSumSet(LAMBDA r : r[2], R)
    IN  CASE cfg[m].strategy = "sum" -> total
          [] cfg[m].strategy = "avg" -> Quotient(m, total, Cardinality(R))
          [] cfg[m].strategy = "min" -> Min(values)
          [] cfg[m].strategy \in {"max", "none"} -> Max(values)

RecordedFor(m) == {r \in recorded : plan[r[1]].metric = m}

\* A batch holds, for each enabled metric, one point per series recorded in
\* the scrape, with the aggregate of all its values: nothing is lost, counted
\* twice, mixed with another series or carried over from an earlier scrape.
AggregatesWhole ==
    next = 0 => \A m \in DOMAIN cfg :
        LET series == {Kept(plan[r[1]]) : r \in RecordedFor(m)}
            values(a) == {r \in RecordedFor(m) : Kept(plan[r[1]]) = a}
        IN  IF ~cfg[m].enabled THEN batch[m] = <<>>
            ELSE /\ Len(batch[m]) = Cardinality(series)
                 /\ Range(batch[m]) =
                       {[attrs |-> a, start |-> startTime, ts |-> now,
                         value |-> Aggregate(m, values(a))] :
                           a \in series}

\* Does a metric keep enough attributes to tell its sources apart?
KeptApart(m) ==
    \A j, k \in {l \in DOMAIN plan : plan[l].metric = m} :
        j # k => Kept(plan[j]) # Kept(plan[k])

Falls(m) ==
    \E p \in Range(batch[m]), q \in Range(batch'[m]) :
        p.attrs = q.attrs /\ p.start = q.start /\ q.value < p.value

\* Between two batches no series of a cumulative monotonic sum falls while the
\* device has not rebooted, whichever calls failed, if the metric keeps its
\* sources apart; the default configuration of every metric does, even for
\* two radios with one SSID.
SumsNeverFall ==
    [][\A m \in Sums \cap DOMAIN cfg :
          /\ KeptApart(m) \/ cfg[m] = DefaultMetricsConfig[m]
          /\ reboots' = 0
          => ~Falls(m)]_vars

\* The same across reboots of the device: after one, the start time should be
\* another one (MetricsBuilder.Reset's comment).
SumsRestart ==
    [][\A m \in Sums \cap DOMAIN cfg : KeptApart(m) => ~Falls(m)]_vars
=============================================================================
