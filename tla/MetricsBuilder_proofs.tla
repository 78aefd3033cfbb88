------------------------ MODULE MetricsBuilder_proofs ------------------------
(* Proofs about MetricsBuilder, for every configuration and plan, any       *)
(* values, and any number of scrapes and reboots.                           *)
EXTENDS MetricsBuilder, MetricTable_proofs, NumberSets_proofs, SequenceTheorems

-----------------------------------------------------------------------------
(* Configurations and plans.                                                *)

\* The case that was chosen.
CaseInv == \E c \in Cases : cfg = c.cfg /\ plan = c.plan

\* What a case is.
LEMMA CaseFacts ==
    ASSUME CaseInv
    PROVE  /\ DOMAIN cfg \subseteq Metrics
           /\ \A m \in DOMAIN cfg : cfg[m] \in MetricConfig /\ Valid(m, cfg[m])
           /\ plan \in Seq(Range(plan)) /\ Len(plan) \in Nat
           /\ DOMAIN plan = 1 .. Len(plan)
           /\ \A s \in DOMAIN plan :
                 /\ plan[s].metric \in DOMAIN cfg
                 /\ DOMAIN plan[s].attrs = Table[plan[s].metric].attributes
           /\ \A j, k \in DOMAIN plan :
                 /\ plan[j].metric = plan[k].metric
                 /\ Table[plan[j].metric].attributes = {}
                 => j = k
<1>1. PICK c \in Cases : cfg = c.cfg /\ plan = c.plan
  BY DEF CaseInv
<1>2. /\ DOMAIN cfg \subseteq Metrics
      /\ \A m \in DOMAIN cfg : cfg[m] \in MetricConfig /\ Valid(m, cfg[m])
      /\ plan \in Seq(Range(plan))
      /\ \A s \in Range(plan) :
            /\ s.metric \in DOMAIN cfg
            /\ DOMAIN s.attrs = Table[s.metric].attributes
      /\ \A j, k \in DOMAIN plan :
            /\ plan[j].metric = plan[k].metric
            /\ Table[plan[j].metric].attributes = {}
            => j = k
  BY <1>1, CasesAssumption
<1>3. Len(plan) \in Nat /\ DOMAIN plan = 1 .. Len(plan)
  BY <1>2, LenProperties
<1>4. \A s \in DOMAIN plan : plan[s] \in Range(plan)
  BY DEF Range
<1> QED
  BY <1>2, <1>3, <1>4

-----------------------------------------------------------------------------
(* Types.                                                                   *)

\* The points a case can have.
Points == [attrs : {Kept(plan[s]) : s \in DOMAIN plan},
           start : Nat, ts : Nat, value : Nat]

\* Each buffer is a sequence of points, with a count for each.
BufferInv ==
    /\ data \in [DOMAIN cfg -> Seq(Points)]
    /\ agg \in [DOMAIN cfg -> Seq(Nat \ {0})]
    /\ \A m \in DOMAIN cfg : Len(agg[m]) = Len(data[m])

\* The inductive invariant behind TypeOK.
TypeInv ==
    /\ CaseInv
    /\ startTime \in Nat /\ now \in Nat /\ reboots \in Nat
    /\ next \in 0 .. Len(plan) + 1
    /\ counters \in [DOMAIN plan -> Nat]
    /\ recorded \subseteq (DOMAIN plan) \X Nat
    /\ BufferInv
-----------------------------------------------------------------------------
(* Recording a value.                                                       *)

\* The point of a source, and the buffered points like it.
Point(s, value) ==
    [attrs |-> Kept(s), start |-> startTime, ts |-> now, value |-> value]

IsLike(s, k) ==
    /\ k \in DOMAIN data[s.metric] /\ cfg[s.metric].strategy # "none"
    /\ data[s.metric][k].attrs = Kept(s)
    /\ data[s.metric][k].start = startTime /\ data[s.metric][k].ts = now

Appends(s, value) ==
    LET m == s.metric
    IN  /\ cfg[m].enabled /\ \A k : ~IsLike(s, k)
        /\ data' = [data EXCEPT ![m] = Append(data[m], Point(s, value))]
        /\ agg' = [agg EXCEPT ![m] = Append(agg[m], 1)]

Merges(s, value, k) ==
    LET m == s.metric
    IN  /\ cfg[m].enabled /\ IsLike(s, k)
        /\ data' = [data EXCEPT ![m] = [data[m] EXCEPT ![k] =
              [data[m][k] EXCEPT !.value =
                 Combined(cfg[m].strategy, data[m][k].value, value)]]]
        /\ agg' = [agg EXCEPT ![m] = [agg[m] EXCEPT ![k] =
              agg[m][k] + (IF cfg[m].strategy \in {"sum", "avg"}
                           THEN 1 ELSE 0)]]

\* recordDataPoint does one of three things.
LEMMA RecordForms ==
    ASSUME CaseInv, BufferInv, NEW j \in DOMAIN plan, NEW value \in Nat,
           RecordDataPoint(plan[j], value)
    PROVE  \/ ~cfg[plan[j].metric].enabled /\ UNCHANGED <<data, agg>>
           \/ Appends(plan[j], value)
           \/ \E k : Merges(plan[j], value, k)
<1> DEFINE s == plan[j]
           m == s.metric
           dp == Point(s, value)
           alike == {k \in DOMAIN data[m] :
                        cfg[m].strategy # "none" /\ Alike(dp, data[m][k])}
<1>1. m \in DOMAIN cfg /\ data[m] \in Seq(Points)
  BY CaseFacts DEF BufferInv
<1>2. \A k : k \in alike <=> IsLike(s, k)
  BY DEF IsLike, Alike, Point
<1>3. \/ ~cfg[m].enabled /\ UNCHANGED <<data, agg>>
      \/ /\ cfg[m].enabled /\ alike = {}
         /\ data' = [data EXCEPT ![m] = Append(data[m], dp)]
         /\ agg' = [agg EXCEPT ![m] = Append(agg[m], 1)]
      \/ /\ cfg[m].enabled /\ alike # {}
         /\ data' = [data EXCEPT ![m] = [data[m] EXCEPT ![Min(alike)] =
               [data[m][Min(alike)] EXCEPT !.value =
                  Combined(cfg[m].strategy, data[m][Min(alike)].value, value)]]]
         /\ agg' = [agg EXCEPT ![m] = [agg[m] EXCEPT ![Min(alike)] =
               agg[m][Min(alike)] + (IF cfg[m].strategy \in {"sum", "avg"}
                                     THEN 1 ELSE 0)]]
  BY DEF RecordDataPoint, Point
<1>4. alike # {} => Min(alike) \in alike
  <2>1. alike \in SUBSET Nat
    BY <1>1, LenProperties
  <2> HIDE DEF alike
  <2> QED
    BY <2>1, MinProperties
<1> HIDE DEF alike
<1> QED
  BY <1>2, <1>3, <1>4 DEF Appends, Merges
\* It touches the buffer of its metric only.
LEMMA RecordTouchesOne ==
    ASSUME CaseInv, BufferInv, NEW j \in DOMAIN plan, NEW value \in Nat,
           RecordDataPoint(plan[j], value),
           NEW m \in DOMAIN cfg, m # plan[j].metric
    PROVE  data'[m] = data[m] /\ agg'[m] = agg[m]
<1>1. plan[j].metric \in DOMAIN cfg
  BY CaseFacts
<1>2. DOMAIN data = DOMAIN cfg /\ DOMAIN agg = DOMAIN cfg
  BY DEF BufferInv
<1>3. ASSUME NEW d, NEW a, data' = [data EXCEPT ![plan[j].metric] = d],
             agg' = [agg EXCEPT ![plan[j].metric] = a]
      PROVE  data'[m] = data[m] /\ agg'[m] = agg[m]
  BY <1>1, <1>2, <1>3
<1>4. CASE Appends(plan[j], value)
  BY <1>3, <1>4 DEF Appends
<1>5. ASSUME NEW k, Merges(plan[j], value, k)
      PROVE  data'[m] = data[m] /\ agg'[m] = agg[m]
  BY <1>3, <1>5 DEF Merges
<1> QED
  BY <1>4, <1>5, RecordForms

\* A merged value is a number, for the metric has a strategy.
LEMMA CombinedType ==
    ASSUME CaseInv, NEW m \in DOMAIN cfg, cfg[m].strategy # "none",
           NEW old \in Nat, NEW new \in Nat
    PROVE  Combined(cfg[m].strategy, old, new) \in Nat
<1>1. cfg[m].strategy \in Strategies
  BY CaseFacts DEF MetricConfig
<1> QED
  BY <1>1 DEF Combined, Strategies

\* The buffers stay sequences of points with their counts.
LEMMA RecordTypes ==
    ASSUME CaseInv, BufferInv, startTime \in Nat, now \in Nat,
           NEW j \in DOMAIN plan, NEW value \in Nat,
           RecordDataPoint(plan[j], value), UNCHANGED <<cfg, plan>>
    PROVE  BufferInv'
<1> DEFINE s == plan[j]
           m == s.metric
           dp == Point(s, value)
<1>1. m \in DOMAIN cfg
  BY CaseFacts
<1>2. /\ data \in [DOMAIN cfg -> Seq(Points)]
      /\ agg \in [DOMAIN cfg -> Seq(Nat \ {0})]
      /\ \A n \in DOMAIN cfg : Len(agg[n]) = Len(data[n])
  BY DEF BufferInv
<1>3. Points' = Points
  BY DEF Points, Kept
<1>4. dp \in Points
  BY DEF Points, Point
<1>5. SUFFICES ASSUME NEW d \in Seq(Points), NEW a \in Seq(Nat \ {0}),
                      Len(a) = Len(d), data' = [data EXCEPT ![m] = d],
                      agg' = [agg EXCEPT ![m] = a]
               PROVE  BufferInv'
  <2>1. CASE ~cfg[m].enabled /\ UNCHANGED <<data, agg>>
    <3>1. /\ data[m] \in Seq(Points) /\ agg[m] \in Seq(Nat \ {0})
          /\ Len(agg[m]) = Len(data[m])
          /\ data' = [data EXCEPT ![m] = data[m]]
          /\ agg' = [agg EXCEPT ![m] = agg[m]]
      BY <1>1, <1>2, <2>1
    <3> QED
      BY <1>5, <3>1
  <2>2. CASE Appends(s, value)
    <3>1. /\ data[m] \in Seq(Points) /\ agg[m] \in Seq(Nat \ {0})
          /\ Len(agg[m]) = Len(data[m]) /\ 1 \in Nat \ {0}
      BY <1>1, <1>2
    <3>2. /\ Append(data[m], dp) \in Seq(Points)
          /\ Append(agg[m], 1) \in Seq(Nat \ {0})
          /\ Len(Append(agg[m], 1)) = Len(Append(data[m], dp))
      BY <1>4, <3>1, AppendProperties
    <3>3. /\ data' = [data EXCEPT ![m] = Append(data[m], dp)]
          /\ agg' = [agg EXCEPT ![m] = Append(agg[m], 1)]
      BY <2>2 DEF Appends
    <3> QED
      BY <1>5, <3>2, <3>3
  <2>3. ASSUME NEW k, Merges(s, value, k)
        PROVE  BufferInv'
    <3> DEFINE strategy == cfg[m].strategy
               v == Combined(strategy, data[m][k].value, value)
               d == [data[m] EXCEPT ![k] = [data[m][k] EXCEPT !.value = v]]
               n == agg[m][k] + (IF strategy \in {"sum", "avg"} THEN 1 ELSE 0)
               a == [agg[m] EXCEPT ![k] = n]
    <3>1. /\ k \in DOMAIN data[m] /\ strategy # "none"
          /\ data' = [data EXCEPT ![m] = d] /\ agg' = [agg EXCEPT ![m] = a]
      BY <2>3 DEF Merges, IsLike
    <3>2. /\ data[m] \in Seq(Points) /\ agg[m] \in Seq(Nat \ {0})
          /\ Len(agg[m]) = Len(data[m])
          /\ k \in 1 .. Len(data[m]) /\ k \in 1 .. Len(agg[m])
      BY <1>1, <1>2, <3>1, LenProperties
    <3>3. data[m][k] \in Points /\ agg[m][k] \in Nat \ {0}
      BY <3>2, ElementOfSeq
    <3>4. v \in Nat
      <4>1. data[m][k].value \in Nat
        BY <3>3 DEF Points
      <4> QED
        BY <1>1, <3>1, <4>1, CombinedType
    <3>5. [data[m][k] EXCEPT !.value = v] \in Points
      <4> HIDE DEF v
      <4> QED
        BY <3>3, <3>4 DEF Points
    <3>6. n \in Nat \ {0}
      BY <3>3
    <3> HIDE DEF v, n, strategy
    <3>7. d \in Seq(Points) /\ Len(d) = Len(data[m])
      BY <3>2, <3>5, ExceptSeq
    <3>8. a \in Seq(Nat \ {0}) /\ Len(a) = Len(agg[m])
      BY <3>2, <3>6, ExceptSeq
    <3> HIDE DEF d, a
    <3> QED
      BY <1>5, <3>1, <3>2, <3>7, <3>8
  <2> QED
    BY <2>1, <2>2, <2>3, RecordForms
<1>6. data' \in [DOMAIN cfg -> Seq(Points)] /\ agg' \in [DOMAIN cfg -> Seq(Nat \ {0})]
  BY <1>1, <1>2, <1>5
<1>7. \A n \in DOMAIN cfg : Len(agg'[n]) = Len(data'[n])
  BY <1>1, <1>2, <1>5
<1> QED
  BY <1>3, <1>6, <1>7 DEF BufferInv
-----------------------------------------------------------------------------
(* Every step keeps the types.                                              *)

LEMMA EmptyBuffers ==
    ASSUME CaseInv, UNCHANGED <<cfg, plan>>, data' = Empty, agg' = Empty
    PROVE  BufferInv'
<1>1. \A S : <<>> \in Seq(S) /\ Len(<<>>) = 0
  BY EmptySeq
<1>2. data' \in [DOMAIN cfg -> Seq(Points')]
  BY <1>1 DEF Empty
<1>3. agg' \in [DOMAIN cfg -> Seq(Nat \ {0})]
  BY <1>1 DEF Empty
<1>4. \A m \in DOMAIN cfg : Len(agg'[m]) = Len(data'[m])
  BY DEF Empty
<1> QED
  BY <1>2, <1>3, <1>4 DEF BufferInv

LEMMA TypeStep == TypeInv /\ [Next]_vars => TypeInv'
<1> SUFFICES ASSUME TypeInv, [Next]_vars
             PROVE  TypeInv'
  OBVIOUS
<1>1. /\ CaseInv /\ startTime \in Nat /\ now \in Nat /\ reboots \in Nat
      /\ next \in 0 .. Len(plan) + 1 /\ counters \in [DOMAIN plan -> Nat]
      /\ recorded \subseteq (DOMAIN plan) \X Nat /\ BufferInv
  BY DEF TypeInv
<1>2. Len(plan) \in Nat /\ DOMAIN plan = 1 .. Len(plan)
  BY <1>1, CaseFacts
<1>3. CASE Begin
  <2>1. next' \in 0 .. Len(plan) + 1 /\ now' \in Nat /\ recorded' = {}
    BY <1>1, <1>2, <1>3 DEF Begin
  <2>2. UNCHANGED <<cfg, plan, startTime, data, agg, counters, reboots>>
    BY <1>3 DEF Begin
  <2> QED
    BY <1>1, <2>1, <2>2 DEF TypeInv, CaseInv, BufferInv, Points, Kept
<1>4. ASSUME NEW value \in Values, Record(value)
      PROVE  TypeInv'
  <2>1. value \in Nat /\ next \in DOMAIN plan
    BY <1>4, BoundsAssumption DEF Record
  <2>2. /\ UNCHANGED <<cfg, plan, startTime, now, reboots>>
        /\ next' = next + 1 /\ recorded' = recorded \cup {<<next, value>>}
        /\ RecordDataPoint(plan[next], value)
        /\ counters' \in {counters, [counters EXCEPT ![next] = value]}
    BY <1>4 DEF Record
  <2>3. BufferInv'
    BY <1>1, <2>1, <2>2, RecordTypes
  <2>4. counters' \in [DOMAIN plan -> Nat]
    BY <1>1, <2>1, <2>2
  <2>5. recorded' \subseteq (DOMAIN plan) \X Nat
    BY <1>1, <2>1, <2>2
  <2>6. next' \in 0 .. Len(plan) + 1
    BY <1>1, <1>2, <2>1, <2>2
  <2> QED
    BY <1>1, <2>2, <2>3, <2>4, <2>5, <2>6 DEF TypeInv, CaseInv
<1>5. CASE Skip
  <2>1. next' \in 0 .. Len(plan) + 1
    BY <1>1, <1>2, <1>5 DEF Skip
  <2>2. UNCHANGED <<cfg, plan, startTime, data, agg, now, counters, reboots,
                    recorded>>
    BY <1>5 DEF Skip
  <2> QED
    BY <1>1, <2>1, <2>2 DEF TypeInv, CaseInv, BufferInv, Points, Kept
<1>6. CASE Emit
  <2>1. /\ next' = 0 /\ data' = Empty /\ agg' = Empty
        /\ UNCHANGED <<cfg, plan, startTime, now, counters, reboots, recorded>>
    BY <1>6 DEF Emit
  <2>2. BufferInv'
    BY <1>1, <2>1, EmptyBuffers
  <2> QED
    BY <1>1, <1>2, <2>1, <2>2 DEF TypeInv, CaseInv
<1>7. CASE Reboot
  <2>1. reboots' \in Nat /\ counters' \in [DOMAIN plan -> Nat]
    BY <1>1, <1>7 DEF Reboot
  <2>2. UNCHANGED <<cfg, plan, startTime, data, agg, now, next, recorded>>
    BY <1>7 DEF Reboot
  <2> QED
    BY <1>1, <2>1, <2>2 DEF TypeInv, CaseInv, BufferInv, Points, Kept
<1>8. CASE UNCHANGED vars
  BY <1>1, <1>8 DEF TypeInv, CaseInv, BufferInv, Points, Kept, vars
<1> QED
  BY <1>3, <1>4, <1>5, <1>6, <1>7, <1>8 DEF Next

LEMMA TypeInvariant == Spec => []TypeInv
<1>1. Init => TypeInv
  <2> SUFFICES ASSUME Init
               PROVE  TypeInv
    OBVIOUS
  <2>1. CaseInv
    BY DEF Init, CaseInv
  <2>2. \A S : <<>> \in Seq(S) /\ Len(<<>>) = 0
    BY EmptySeq
  <2>3. /\ data \in [DOMAIN cfg -> Seq(Points)]
        /\ agg \in [DOMAIN cfg -> Seq(Nat \ {0})]
    BY <2>2 DEF Init, Empty
  <2>4. \A m \in DOMAIN cfg : Len(agg[m]) = Len(data[m])
    BY DEF Init, Empty
  <2>5. Len(plan) \in Nat
    BY <2>1, CaseFacts
  <2> QED
    BY <2>1, <2>3, <2>4, <2>5 DEF Init, TypeInv, BufferInv
<1> QED
  BY <1>1, TypeStep, PTL DEF Spec

\* Every variable of the builder keeps its type, whatever the configuration;
\* in particular each buffered point has a count of the values in it.
THEOREM TypeCorrect == Spec => []TypeOK
<1>1. TypeInv => TypeOK
  <2> SUFFICES ASSUME TypeInv
               PROVE  TypeOK
    OBVIOUS
  <2>1. DOMAIN data = DOMAIN cfg /\ DOMAIN agg = DOMAIN cfg
    BY DEF TypeInv, BufferInv
  <2>2. ASSUME NEW m \in DOMAIN cfg
        PROVE  /\ DOMAIN agg[m] = DOMAIN data[m]
               /\ \A k \in DOMAIN data[m] :
                     data[m][k].value \in Nat /\ agg[m][k] > 0
    <3>1. /\ data[m] \in Seq(Points) /\ agg[m] \in Seq(Nat \ {0})
          /\ Len(agg[m]) = Len(data[m])
      BY DEF TypeInv, BufferInv
    <3>2. /\ DOMAIN data[m] = 1 .. Len(data[m])
          /\ DOMAIN agg[m] = 1 .. Len(data[m])
      BY <3>1, LenProperties
    <3>3. ASSUME NEW k \in DOMAIN data[m]
          PROVE  data[m][k].value \in Nat /\ agg[m][k] > 0
      <4>1. data[m][k] \in Points /\ agg[m][k] \in Nat \ {0}
        BY <3>1, <3>2, ElementOfSeq
      <4> QED
        BY <4>1 DEF Points
    <3> QED
      BY <3>2, <3>3
  <2> QED
    BY <2>1, <2>2 DEF TypeInv, TypeOK, CaseInv
<1> QED
  BY <1>1, TypeInvariant, PTL
-----------------------------------------------------------------------------
(* Cumulative sums.                                                         *)

\* By default a metric keeps all its attributes, and so tells them apart.
LEMMA DefaultKeepsApart ==
    ASSUME CaseInv, Apart(plan), NEW m \in Sums \cap DOMAIN cfg,
           cfg[m] = DefaultMetricsConfig[m]
    PROVE  KeptApart(m)
<1> SUFFICES ASSUME NEW j \in DOMAIN plan, NEW k \in DOMAIN plan, j # k,
                    plan[j].metric = m, plan[k].metric = m
             PROVE  Kept(plan[j]) # Kept(plan[k])
  BY DEF KeptApart
<1>1. cfg[m].attributes = Table[m].attributes
  BY DEF DefaultMetricsConfig, Sums
<1>2. /\ DOMAIN plan[j].attrs = Table[m].attributes
      /\ DOMAIN plan[k].attrs = Table[m].attributes
  BY CaseFacts
<1>3. PICK key \in Table[m].attributes : plan[j].attrs[key] # plan[k].attrs[key]
  BY DEF Apart
<1>4. /\ Kept(plan[j])[key] = plan[j].attrs[key]
      /\ Kept(plan[k])[key] = plan[k].attrs[key]
  BY <1>1, <1>2, <1>3 DEF Kept, Restrict
<1> QED
  BY <1>3, <1>4

\* A sum counts in integers.
LEMMA SumsAreInts == Sums \cap Doubles = {}
BY DEF Sums, Doubles, Table, Metrics, CumulativeSum, Gauge,
       FritzboxDeviceUptime, FritzboxDslAttenuation, FritzboxDslErrorSeconds,
       FritzboxDslNoiseMargin, FritzboxDslRateCurrent, FritzboxDslRateMax,
       FritzboxHostsActive, FritzboxHostsInfo, FritzboxHostsTotal,
       FritzboxWanConnectionStatus, FritzboxWanConnectionUptime,
       FritzboxWanExternalIP, FritzboxWlanChannel, FritzboxWlanClients,
       HwErrors, HwNetworkBandwidthLimit, HwNetworkBandwidthUtilization,
       HwNetworkIo, HwNetworkPackets, HwNetworkUp

\* The buffered points of a metric are what its sources' counters were when
\* read in this scrape, no two of them merged.
Buffered(m) ==
    \A k \in DOMAIN data[m] :
        /\ agg[m][k] = 1
        /\ \E s \in DOMAIN plan :
              /\ s < next /\ plan[s].metric = m
              /\ data[m][k].attrs = Kept(plan[s])
              /\ data[m][k].value = counters[s]

\* The points of the last batch are not above the counters, and a series has
\* one value in it.
NotAbove(m) ==
    \A k \in DOMAIN batch[m] :
        \E s \in DOMAIN plan :
            /\ plan[s].metric = m /\ batch[m][k].attrs = Kept(plan[s])
            /\ batch[m][k].value \in Nat /\ batch[m][k].value <= counters[s]

OneValue(m) ==
    \A j, k \in DOMAIN batch[m] :
        batch[m][j].attrs = batch[m][k].attrs
        => batch[m][j].value = batch[m][k].value

Batched(m) == NotAbove(m) /\ OneValue(m)

\* The inductive invariant behind SumsNeverFall.
SumInv ==
    reboots = 0 => \A m \in Sums \cap DOMAIN cfg :
                      KeptApart(m) => Buffered(m) /\ Batched(m)

\* A sum that keeps its sources apart never merges two values.
LEMMA RecordAppends ==
    ASSUME TypeInv, NEW value \in Nat, next \in DOMAIN plan,
           RecordDataPoint(plan[next], value),
           KeptApart(plan[next].metric), Buffered(plan[next].metric)
    PROVE  UNCHANGED <<data, agg>> \/ Appends(plan[next], value)
<1> DEFINE m == plan[next].metric
<1>1. ASSUME NEW k, IsLike(plan[next], k)
      PROVE  FALSE
  <2>1. k \in DOMAIN data[m] /\ data[m][k].attrs = Kept(plan[next])
    BY <1>1 DEF IsLike
  <2>2. PICK s \in DOMAIN plan : /\ s < next /\ plan[s].metric = m
                                 /\ data[m][k].attrs = Kept(plan[s])
    BY <2>1 DEF Buffered
  <2>3. s # next
    BY <2>2, CaseFacts DEF TypeInv
  <2> QED
    BY <2>1, <2>2, <2>3 DEF KeptApart
<1>2. CaseInv /\ BufferInv
  BY DEF TypeInv
<1> QED
  BY <1>1, <1>2, RecordForms DEF Merges

\* What Record does to a sum that keeps its sources apart.
LEMMA RecordSum ==
    ASSUME TypeInv, NEW value \in Values, Record(value),
           NEW m \in Sums \cap DOMAIN cfg, KeptApart(m), Buffered(m), Batched(m)
    PROVE  Buffered(m)' /\ Batched(m)'
<1>1. /\ CaseInv /\ BufferInv /\ counters \in [DOMAIN plan -> Nat]
      /\ Len(plan) \in Nat /\ DOMAIN plan = 1 .. Len(plan)
  BY CaseFacts DEF TypeInv
<1>2. /\ value \in Nat /\ next \in DOMAIN plan /\ next' = next + 1
      /\ UNCHANGED <<cfg, plan, batch>>
      /\ RecordDataPoint(plan[next], value)
  BY BoundsAssumption DEF Record
<1> DEFINE n == plan[next].metric
<1>3. n \in DOMAIN cfg
  BY <1>1, <1>2, CaseFacts
<1>4. \/ n \in Sums /\ value >= counters[next]
         /\ counters' = [counters EXCEPT ![next] = value]
      \/ n \notin Sums /\ counters' = counters
  BY DEF Record
<1>5. \A s \in DOMAIN plan :
         /\ counters[s] \in Nat /\ counters'[s] \in Nat
         /\ counters[s] <= counters'[s]
         /\ s < next => counters'[s] = counters[s]
  <2>1. CASE counters' = [counters EXCEPT ![next] = value] /\ value >= counters[next]
    BY <1>1, <1>2, <2>1
  <2>2. CASE counters' = counters
    BY <1>1, <2>2
  <2> QED
    BY <1>4, <2>1, <2>2
<1>6. \A s : Kept(s)' = Kept(s)
  BY <1>2 DEF Kept
<1>7. Batched(m)'
  <2> SUFFICES ASSUME NEW k \in DOMAIN batch[m]
               PROVE  \E s \in DOMAIN plan :
                         /\ plan[s].metric = m /\ batch[m][k].attrs = Kept(plan[s])
                         /\ batch[m][k].value \in Nat
                         /\ batch[m][k].value <= counters'[s]
    BY <1>2, <1>6 DEF Batched, NotAbove, OneValue
  <2>1. PICK s \in DOMAIN plan :
           /\ plan[s].metric = m /\ batch[m][k].attrs = Kept(plan[s])
           /\ batch[m][k].value \in Nat /\ batch[m][k].value <= counters[s]
    BY DEF Batched, NotAbove
  <2>2. batch[m][k].value <= counters'[s]
    BY <1>5, <2>1
  <2> QED
    BY <2>1, <2>2
<1>8. ASSUME NEW k \in DOMAIN data[m]
      PROVE  /\ agg[m][k] = 1
             /\ \E s \in DOMAIN plan :
                   /\ s < next + 1 /\ plan[s].metric = m
                   /\ data[m][k].attrs = Kept(plan[s])
                   /\ data[m][k].value = counters'[s]
  <2>1. /\ agg[m][k] = 1
        /\ \E s \in DOMAIN plan :
              /\ s < next /\ plan[s].metric = m
              /\ data[m][k].attrs = Kept(plan[s])
              /\ data[m][k].value = counters[s]
    BY DEF Buffered
  <2>2. \A s \in DOMAIN plan : s < next => s < next + 1
    BY <1>1, <1>2
  <2> QED
    BY <1>5, <2>1, <2>2
<1>9. ASSUME data'[m] = data[m], agg'[m] = agg[m]
      PROVE  Buffered(m)'
  BY <1>2, <1>6, <1>8, <1>9 DEF Buffered
<1>10. ASSUME n = m, Appends(plan[next], value)
       PROVE  Buffered(m)'
  <2>1. data[m] \in Seq(Points) /\ agg[m] \in Seq(Nat \ {0})
        /\ Len(agg[m]) = Len(data[m])
    BY <1>1 DEF BufferInv
  <2> DEFINE d == Append(data[m], Point(plan[next], value))
             a == Append(agg[m], 1)
  <2>2. data'[m] = d /\ agg'[m] = a
    BY <1>1, <1>10 DEF Appends, BufferInv
  <2>3. Point(plan[next], value) \in Points
    BY <1>2 DEF Points, Point, TypeInv
  <2>4. /\ d \in Seq(Points) /\ Len(d) = Len(data[m]) + 1
        /\ \A k \in 1 .. Len(data[m]) : d[k] = data[m][k]
        /\ d[Len(data[m]) + 1] = Point(plan[next], value)
    BY <2>1, <2>3, AppendProperties
  <2>5. /\ \A k \in 1 .. Len(agg[m]) : a[k] = agg[m][k]
        /\ a[Len(agg[m]) + 1] = 1
    BY <2>1, AppendProperties, 1 \in Nat \ {0}
  <2>6. DOMAIN d = 1 .. (Len(data[m]) + 1) /\ Len(data[m]) \in Nat
        /\ DOMAIN data[m] = 1 .. Len(data[m])
    BY <2>1, <2>4, LenProperties
  <2> HIDE DEF d, a
  <2>7. counters'[next] = value
    BY <1>1, <1>2, <1>4, <1>10
  <2>8. ASSUME NEW k \in DOMAIN d
        PROVE  /\ a[k] = 1
               /\ \E s \in DOMAIN plan :
                     /\ s < next + 1 /\ plan[s].metric = m
                     /\ d[k].attrs = Kept(plan[s])
                     /\ d[k].value = counters'[s]
    <3>1. CASE k = Len(data[m]) + 1
      <4>1. d[k] = Point(plan[next], value) /\ a[k] = 1
        BY <2>1, <2>4, <2>5, <3>1
      <4>2. d[k].attrs = Kept(plan[next]) /\ d[k].value = value
        BY <4>1 DEF Point
      <4>3. next < next + 1
        BY <1>1, <1>2
      <4> QED
        BY <1>2, <1>10, <2>7, <4>1, <4>2, <4>3
    <3>2. CASE k # Len(data[m]) + 1
      <4>1. k \in DOMAIN data[m] /\ d[k] = data[m][k] /\ a[k] = agg[m][k]
        BY <2>1, <2>4, <2>5, <2>6, <3>2
      <4> QED
        BY <1>8, <4>1
    <3> QED
      BY <3>1, <3>2
  <2> QED
    BY <1>2, <1>6, <2>2, <2>8 DEF Buffered
<1>11. \/ data'[m] = data[m] /\ agg'[m] = agg[m]
       \/ n = m /\ Appends(plan[next], value)
  <2>1. CASE n = m
    BY <1>2, <2>1, RecordAppends
  <2>2. CASE n # m
    BY <1>1, <1>2, <2>2, RecordTouchesOne
  <2> QED
    BY <2>1, <2>2
<1> QED
  BY <1>7, <1>9, <1>10, <1>11

\* A point that holds one value is emitted as it is.
LEMMA EmittedSum ==
    ASSUME TypeInv, NEW m \in Sums \cap DOMAIN cfg, Buffered(m)
    PROVE  /\ DOMAIN Emitted(m) = DOMAIN data[m]
           /\ \A k \in DOMAIN data[m] :
                 /\ Emitted(m)[k].attrs = data[m][k].attrs
                 /\ Emitted(m)[k].value = data[m][k].value
                 /\ data[m][k].value \in Nat
<1>1. data[m] \in Seq(Points)
  BY DEF TypeInv, BufferInv
<1>2. \A k \in DOMAIN data[m] : data[m][k] \in Points
  BY <1>1, LenProperties, ElementOfSeq
<1>3. CASE cfg[m].strategy # "avg"
  BY <1>2, <1>3 DEF Emitted, Points
<1>4. CASE cfg[m].strategy = "avg"
  <2>1. Emitted(m) = [k \in DOMAIN data[m] |->
            [data[m][k] EXCEPT !.value =
                Quotient(m, data[m][k].value, agg[m][k])]]
    BY <1>4 DEF Emitted
  <2>2. ASSUME NEW k \in DOMAIN data[m]
        PROVE  Quotient(m, data[m][k].value, agg[m][k]) = data[m][k].value
    <3>1. agg[m][k] = 1 /\ data[m][k].value \in Nat
      BY <1>2 DEF Buffered, Points
    <3>2. m \notin Doubles
      BY SumsAreInts
    <3> QED
      BY <3>1, <3>2 DEF Quotient
  <2>3. ASSUME NEW k \in DOMAIN data[m]
        PROVE  Emitted(m)[k] = [data[m][k] EXCEPT !.value = data[m][k].value]
    BY <2>1, <2>2
  <2> QED
    BY <1>2, <2>1, <2>3 DEF Points
<1> QED
  BY <1>3, <1>4

\* Emit makes the buffered points the batch.
LEMMA EmitSum ==
    ASSUME TypeInv, Emit, NEW m \in Sums \cap DOMAIN cfg, KeptApart(m),
           Buffered(m)
    PROVE  Buffered(m)' /\ Batched(m)'
<1>1. /\ UNCHANGED <<cfg, plan, counters>>
      /\ batch'[m] = Emitted(m) /\ data'[m] = <<>>
  BY DEF Emit, Empty
<1>2. \A s : Kept(s)' = Kept(s)
  BY <1>1 DEF Kept
<1>3. Buffered(m)'
  BY <1>1 DEF Buffered
<1>4. ASSUME NEW k \in DOMAIN Emitted(m)
      PROVE  \E s \in DOMAIN plan :
                /\ plan[s].metric = m /\ Emitted(m)[k].attrs = Kept(plan[s])
                /\ Emitted(m)[k].value \in Nat
                /\ Emitted(m)[k].value <= counters[s]
  <2>1. k \in DOMAIN data[m]
    BY EmittedSum
  <2>2. PICK s \in DOMAIN plan : /\ plan[s].metric = m
                                 /\ data[m][k].attrs = Kept(plan[s])
                                 /\ data[m][k].value = counters[s]
    BY <2>1 DEF Buffered
  <2>3. /\ Emitted(m)[k].attrs = Kept(plan[s])
        /\ Emitted(m)[k].value = counters[s] /\ counters[s] \in Nat
    BY <2>1, <2>2, EmittedSum
  <2> QED
    BY <2>2, <2>3
<1>5. ASSUME NEW j \in DOMAIN Emitted(m), NEW k \in DOMAIN Emitted(m),
             Emitted(m)[j].attrs = Emitted(m)[k].attrs
      PROVE  Emitted(m)[j].value = Emitted(m)[k].value
  <2>1. /\ j \in DOMAIN data[m] /\ k \in DOMAIN data[m]
        /\ data[m][j].attrs = data[m][k].attrs
    BY <1>5, EmittedSum
  <2>2. PICK s \in DOMAIN plan : /\ plan[s].metric = m
                                 /\ data[m][j].attrs = Kept(plan[s])
                                 /\ data[m][j].value = counters[s]
    BY <2>1 DEF Buffered
  <2>3. PICK t \in DOMAIN plan : /\ plan[t].metric = m
                                 /\ data[m][k].attrs = Kept(plan[t])
                                 /\ data[m][k].value = counters[t]
    BY <2>1 DEF Buffered
  <2>4. s = t
    BY <2>1, <2>2, <2>3 DEF KeptApart
  <2> QED
    BY <2>1, <2>2, <2>3, <2>4, EmittedSum
<1>6. NotAbove(m)'
  BY <1>1, <1>2, <1>4 DEF NotAbove
<1>7. OneValue(m)'
  BY <1>1, <1>5 DEF OneValue
<1> QED
  BY <1>3, <1>6, <1>7 DEF Batched

LEMMA SumStep == TypeInv /\ SumInv /\ [Next]_vars => SumInv'
<1> SUFFICES ASSUME TypeInv, SumInv, [Next]_vars, reboots' = 0,
                    NEW m \in Sums \cap DOMAIN cfg', KeptApart(m)'
             PROVE  Buffered(m)' /\ Batched(m)'
  BY DEF SumInv
<1>1. UNCHANGED <<cfg, plan>>
  BY DEF Next, Begin, Record, Skip, Emit, Reboot, vars
<1>2. reboots \in Nat /\ CaseInv /\ next \in 0 .. Len(plan) + 1
  BY DEF TypeInv
<1>3. reboots = 0 /\ ~Reboot
  BY <1>2 DEF Next, Begin, Record, Skip, Emit, Reboot, vars
<1>4. KeptApart(m) /\ \A s : Kept(s)' = Kept(s)
  BY <1>1 DEF KeptApart, Kept
<1>5. m \in Sums \cap DOMAIN cfg /\ Buffered(m) /\ Batched(m)
  BY <1>1, <1>3, <1>4 DEF SumInv
<1>6. CASE Begin \/ Skip \/ UNCHANGED vars
  <2>1. UNCHANGED <<data, agg, batch, counters>>
    BY <1>6 DEF Begin, Skip, vars
  <2>2. \A s \in DOMAIN plan : s < next => s < next'
    <3>1. \A s \in DOMAIN plan : s \in Nat
      BY <1>2, CaseFacts
    <3> QED
      BY <1>2, <1>6, <3>1 DEF Begin, Skip, vars
  <2>3. Buffered(m)'
    BY <1>1, <1>4, <1>5, <2>1, <2>2 DEF Buffered
  <2>4. Batched(m)'
    BY <1>1, <1>4, <1>5, <2>1 DEF Batched, NotAbove, OneValue
  <2> QED
    BY <2>3, <2>4
<1>7. ASSUME NEW value \in Values, Record(value)
      PROVE  Buffered(m)' /\ Batched(m)'
  BY <1>4, <1>5, <1>7, RecordSum
<1>8. CASE Emit
  BY <1>4, <1>5, <1>8, EmitSum
<1> QED
  BY <1>3, <1>6, <1>7, <1>8 DEF Next

\* Between two batches no series of a cumulative sum falls while the device
\* has not rebooted, if the sources of each sum differ in an attribute, as
\* those of a scrape do.
THEOREM SumsCorrect ==
    ASSUME \A c \in Cases : Apart(c.plan)
    PROVE  Spec => SumsNeverFall
<1>1. Init => SumInv
  <2> SUFFICES ASSUME Init
               PROVE  SumInv
    OBVIOUS
  <2>1. \A m \in DOMAIN cfg : data[m] = <<>> /\ batch[m] = <<>>
    BY DEF Init, Empty
  <2> QED
    BY <2>1 DEF SumInv, Buffered, Batched, NotAbove, OneValue
<1>2. TypeInv /\ SumInv /\ SumInv' /\ [Next]_vars
        => [\A m \in Sums \cap DOMAIN cfg :
               /\ KeptApart(m) \/ cfg[m] = DefaultMetricsConfig[m]
               /\ reboots' = 0
               => ~Falls(m)]_vars
  <2> SUFFICES ASSUME TypeInv, SumInv, SumInv', [Next]_vars, reboots' = 0,
                      NEW m \in Sums \cap DOMAIN cfg,
                      KeptApart(m) \/ cfg[m] = DefaultMetricsConfig[m],
                      NEW p \in Range(batch[m]), NEW q \in Range(batch'[m]),
                      p.attrs = q.attrs, q.value < p.value
               PROVE  FALSE
    BY DEF Falls
  <2>1. UNCHANGED <<cfg, plan>>
    BY DEF Next, Begin, Record, Skip, Emit, Reboot, vars
  <2>2. CaseInv /\ Apart(plan) /\ counters \in [DOMAIN plan -> Nat]
    BY DEF TypeInv, CaseInv
  <2>3. KeptApart(m)
    BY <2>2, DefaultKeepsApart
  <2>4. KeptApart(m)'
    BY <2>1, <2>3 DEF KeptApart, Kept
  <2>5. reboots = 0 /\ ~Reboot
    BY DEF TypeInv, Next, Begin, Record, Skip, Emit, Reboot, vars
  <2>6. Buffered(m) /\ Batched(m) /\ Batched(m)'
    BY <2>1, <2>3, <2>4, <2>5 DEF SumInv
  <2>7. PICK s \in DOMAIN plan :
           /\ plan[s].metric = m /\ p.attrs = Kept(plan[s])
           /\ p.value \in Nat /\ p.value <= counters[s]
    BY <2>6 DEF Batched, NotAbove, Range
  <2>8. CASE Emit
    <3>1. batch'[m] = Emitted(m)
      BY <2>8 DEF Emit
    <3>2. PICK k \in DOMAIN data[m] : q.attrs = data[m][k].attrs
                                      /\ q.value = data[m][k].value
      BY <2>6, <3>1, EmittedSum DEF Range
    <3>3. PICK t \in DOMAIN plan :
             /\ plan[t].metric = m /\ q.attrs = Kept(plan[t])
             /\ q.value = counters[t]
      BY <2>6, <3>2 DEF Buffered
    <3>4. s = t
      BY <2>3, <2>7, <3>3 DEF KeptApart
    <3> QED
      BY <2>2, <2>7, <3>3, <3>4
  <2>9. CASE ~Emit
    <3>1. batch'[m] = batch[m]
      BY <2>9 DEF Next, Begin, Record, Skip, Reboot, vars
    <3>2. PICK j, k \in DOMAIN batch[m] : p = batch[m][j] /\ q = batch[m][k]
      BY <3>1 DEF Range
    <3>3. q.value = p.value
      BY <2>6, <3>2 DEF Batched, OneValue
    <3>4. q.value \in Nat
      BY <2>7, <3>3
    <3> QED
      BY <3>3, <3>4
  <2> QED
    BY <2>8, <2>9
<1> QED
  BY <1>1, <1>2, SumStep, TypeInvariant, PTL DEF Spec, SumsNeverFall

\* So it is when each plan is the record calls of a scrape, of any radios and
\* hosts.
COROLLARY ScrapeSumsCorrect ==
    ASSUME \A c \in Cases : \E ssids, ip, hosts :
              /\ Len(ssids) \in Nat /\ DOMAIN ssids = 1 .. Len(ssids)
              /\ IsHosts(hosts)
              /\ c.plan = ScrapeSources(ssids, ip, hosts)
    PROVE  Spec => SumsNeverFall
<1>1. \A c \in Cases : Apart(c.plan)
  BY ScrapesAreApart
<1> QED
  BY <1>1, SumsCorrect

-----------------------------------------------------------------------------
(* What a strategy makes of the values of a series.                         *)

\* A point has taken the values of R in: its value and its count.
Taken(m, R, value, count) ==
    /\ cfg[m].strategy \in {"sum", "avg"} =>
          value = Total(R) /\ count = Cardinality(R)
    /\ cfg[m].strategy = "min" =>
          /\ \E r \in R : value = r[2]
          /\ \A r \in R : value <= r[2]
    /\ cfg[m].strategy \in {"max", "none"} =>
          /\ \E r \in R : value = r[2]
          /\ \A r \in R : value >= r[2]

LEMMA FirstTaken ==
    ASSUME NEW m, NEW r, r[2] \in Nat
    PROVE  Taken(m, {r}, r[2], 1)
<1>1. Total({r}) = r[2]
  <2>1. Total({} \cup {r}) = Total({}) + r[2]
    BY TotalAdds, FS_EmptySet
  <2>2. {} \cup {r} = {r}
    OBVIOUS
  <2> QED
    BY <2>1, <2>2, TotalOfNone
<1>2. Cardinality({r}) = 1
  BY FS_Singleton
<1> QED
  BY <1>1, <1>2 DEF Taken

LEMMA NextTaken ==
    ASSUME NEW m, cfg[m].strategy \in Strategies,
           NEW R, IsFiniteSet(R), \A x \in R : x[2] \in Nat,
           NEW r, r \notin R, r[2] \in Nat,
           NEW value \in Nat, NEW count \in Nat, Taken(m, R, value, count)
    PROVE  Taken(m, R \cup {r}, Combined(cfg[m].strategy, value, r[2]),
                 count + (IF cfg[m].strategy \in {"sum", "avg"} THEN 1 ELSE 0))
<1>1. CASE cfg[m].strategy \in {"sum", "avg"}
  <2>1. value = Total(R) /\ count = Cardinality(R)
    BY <1>1 DEF Taken
  <2>2. Total(R \cup {r}) = Total(R) + r[2]
    BY TotalAdds
  <2>3. Cardinality(R \cup {r}) = Cardinality(R) + 1
    BY FS_AddElement
  <2>4. Combined(cfg[m].strategy, value, r[2]) = value + r[2]
    BY <1>1 DEF Combined
  <2>5. cfg[m].strategy \notin {"min", "max", "none"}
    BY <1>1
  <2> QED
    BY <1>1, <2>1, <2>2, <2>3, <2>4, <2>5 DEF Taken
<1>2. CASE cfg[m].strategy = "min"
  <2>1. /\ \E x \in R : value = x[2]
        /\ \A x \in R : value <= x[2]
    BY <1>2 DEF Taken
  <2>2. Combined(cfg[m].strategy, value, r[2]) = IF value > r[2] THEN r[2] ELSE value
    BY <1>2 DEF Combined
  <2> DEFINE v == IF value > r[2] THEN r[2] ELSE value
  <2>3. v \in Nat /\ v <= value /\ v <= r[2] /\ v \in {value, r[2]}
    OBVIOUS
  <2> HIDE DEF v
  <2>4. \A x \in R : v <= x[2]
    BY <2>1, <2>3
  <2>5. /\ \E x \in R \cup {r} : v = x[2]
        /\ \A x \in R \cup {r} : v <= x[2]
    BY <2>1, <2>3, <2>4
  <2> QED
    BY <1>2, <2>2, <2>5 DEF Taken, v
<1>3. CASE cfg[m].strategy = "max"
  <2>1. /\ \E x \in R : value = x[2]
        /\ \A x \in R : value >= x[2]
    BY <1>3 DEF Taken
  <2>2. Combined(cfg[m].strategy, value, r[2]) = IF value < r[2] THEN r[2] ELSE value
    BY <1>3 DEF Combined
  <2> DEFINE v == IF value < r[2] THEN r[2] ELSE value
  <2>3. v \in Nat /\ v >= value /\ v >= r[2] /\ v \in {value, r[2]}
    OBVIOUS
  <2> HIDE DEF v
  <2>4. \A x \in R : v >= x[2]
    BY <2>1, <2>3
  <2>5. /\ \E x \in R \cup {r} : v = x[2]
        /\ \A x \in R \cup {r} : v >= x[2]
    BY <2>1, <2>3, <2>4
  <2> QED
    BY <1>3, <2>2, <2>5 DEF Taken, v
<1> QED
  BY <1>1, <1>2, <1>3 DEF Strategies

\* A point that has taken all values of its series in holds, once emitted,
\* their aggregate.
LEMMA TakenAggregate ==
    ASSUME NEW m, cfg[m].strategy \in Strategies \cup {"none"},
           NEW R, \A x \in R : x[2] \in Nat,
           NEW value \in Nat, NEW count, Taken(m, R, value, count)
    PROVE  Aggregate(m, R) = IF cfg[m].strategy = "avg"
                             THEN Quotient(m, value, count) ELSE value
<1> DEFINE values == {r[2] : r \in R}
<1>1. values \in SUBSET Nat
  OBVIOUS
<1>2. CASE cfg[m].strategy \in {"sum", "avg"}
  BY <1>2 DEF Aggregate, Taken, Total
<1>3. CASE cfg[m].strategy = "min"
  <2>1. value \in values /\ \A x \in values : value <= x
    BY <1>3 DEF Taken
  <2>2. Aggregate(m, R) = Min(values)
    BY <1>3 DEF Aggregate
  <2> HIDE DEF values
  <2> QED
    BY <1>1, <1>3, <2>1, <2>2, MinUnique
<1>4. CASE cfg[m].strategy \in {"max", "none"}
  <2>1. value \in values /\ \A x \in values : value >= x
    BY <1>4 DEF Taken
  <2>2. Aggregate(m, R) = Max(values)
    BY <1>4 DEF Aggregate
  <2> HIDE DEF values
  <2> QED
    BY <1>1, <1>4, <2>1, <2>2, MaxUnique
<1> QED
  BY <1>2, <1>3, <1>4 DEF Strategies

-----------------------------------------------------------------------------
(* The buffers during a scrape.                                             *)

\* The series of a set of recorded values, and the values of one.
SeriesOf(R) == {Kept(plan[r[1]]) : r \in R}
ValuesOf(R, a) == {r \in R : Kept(plan[r[1]]) = a}

\* A buffer d with counts c has one point for each series of R, that has
\* taken its values in.
Gathers(m, d, c, R) ==
    IF ~cfg[m].enabled THEN d = <<>>
    ELSE /\ Len(d) = Cardinality(SeriesOf(R))
         /\ \A k \in DOMAIN d :
               /\ d[k].attrs \in SeriesOf(R)
               /\ d[k].start = startTime /\ d[k].ts = now
               /\ Taken(m, ValuesOf(R, d[k].attrs), d[k].value, c[k])
         /\ \A a \in SeriesOf(R) : \E k \in DOMAIN d : d[k].attrs = a
         /\ \A j, k \in DOMAIN d : d[j].attrs = d[k].attrs => j = k

Gathered(m) == Gathers(m, data[m], agg[m], RecordedFor(m))

\* The inductive invariant behind AggregatesWhole: between scrapes nothing is
\* buffered, in a scrape the buffers hold what its sources have recorded.
GatherInv ==
    /\ IsFiniteSet(recorded)
    /\ next = 0 => data = Empty /\ agg = Empty
    /\ next > 0 => /\ \A r \in recorded : r[1] < next
                   /\ \A m \in DOMAIN cfg : Gathered(m)

\* Within a scrape a buffer is judged by the same clock.
LEMMA GatheredNext ==
    ASSUME UNCHANGED <<cfg, plan, startTime, now>>, NEW m,
           Gathers(m, data'[m], agg'[m], RecordedFor(m)')
    PROVE  Gathered(m)'
<1>1. ASSUME NEW d, NEW c, NEW R, Gathers(m, d, c, R)
      PROVE  Gathers(m, d, c, R)'
  <2>1. SeriesOf(R)' = SeriesOf(R)
    BY DEF SeriesOf, Kept
  <2>2. \A a : ValuesOf(R, a)' = ValuesOf(R, a)
    BY DEF ValuesOf, Kept
  <2> QED
    BY <1>1, <2>1, <2>2 DEF Gathers, Taken
<1> QED
  BY <1>1 DEF Gathered

\* The recorded values of a metric.
LEMMA RecordedTypes ==
    ASSUME TypeInv, GatherInv, NEW m
    PROVE  /\ RecordedFor(m) \subseteq recorded /\ IsFiniteSet(RecordedFor(m))
           /\ \A r \in RecordedFor(m) :
                 r[1] \in DOMAIN plan /\ r[2] \in Nat /\ plan[r[1]].metric = m
<1>1. RecordedFor(m) \subseteq recorded /\ IsFiniteSet(RecordedFor(m))
  <2>1. RecordedFor(m) \subseteq recorded
    BY DEF RecordedFor
  <2> QED
    BY <2>1, FS_Subset DEF GatherInv
<1>2. \A r \in RecordedFor(m) :
         r[1] \in DOMAIN plan /\ r[2] \in Nat /\ plan[r[1]].metric = m
  BY DEF TypeInv, RecordedFor
<1> QED
  BY <1>1, <1>2

LEMMA SeriesTypes ==
    ASSUME NEW R, IsFiniteSet(R)
    PROVE  /\ IsFiniteSet(SeriesOf(R)) /\ Cardinality(SeriesOf(R)) \in Nat
           /\ \A a : /\ IsFiniteSet(ValuesOf(R, a)) /\ ValuesOf(R, a) \subseteq R
                     /\ ValuesOf(R, a) # {} <=> a \in SeriesOf(R)
<1>1. IsFiniteSet(SeriesOf(R))
  <2> DEFINE f == [r \in R |-> Kept(plan[r[1]])]
  <2>1. f \in Surjection(R, SeriesOf(R))
    BY DEF Surjection, SeriesOf
  <2> QED
    BY <2>1, FS_Surjection
<1>2. \A a : ValuesOf(R, a) \subseteq R
  BY DEF ValuesOf
<1>3. \A a : IsFiniteSet(ValuesOf(R, a))
  BY <1>2, FS_Subset
<1>4. \A a : ValuesOf(R, a) # {} <=> a \in SeriesOf(R)
  BY DEF ValuesOf, SeriesOf
<1> QED
  BY <1>1, <1>2, <1>3, <1>4, FS_CardinalityType

\* A value more changes its own series only.
LEMMA ValueAdded ==
    ASSUME NEW R, NEW r
    PROVE  LET a == Kept(plan[r[1]])
           IN  /\ SeriesOf(R \cup {r}) = SeriesOf(R) \cup {a}
               /\ ValuesOf(R \cup {r}, a) = ValuesOf(R, a) \cup {r}
               /\ \A b : b # a => ValuesOf(R \cup {r}, b) = ValuesOf(R, b)
BY DEF SeriesOf, ValuesOf

\* The first value of a series appends a point.
LEMMA AppendGathers ==
    ASSUME CaseInv, NEW m \in DOMAIN cfg, cfg[m].enabled,
           NEW d \in Seq(Points), NEW c \in Seq(Nat \ {0}), Len(c) = Len(d),
           NEW R, IsFiniteSet(R), Gathers(m, d, c, R),
           NEW r, r[2] \in Nat, NEW p \in Points,
           p.attrs = Kept(plan[r[1]]), p.start = startTime, p.ts = now,
           p.value = r[2], p.attrs \notin SeriesOf(R)
    PROVE  Gathers(m, Append(d, p), Append(c, 1), R \cup {r})
<1> DEFINE S == R \cup {r}
           e == Append(d, p)
           g == Append(c, 1)
           a == p.attrs
<1>1. /\ Len(d) = Cardinality(SeriesOf(R))
      /\ \A k \in DOMAIN d :
            /\ d[k].attrs \in SeriesOf(R)
            /\ d[k].start = startTime /\ d[k].ts = now
            /\ Taken(m, ValuesOf(R, d[k].attrs), d[k].value, c[k])
      /\ \A b \in SeriesOf(R) : \E k \in DOMAIN d : d[k].attrs = b
      /\ \A j, k \in DOMAIN d : d[j].attrs = d[k].attrs => j = k
  BY DEF Gathers
<1>2. /\ e \in Seq(Points) /\ Len(e) = Len(d) + 1
      /\ \A k \in 1 .. Len(d) : e[k] = d[k]
      /\ e[Len(d) + 1] = p
      /\ \A k \in 1 .. Len(d) : g[k] = c[k]
      /\ g[Len(d) + 1] = 1
  BY AppendProperties, 1 \in Nat \ {0}
<1>3. /\ Len(d) \in Nat /\ DOMAIN d = 1 .. Len(d)
      /\ DOMAIN e = 1 .. (Len(d) + 1)
  BY <1>2, LenProperties
<1>4. /\ SeriesOf(S) = SeriesOf(R) \cup {a}
      /\ ValuesOf(S, a) = ValuesOf(R, a) \cup {r}
      /\ \A b : b # a => ValuesOf(S, b) = ValuesOf(R, b)
  <2> DEFINE x == Kept(plan[r[1]])
  <2>1. /\ SeriesOf(S) = SeriesOf(R) \cup {x}
        /\ ValuesOf(S, x) = ValuesOf(R, x) \cup {r}
        /\ \A b : b # x => ValuesOf(S, b) = ValuesOf(R, b)
    BY ValueAdded
  <2> QED
    BY <2>1
<1>5. ValuesOf(S, a) = {r}
  BY <1>4, SeriesTypes
<1>6. Cardinality(SeriesOf(S)) = Cardinality(SeriesOf(R)) + 1
  BY <1>4, SeriesTypes, FS_AddElement
<1> HIDE DEF S, e, g, a
<1>7. ASSUME NEW k \in DOMAIN e
      PROVE  \/ k \in DOMAIN d /\ e[k] = d[k] /\ g[k] = c[k]
             \/ k = Len(d) + 1 /\ e[k] = p /\ g[k] = 1
  BY <1>2, <1>3
<1>8. ASSUME NEW k \in DOMAIN e
      PROVE  /\ e[k].attrs \in SeriesOf(S)
             /\ e[k].start = startTime /\ e[k].ts = now
             /\ Taken(m, ValuesOf(S, e[k].attrs), e[k].value, g[k])
  <2>1. CASE k \in DOMAIN d /\ e[k] = d[k] /\ g[k] = c[k]
    <3>1. d[k].attrs \in SeriesOf(R) /\ d[k].attrs # a
      BY <1>1, <2>1 DEF a
    <3> QED
      BY <1>1, <1>4, <2>1, <3>1
  <2>2. CASE k = Len(d) + 1 /\ e[k] = p /\ g[k] = 1
    <3>1. Taken(m, ValuesOf(S, a), r[2], 1)
      BY <1>5, FirstTaken
    <3> QED
      BY <1>4, <2>2, <3>1 DEF a
  <2> QED
    BY <1>7, <2>1, <2>2
<1>9. ASSUME NEW b \in SeriesOf(S)
      PROVE  \E k \in DOMAIN e : e[k].attrs = b
  <2>1. CASE b \in SeriesOf(R)
    BY <1>1, <1>2, <1>3, <2>1
  <2>2. CASE b = a
    BY <1>2, <1>3, <2>2 DEF a
  <2> QED
    BY <1>4, <2>1, <2>2
<1>10. ASSUME NEW j \in DOMAIN e, NEW k \in DOMAIN e, e[j].attrs = e[k].attrs
       PROVE  j = k
  <2>1. \A l \in DOMAIN d : d[l].attrs # a
    BY <1>1 DEF a
  <2> QED
    BY <1>1, <1>7, <1>10, <2>1 DEF a
<1>11. Len(e) = Cardinality(SeriesOf(S))
  BY <1>1, <1>2, <1>6
<1>12. Gathers(m, e, g, S)
  BY <1>8, <1>9, <1>10, <1>11 DEF Gathers
<1> QED
  BY <1>12 DEF S, e, g

\* A later value of a series is taken in by the series' point.
LEMMA MergeGathers ==
    ASSUME CaseInv, NEW m \in DOMAIN cfg, cfg[m].enabled,
           cfg[m].strategy \in Strategies,
           NEW d \in Seq(Points), NEW c \in Seq(Nat \ {0}), Len(c) = Len(d),
           NEW R, IsFiniteSet(R), \A x \in R : x[2] \in Nat,
           Gathers(m, d, c, R), NEW r, r \notin R, r[2] \in Nat,
           NEW k \in DOMAIN d, d[k].attrs = Kept(plan[r[1]]),
           NEW p \in Points, p.attrs = d[k].attrs,
           p.start = d[k].start, p.ts = d[k].ts,
           p.value = Combined(cfg[m].strategy, d[k].value, r[2]),
           NEW n \in Nat \ {0},
           n = c[k] + (IF cfg[m].strategy \in {"sum", "avg"} THEN 1 ELSE 0)
    PROVE  Gathers(m, [d EXCEPT ![k] = p], [c EXCEPT ![k] = n], R \cup {r})
<1> DEFINE S == R \cup {r}
           e == [d EXCEPT ![k] = p]
           g == [c EXCEPT ![k] = n]
           a == d[k].attrs
           v == Combined(cfg[m].strategy, d[k].value, r[2])
<1>1. /\ Len(d) = Cardinality(SeriesOf(R))
      /\ \A j \in DOMAIN d :
            /\ d[j].attrs \in SeriesOf(R)
            /\ d[j].start = startTime /\ d[j].ts = now
            /\ Taken(m, ValuesOf(R, d[j].attrs), d[j].value, c[j])
      /\ \A b \in SeriesOf(R) : \E j \in DOMAIN d : d[j].attrs = b
      /\ \A i, j \in DOMAIN d : d[i].attrs = d[j].attrs => i = j
  BY DEF Gathers
<1>2. /\ DOMAIN d = 1 .. Len(d) /\ DOMAIN c = 1 .. Len(d) /\ Len(d) \in Nat
  BY LenProperties
<1>3. /\ e \in Seq(Points) /\ Len(e) = Len(d)
      /\ \A j \in 1 .. Len(d) : e[j] = IF j = k THEN p ELSE d[j]
  BY <1>2, ExceptSeq
<1>4. \A j \in 1 .. Len(d) : g[j] = IF j = k THEN n ELSE c[j]
  BY <1>2
<1>5. /\ d[k] \in Points /\ c[k] \in Nat \ {0}
  BY <1>2, ElementOfSeq
<1>6. /\ p.attrs = a /\ p.start = d[k].start /\ p.ts = d[k].ts
      /\ p.value = v /\ d[k].value \in Nat
  BY <1>5 DEF Points
<1>7. /\ SeriesOf(S) = SeriesOf(R) \cup {a}
      /\ ValuesOf(S, a) = ValuesOf(R, a) \cup {r}
      /\ \A b : b # a => ValuesOf(S, b) = ValuesOf(R, b)
  <2> DEFINE x == Kept(plan[r[1]])
  <2>1. /\ SeriesOf(S) = SeriesOf(R) \cup {x}
        /\ ValuesOf(S, x) = ValuesOf(R, x) \cup {r}
        /\ \A b : b # x => ValuesOf(S, b) = ValuesOf(R, b)
    BY ValueAdded
  <2> QED
    BY <2>1
<1>8. SeriesOf(S) = SeriesOf(R)
  <2>1. a \in SeriesOf(R)
    BY <1>1
  <2> HIDE DEF S, a
  <2> QED
    BY <1>7, <2>1
<1>9. Taken(m, ValuesOf(R, a) \cup {r}, v, n)
  <2>1. /\ IsFiniteSet(ValuesOf(R, a)) /\ r \notin ValuesOf(R, a)
        /\ \A x \in ValuesOf(R, a) : x[2] \in Nat
    BY SeriesTypes
  <2>2. Taken(m, ValuesOf(R, a), d[k].value, c[k])
    BY <1>1
  <2> QED
    BY <1>5, <1>6, <2>1, <2>2, NextTaken
<1> HIDE DEF S, e, g, a, v
<1>10. DOMAIN e = DOMAIN d
  BY <1>2, <1>3, LenProperties
<1>11. ASSUME NEW j \in DOMAIN e
       PROVE  /\ e[j].attrs = d[j].attrs
              /\ e[j].attrs \in SeriesOf(S)
              /\ e[j].start = startTime /\ e[j].ts = now
              /\ Taken(m, ValuesOf(S, e[j].attrs), e[j].value, g[j])
  <2>1. CASE j = k
    <3>1. e[j] = p /\ g[j] = n
      BY <1>2, <1>3, <1>4, <2>1
    <3>2. Taken(m, ValuesOf(S, a), v, n)
      BY <1>7, <1>9
    <3> QED
      BY <1>1, <1>6, <1>8, <2>1, <3>1, <3>2 DEF a
  <2>2. CASE j # k
    <3>1. j \in DOMAIN d /\ e[j] = d[j] /\ g[j] = c[j]
      BY <1>2, <1>3, <1>4, <1>10, <2>2
    <3>2. d[j].attrs # a
      BY <1>1, <2>2, <3>1 DEF a
    <3> QED
      BY <1>1, <1>7, <1>8, <3>1, <3>2
  <2> QED
    BY <2>1, <2>2
<1>12. ASSUME NEW b \in SeriesOf(S)
       PROVE  \E j \in DOMAIN e : e[j].attrs = b
  <2>1. PICK j \in DOMAIN d : d[j].attrs = b
    BY <1>1, <1>8
  <2> QED
    BY <1>10, <1>11, <2>1
<1>13. \A i, j \in DOMAIN e : e[i].attrs = e[j].attrs => i = j
  BY <1>1, <1>10, <1>11
<1>14. Len(e) = Cardinality(SeriesOf(S))
  BY <1>1, <1>3, <1>8
<1>15. Gathers(m, e, g, S)
  BY <1>11, <1>12, <1>13, <1>14 DEF Gathers
<1> QED
  BY <1>15 DEF S, e, g

\* What Record does to the buffer of a metric.
LEMMA RecordGathers ==
    ASSUME TypeInv, GatherInv, NEW value \in Values, Record(value),
           NEW m \in DOMAIN cfg
    PROVE  Gathered(m)'
<1>1. /\ CaseInv /\ BufferInv /\ next \in DOMAIN plan /\ value \in Nat
      /\ UNCHANGED <<cfg, plan, startTime, now>>
      /\ RecordDataPoint(plan[next], value)
      /\ recorded' = recorded \cup {<<next, value>>}
  BY BoundsAssumption DEF Record, TypeInv
<1> DEFINE s == plan[next]
           n == s.metric
           r == <<next, value>>
           R == RecordedFor(m)
<1>2. Len(plan) \in Nat /\ DOMAIN plan = 1 .. Len(plan) /\ n \in DOMAIN cfg
  BY <1>1, CaseFacts
<1>3. Gathers(m, data[m], agg[m], R) /\ \A x \in recorded : x[1] < next
  BY <1>1, <1>2 DEF GatherInv, Gathered
<1>4. r \notin recorded /\ r[1] = next /\ r[2] = value
  <2>1. r[1] = next /\ r[2] = value
    OBVIOUS
  <2>2. next \in Nat /\ ~(next < next)
    BY <1>1, <1>2
  <2> HIDE DEF r
  <2> QED
    BY <1>3, <2>1, <2>2
<1>5. CASE n # m
  <2>1. RecordedFor(m)' = R
    BY <1>1, <1>4, <1>5 DEF RecordedFor
  <2>2. data'[m] = data[m] /\ agg'[m] = agg[m]
    BY <1>1, <1>5, RecordTouchesOne
  <2> QED
    BY <1>1, <1>3, <2>1, <2>2, GatheredNext
<1>6. CASE n = m
  <2>1. RecordedFor(m)' = R \cup {r}
    BY <1>1, <1>4, <1>6 DEF RecordedFor
  <2>2. /\ IsFiniteSet(R) /\ r \notin R
        /\ \A x \in R : x[1] \in DOMAIN plan /\ x[1] < next /\ x[2] \in Nat
                         /\ plan[x[1]].metric = m
    BY <1>3, <1>4, RecordedTypes
  <2>3. /\ data[m] \in Seq(Points) /\ agg[m] \in Seq(Nat \ {0})
        /\ Len(agg[m]) = Len(data[m])
        /\ m \in DOMAIN data /\ m \in DOMAIN agg
    BY <1>1 DEF BufferInv
  <2> HIDE DEF R, r
  <2>4. SUFFICES Gathers(m, data'[m], agg'[m], R \cup {r})
    BY <1>1, <2>1, GatheredNext
  <2>5. CASE ~cfg[m].enabled /\ UNCHANGED <<data, agg>>
    BY <1>3, <2>5 DEF Gathers
  <2>6. CASE Appends(s, value)
    <3> DEFINE p == Point(s, value)
    <3>1. /\ cfg[m].enabled /\ \A k : ~IsLike(s, k)
          /\ data'[m] = Append(data[m], p) /\ agg'[m] = Append(agg[m], 1)
      BY <1>6, <2>3, <2>6 DEF Appends
    <3>2. /\ p \in Points /\ p.attrs = Kept(plan[r[1]])
          /\ p.start = startTime /\ p.ts = now /\ p.value = r[2] /\ r[2] \in Nat
      BY <1>1, <1>4 DEF Points, Point, TypeInv, r
    <3>3. p.attrs \notin SeriesOf(R)
      <4>1. CASE cfg[m].strategy = "none"
        <5>1. Table[m].attributes = {}
          BY <1>1, <4>1, CaseFacts DEF Valid, Strategies
        <5>2. ASSUME NEW x \in R
              PROVE  FALSE
          <6>1. x[1] = next
            BY <1>1, <1>6, <2>2, <5>1, CaseFacts
          <6> QED
            BY <1>2, <1>1, <2>2, <6>1
        <5> QED
          BY <5>2 DEF SeriesOf
      <4>2. CASE cfg[m].strategy # "none"
        <5> SUFFICES ASSUME p.attrs \in SeriesOf(R)
                     PROVE  FALSE
          OBVIOUS
        <5>1. PICK k \in DOMAIN data[m] : data[m][k].attrs = p.attrs
          BY <1>3, <3>1 DEF Gathers
        <5>2. data[m][k].start = startTime /\ data[m][k].ts = now
          BY <1>3, <3>1 DEF Gathers
        <5>3. IsLike(s, k)
          BY <1>6, <4>2, <5>1, <5>2 DEF IsLike, Point
        <5> QED
          BY <3>1, <5>3
      <4> QED
        BY <4>1, <4>2
    <3> HIDE DEF p
    <3>4. Gathers(m, Append(data[m], p), Append(agg[m], 1), R \cup {r})
      BY <1>1, <1>3, <2>2, <2>3, <3>1, <3>2, <3>3, AppendGathers
    <3> QED
      BY <3>1, <3>4
  <2>7. ASSUME NEW k, Merges(s, value, k)
        PROVE  Gathers(m, data'[m], agg'[m], R \cup {r})
    <3> DEFINE v == Combined(cfg[m].strategy, data[m][k].value, r[2])
               p == [data[m][k] EXCEPT !.value = v]
               c == agg[m][k] + (IF cfg[m].strategy \in {"sum", "avg"}
                                 THEN 1 ELSE 0)
    <3>1. /\ cfg[m].enabled /\ k \in DOMAIN data[m]
          /\ cfg[m].strategy # "none" /\ data[m][k].attrs = Kept(s)
      BY <1>6, <2>7 DEF Merges, IsLike
    <3>2. r[2] = value /\ r[1] = next
      BY <1>4 DEF r
    <3>3. /\ data'[m] = [data[m] EXCEPT ![k] = p]
          /\ agg'[m] = [agg[m] EXCEPT ![k] = c]
      BY <1>6, <2>3, <2>7, <3>2 DEF Merges
    <3>4. cfg[m].strategy \in Strategies
      BY <1>1, <3>1, CaseFacts DEF MetricConfig
    <3>5. data[m][k] \in Points /\ agg[m][k] \in Nat \ {0}
      BY <2>3, <3>1, LenProperties, ElementOfSeq
    <3>6. p \in Points
      <4>1. data[m][k].value \in Nat
        BY <3>5 DEF Points
      <4>2. v \in Nat
        BY <1>1, <3>1, <3>2, <4>1, CombinedType
      <4> HIDE DEF v
      <4> QED
        BY <3>5, <4>2 DEF Points
    <3>7. c \in Nat \ {0}
      BY <3>5
    <3>8. data[m][k].attrs = Kept(plan[r[1]])
      BY <3>1, <3>2
    <3>9. /\ p.attrs = data[m][k].attrs /\ p.start = data[m][k].start
          /\ p.ts = data[m][k].ts
          /\ p.value = Combined(cfg[m].strategy, data[m][k].value, r[2])
      <4> HIDE DEF v
      <4>1. /\ p.attrs = data[m][k].attrs /\ p.start = data[m][k].start
            /\ p.ts = data[m][k].ts /\ p.value = v
        BY <3>5 DEF Points
      <4> QED
        BY <4>1 DEF v
    <3>10. c = agg[m][k] + (IF cfg[m].strategy \in {"sum", "avg"} THEN 1 ELSE 0)
      OBVIOUS
    <3> HIDE DEF v, p, c
    <3>11. Gathers(m, [data[m] EXCEPT ![k] = p], [agg[m] EXCEPT ![k] = c],
                   R \cup {r})
      BY <1>1, <1>3, <2>2, <2>3, <3>1, <3>2, <3>4, <3>6, <3>7, <3>8, <3>9,
         <3>10, MergeGathers
    <3> QED
      BY <3>3, <3>11
  <2> QED
    BY <1>1, <1>6, <2>5, <2>6, <2>7, RecordForms
<1> QED
  BY <1>5, <1>6

-----------------------------------------------------------------------------
(* The batch.                                                               *)

\* A function on the indexes of a sequence is a sequence of the same length.
LEMMA SameLength ==
    ASSUME NEW S, NEW T, NEW d \in Seq(S), NEW e \in [DOMAIN d -> T]
    PROVE  Len(e) = Len(d) /\ (d = <<>> => e = <<>>)
<1>1. Len(d) \in Nat /\ DOMAIN d = 1 .. Len(d)
  BY LenProperties
<1>2. e \in Seq(T)
  BY <1>1, SeqDef
<1>3. Len(e) \in Nat /\ DOMAIN e = 1 .. Len(e)
  BY <1>2, LenProperties
<1>4. Len(e) = Len(d)
  BY <1>1, <1>3
<1>5. d = <<>> => e = <<>>
  BY <1>2, <1>4, EmptySeq
<1> QED
  BY <1>4, <1>5

\* An emitted point is the buffered one, its value divided if it is an average.
Value(m, k) ==
    IF cfg[m].strategy = "avg" THEN Quotient(m, data[m][k].value, agg[m][k])
                               ELSE data[m][k].value

LEMMA EmittedForm ==
    ASSUME TypeInv, NEW m \in DOMAIN cfg
    PROVE  /\ DOMAIN Emitted(m) = DOMAIN data[m]
           /\ Len(Emitted(m)) = Len(data[m])
           /\ data[m] = <<>> => Emitted(m) = <<>>
           /\ \A k \in DOMAIN data[m] : Emitted(m)[k] =
                 [attrs |-> data[m][k].attrs, start |-> data[m][k].start,
                  ts |-> data[m][k].ts, value |-> Value(m, k)]
<1>1. data[m] \in Seq(Points)
  BY DEF TypeInv, BufferInv
<1>2. \A k \in DOMAIN data[m] : data[m][k] \in Points
  BY <1>1, LenProperties, ElementOfSeq
<1>3. CASE cfg[m].strategy # "avg"
  <2>1. Emitted(m) = data[m]
    BY <1>3 DEF Emitted
  <2>2. ASSUME NEW k \in DOMAIN data[m]
        PROVE  data[m][k] =
                 [attrs |-> data[m][k].attrs, start |-> data[m][k].start,
                  ts |-> data[m][k].ts, value |-> Value(m, k)]
    BY <1>2, <1>3 DEF Points, Value
  <2> QED
    BY <2>1, <2>2
<1>4. CASE cfg[m].strategy = "avg"
  <2>1. Emitted(m) = [k \in DOMAIN data[m] |->
            [data[m][k] EXCEPT !.value =
                Quotient(m, data[m][k].value, agg[m][k])]]
    BY <1>4 DEF Emitted
  <2>2. ASSUME NEW k \in DOMAIN data[m]
        PROVE  Emitted(m)[k] =
                 [attrs |-> data[m][k].attrs, start |-> data[m][k].start,
                  ts |-> data[m][k].ts, value |-> Value(m, k)]
    <3>1. Emitted(m)[k] = [data[m][k] EXCEPT !.value = Value(m, k)]
      BY <1>4, <2>1 DEF Value
    <3> QED
      BY <1>2, <3>1 DEF Points
  <2>3. PICK T : Emitted(m) \in [DOMAIN data[m] -> T]
    <3> DEFINE T == {Emitted(m)[k] : k \in DOMAIN data[m]}
    <3>1. Emitted(m) \in [DOMAIN data[m] -> T]
      BY <2>1
    <3> QED
      BY <3>1
  <2>4. Len(Emitted(m)) = Len(data[m]) /\ (data[m] = <<>> => Emitted(m) = <<>>)
    BY <1>1, <2>3, SameLength
  <2> QED
    BY <2>1, <2>2, <2>4
<1> QED
  BY <1>3, <1>4

\* The points b are what a batch should hold for the recorded values R.
IsWhole(m, b, R) ==
    IF ~cfg[m].enabled THEN b = <<>>
    ELSE /\ Len(b) = Cardinality(SeriesOf(R))
         /\ Range(b) = {[attrs |-> a, start |-> startTime, ts |-> now,
                         value |-> Aggregate(m, ValuesOf(R, a))] :
                           a \in SeriesOf(R)}

LEMMA EmittedWhole ==
    ASSUME TypeInv, GatherInv, next > 0, NEW m \in DOMAIN cfg
    PROVE  IsWhole(m, Emitted(m), RecordedFor(m))
<1> DEFINE R == RecordedFor(m)
           e == Emitted(m)
           P(a) == [attrs |-> a, start |-> startTime, ts |-> now,
                    value |-> Aggregate(m, ValuesOf(R, a))]
<1>1. /\ CaseInv /\ Gathers(m, data[m], agg[m], R)
      /\ data[m] \in Seq(Points)
  BY DEF TypeInv, BufferInv, GatherInv, Gathered
<1>2. /\ \A x \in R : x[2] \in Nat
      /\ \A a : ValuesOf(R, a) \subseteq R
  BY RecordedTypes DEF ValuesOf
<1>3. /\ DOMAIN e = DOMAIN data[m] /\ Len(e) = Len(data[m])
      /\ data[m] = <<>> => e = <<>>
      /\ \A k \in DOMAIN data[m] : e[k] =
            [attrs |-> data[m][k].attrs, start |-> data[m][k].start,
             ts |-> data[m][k].ts, value |-> Value(m, k)]
  BY EmittedForm
<1> HIDE DEF R, e
<1>4. CASE ~cfg[m].enabled
  BY <1>1, <1>3, <1>4 DEF Gathers, IsWhole, R, e
<1>5. CASE cfg[m].enabled
  <2>1. /\ Len(data[m]) = Cardinality(SeriesOf(R))
        /\ \A k \in DOMAIN data[m] :
              /\ data[m][k].attrs \in SeriesOf(R)
              /\ data[m][k].start = startTime /\ data[m][k].ts = now
              /\ Taken(m, ValuesOf(R, data[m][k].attrs),
                       data[m][k].value, agg[m][k])
        /\ \A a \in SeriesOf(R) : \E k \in DOMAIN data[m] : data[m][k].attrs = a
    BY <1>1, <1>5 DEF Gathers
  <2>2. ASSUME NEW k \in DOMAIN data[m]
        PROVE  e[k] = P(data[m][k].attrs)
    <3> DEFINE V == ValuesOf(R, data[m][k].attrs)
    <3>1. data[m][k].value \in Nat
      <4>1. data[m][k] \in Points
        BY <1>1, LenProperties, ElementOfSeq
      <4> QED
        BY <4>1 DEF Points
    <3>2. \A x \in V : x[2] \in Nat
      BY <1>2
    <3>3. Taken(m, V, data[m][k].value, agg[m][k])
      BY <2>1
    <3>4. cfg[m].strategy \in Strategies \cup {"none"}
      BY <1>1, CaseFacts DEF MetricConfig
    <3>5. Aggregate(m, V) = Value(m, k)
      <4> HIDE DEF V
      <4> QED
        BY <3>1, <3>2, <3>3, <3>4, TakenAggregate DEF Value
    <3> QED
      BY <1>3, <2>1, <3>5
  <2> HIDE DEF P
  <2>3. Range(e) = {P(a) : a \in SeriesOf(R)}
    <3>1. \A x : x \in Range(e) <=> \E k \in DOMAIN data[m] : x = e[k]
      BY <1>3 DEF Range
    <3>2. \A x \in Range(e) : \E a \in SeriesOf(R) : x = P(a)
      BY <2>1, <2>2, <3>1
    <3>3. \A a \in SeriesOf(R) : P(a) \in Range(e)
      BY <2>1, <2>2, <3>1
    <3> QED
      BY <3>2, <3>3
  <2>4. Len(e) = Cardinality(SeriesOf(R))
    BY <1>3, <2>1
  <2> QED
    BY <1>5, <2>3, <2>4 DEF IsWhole, P, R, e
<1> QED
  BY <1>4, <1>5

LEMMA GatherStep == TypeInv /\ GatherInv /\ [Next]_vars => GatherInv'
<1> SUFFICES ASSUME TypeInv, GatherInv, [Next]_vars
             PROVE  GatherInv'
  OBVIOUS
<1>1. Len(plan) \in Nat /\ DOMAIN plan = 1 .. Len(plan)
      /\ next \in 0 .. Len(plan) + 1 /\ CaseInv
  BY CaseFacts DEF TypeInv
<1>2. CASE Begin
  <2>1. /\ next = 0 /\ next' = 1 /\ recorded' = {} /\ data = Empty /\ agg = Empty
        /\ UNCHANGED <<cfg, plan, startTime, data, agg>>
    BY <1>2 DEF Begin, GatherInv
  <2>2. ASSUME NEW m \in DOMAIN cfg
        PROVE  Gathered(m)'
    <3>1. data'[m] = <<>> /\ RecordedFor(m)' = {}
      BY <2>1 DEF Empty, RecordedFor
    <3>2. SeriesOf(RecordedFor(m))' = {}
      BY <3>1 DEF SeriesOf
    <3>3. Len(<<>>) = 0 /\ Cardinality({}) = 0
      BY FS_EmptySet
    <3> QED
      BY <3>1, <3>2, <3>3 DEF Gathered, Gathers
  <2> QED
    BY <2>1, <2>2, FS_EmptySet DEF GatherInv
<1>3. ASSUME NEW value \in Values, Record(value)
      PROVE  GatherInv'
  <2>1. /\ next \in DOMAIN plan /\ next' = next + 1
        /\ recorded' = recorded \cup {<<next, value>>}
        /\ UNCHANGED <<cfg, plan>>
    BY <1>3 DEF Record
  <2>2. next' > 0 /\ next < next' /\ next > 0 /\ next \in Nat
    BY <1>1, <2>1
  <2>3. \A r \in recorded' : r[1] < next'
    <3>1. \A r \in recorded : r[1] < next /\ r[1] \in Nat
      BY <1>1, <2>2 DEF GatherInv, TypeInv
    <3>2. \A r \in recorded : r[1] < next'
      BY <2>1, <2>2, <3>1
    <3> QED
      BY <2>1, <2>2, <3>2
  <2>4. \A m \in DOMAIN cfg : Gathered(m)'
    BY <1>3, RecordGathers
  <2>5. IsFiniteSet(recorded')
    BY <2>1, FS_AddElement DEF GatherInv
  <2> QED
    BY <2>1, <2>2, <2>3, <2>4, <2>5 DEF GatherInv
<1>4. ASSUME Skip \/ Reboot \/ UNCHANGED vars
      PROVE  GatherInv'
  <2>1. UNCHANGED <<cfg, plan, startTime, now, data, agg, recorded>>
    BY <1>4 DEF Skip, Reboot, vars
  <2>2. next' = next \/ (next > 0 /\ next' = next + 1)
    BY <1>1, <1>4 DEF Skip, Reboot, vars
  <2>3. Empty' = Empty
    BY <2>1 DEF Empty
  <2>4. ASSUME NEW m, Gathered(m)
        PROVE  Gathered(m)'
    <3>1. RecordedFor(m)' = RecordedFor(m)
      BY <2>1 DEF RecordedFor
    <3> QED
      BY <2>1, <2>4, <3>1, GatheredNext DEF Gathered
  <2>5. ASSUME next > 0
        PROVE  \A r \in recorded : r[1] < next'
    <3>1. \A r \in recorded : r[1] < next /\ r[1] \in Nat
      BY <1>1, <2>5 DEF GatherInv, TypeInv
    <3> QED
      BY <1>1, <2>2, <3>1
  <2>6. next' = 0 => next = 0
    BY <1>1, <2>2
  <2>7. next' > 0 => next > 0
    BY <1>1, <2>2
  <2> QED
    BY <2>1, <2>3, <2>4, <2>5, <2>6, <2>7 DEF GatherInv
<1>5. CASE Emit
  <2>1. /\ next' = 0 /\ data' = Empty /\ agg' = Empty
        /\ UNCHANGED <<cfg, recorded>>
    BY <1>5 DEF Emit
  <2>2. Empty' = Empty
    BY <2>1 DEF Empty
  <2> QED
    BY <2>1, <2>2 DEF GatherInv
<1> QED
  BY <1>2, <1>3, <1>4, <1>5 DEF Next

\* AggregatesWhole in these terms.
WholeBatch == next = 0 => \A m \in DOMAIN cfg :
                             IsWhole(m, batch[m], RecordedFor(m))

\* The aggregate depends on the state through the metric's strategy only.
AggregateBy(m, strategy, V) ==
    CASE strategy = "sum" -> Total(V)
      [] strategy = "avg" -> Quotient(m, Total(V), Cardinality(V))
      [] strategy = "min" -> Min({r[2] : r \in V})
      [] strategy \in {"max", "none"} -> Max({r[2] : r \in V})

StrategyAggregates ==
    \A m, V, s : s = cfg[m].strategy => Aggregate(m, V) = AggregateBy(m, s, V)

LEMMA AggregateByStrategy == StrategyAggregates
BY Zenon DEF StrategyAggregates, Aggregate, AggregateBy, Total

LEMMA NextAggregateByStrategy == StrategyAggregates'
BY AggregateByStrategy, PTL

LEMMA SameStrategySameAggregate ==
    ASSUME NEW m, NEW V, cfg' = cfg
    PROVE  Aggregate(m, V)' = Aggregate(m, V)
<1> DEFINE s == cfg[m].strategy
<1>1. s = cfg'[m].strategy
  OBVIOUS
<1> HIDE DEF s
<1>2. Aggregate(m, V) = AggregateBy(m, s, V)
  BY AggregateByStrategy DEF StrategyAggregates, s
<1>3. Aggregate(m, V)' = AggregateBy(m, s, V)
  <2> SUFFICES ASSUME NEW r, r = s
               PROVE  Aggregate(m, V)' = AggregateBy(m, r, V)
    OBVIOUS
  <2> QED
    BY <1>1, NextAggregateByStrategy DEF StrategyAggregates
<1> QED
  BY <1>2, <1>3

LEMMA WholeStep == TypeInv /\ GatherInv /\ WholeBatch /\ [Next]_vars => WholeBatch'
<1> SUFFICES ASSUME TypeInv, GatherInv, WholeBatch, [Next]_vars, next' = 0,
                    NEW m \in DOMAIN cfg'
             PROVE  IsWhole(m, batch[m], RecordedFor(m))'
  BY DEF WholeBatch
<1>1. Len(plan) \in Nat /\ DOMAIN plan = 1 .. Len(plan)
      /\ next \in 0 .. Len(plan) + 1
  BY CaseFacts DEF TypeInv
<1>2. Emit \/ Reboot \/ UNCHANGED vars
  BY <1>1 DEF Next, Begin, Record, Skip
<1>3. UNCHANGED <<cfg, plan, startTime, now, recorded>>
  BY <1>2 DEF Emit, Reboot, vars
<1>4. RecordedFor(m)' = RecordedFor(m)
  BY <1>3 DEF RecordedFor
<1>5. IsWhole(m, batch'[m], RecordedFor(m))
  <2>1. CASE Emit
    <3>1. next > 0 /\ batch'[m] = Emitted(m)
      BY <1>1, <1>3, <2>1 DEF Emit
    <3> QED
      BY <1>3, <3>1, EmittedWhole
  <2>2. CASE Reboot \/ UNCHANGED vars
    <3>1. next = 0 /\ batch' = batch
      BY <2>2 DEF Reboot, vars
    <3> QED
      BY <1>3, <3>1 DEF WholeBatch
  <2> QED
    BY <1>2, <2>1, <2>2
<1>6. ASSUME NEW b, NEW R, IsWhole(m, b, R)
      PROVE  IsWhole(m, b, R)'
  <2>1. SeriesOf(R)' = SeriesOf(R)
    BY <1>3 DEF SeriesOf, Kept
  <2>2. \A a : ValuesOf(R, a)' = ValuesOf(R, a)
    BY <1>3 DEF ValuesOf, Kept
  <2>3. \A V : Aggregate(m, V)' = Aggregate(m, V)
    BY <1>3, SameStrategySameAggregate
  <2> QED
    BY <1>3, <1>6, <2>1, <2>2, <2>3 DEF IsWhole
<1> QED
  BY <1>4, <1>5, <1>6

\* A batch holds, for each enabled metric, one point per series recorded in
\* its scrape, with the aggregate of all its values.
THEOREM AggregatesCorrect == Spec => []AggregatesWhole
<1>1. Init => GatherInv /\ WholeBatch
  <2> SUFFICES ASSUME Init
               PROVE  GatherInv /\ WholeBatch
    OBVIOUS
  <2>1. next = 0 /\ data = Empty /\ agg = Empty /\ recorded = {}
    BY DEF Init
  <2>2. ASSUME NEW m \in DOMAIN cfg
        PROVE  IsWhole(m, batch[m], RecordedFor(m))
    <3>1. batch[m] = <<>> /\ RecordedFor(m) = {}
      BY DEF Init, Empty, RecordedFor
    <3>2. SeriesOf(RecordedFor(m)) = {}
      BY <3>1 DEF SeriesOf
    <3>3. Len(<<>>) = 0 /\ Cardinality({}) = 0 /\ Range(<<>>) = {}
      BY FS_EmptySet DEF Range
    <3> QED
      BY <3>1, <3>2, <3>3 DEF IsWhole
  <2> QED
    BY <2>1, <2>2, FS_EmptySet DEF GatherInv, WholeBatch
<1>2. WholeBatch => AggregatesWhole
  BY DEF WholeBatch, IsWhole, AggregatesWhole, SeriesOf, ValuesOf
<1> QED
  BY <1>1, <1>2, GatherStep, WholeStep, TypeInvariant, PTL DEF Spec
=============================================================================
