--------------------------- MODULE Scraper_proofs ---------------------------
(* Proofs about Scraper: types, the mutex, and the resource cache.          *)
EXTENDS Scraper, TLAPS

-----------------------------------------------------------------------------
(* What the operators of Scraper return.                                    *)

\* A call is followed by another call or by the resource attributes, which
\* only their own call leaves.
LEMMA AdvanceTypes ==
    ASSUME TypeOK, NEW c \in Calls, NEW goesOn \in BOOLEAN, Advance(c, goesOn)
    PROVE  /\ pc' \in (Calls \ {"device-info"}) \cup {"resource", "emit"}
           /\ pc' = "emit" => c = "device-info"
           /\ i' \in Nat
<1>1. i \in Nat
  BY DEF TypeOK
<1>2. ASSUME NEW n \in Nat, NextRadio(n)
      PROVE  pc' \in {"wlan", "hosts"} /\ i' \in Nat
  BY <1>2 DEF NextRadio, GoTo
<1>3. ASSUME AfterHosts
      PROVE  pc' \in {"host-info", "resource"} /\ i' \in Nat
  BY <1>3 DEF AfterHosts, GoTo
<1>4. CASE c = "device"
  BY <1>4 DEF Advance, GoTo, Calls
<1>5. CASE c = "wan-link"
  BY <1>5 DEF Advance, GoTo, Calls
<1>6. CASE c = "bytes-sent"
  BY <1>6 DEF Advance, GoTo, Calls
<1>7. CASE c = "bytes-received"
  BY <1>7 DEF Advance, GoTo, Calls
<1>8. CASE c = "packets-sent"
  BY <1>8 DEF Advance, GoTo, Calls
<1>9. CASE c = "packets-received"
  BY <1>9 DEF Advance, GoTo, Calls
<1>10. CASE c = "wan-utilization"
  BY <1>10 DEF Advance, GoTo, Calls
<1>11. CASE c = "utilization-limits"
  BY <1>11 DEF Advance, GoTo, Calls
<1>12. CASE c = "wan-connection"
  BY <1>12 DEF Advance, GoTo, Calls
<1>13. CASE c = "external-ip"
  BY <1>13 DEF Advance, GoTo, Calls
<1>14. CASE c = "dsl"
  BY <1>1, <1>2, <1>14 DEF Advance, GoTo, Calls
<1>15. CASE c = "dsl-statistics"
  BY <1>1, <1>2, <1>15 DEF Advance, GoTo, Calls
<1>16. CASE c = "wlan"
  BY <1>1, <1>2, <1>16 DEF Advance, GoTo, Calls
<1>17. CASE c = "wlan-associations"
  BY <1>1, <1>2, <1>17 DEF Advance, GoTo, Calls
<1>18. CASE c = "wlan-statistics"
  BY <1>1, <1>2, <1>18 DEF Advance, GoTo, Calls
<1>19. CASE c = "hosts"
  BY <1>3, <1>19 DEF Advance, GoTo, Calls
<1>20. CASE c = "host-entry"
  BY <1>1, <1>3, <1>20 DEF Advance, GoTo, Calls
<1>21. CASE c = "host-info"
  BY <1>21 DEF Advance, GoTo, Calls
<1>22. CASE c = "host-list"
  BY <1>22 DEF Advance, GoTo, Calls
<1>23. CASE c = "device-info"
  BY <1>23 DEF Advance, GoTo, Calls
<1> QED
  BY <1>4, <1>5, <1>6, <1>7, <1>8, <1>9, <1>10, <1>11, <1>12, <1>13, <1>14, <1>15,
     <1>16, <1>17, <1>18, <1>19, <1>20, <1>21, <1>22, <1>23 DEF Calls

\* Every step of a call goes on to where Advance says.
LEMMA CallAdvances ==
    ASSUME TypeOK, ServiceMissing \/ Answered \/ AnsweredOddly \/ Failed
    PROVE  /\ pc \in Calls
           /\ pc' \in (Calls \ {"device-info"}) \cup {"resource", "emit"}
           /\ pc' = "emit" => pc = "device-info"
           /\ i' \in Nat
<1>1. pc \in Calls
  BY DEF ServiceMissing, Answered, AnsweredOddly, Failed, Classified, Grouped,
         Calls
<1>2. PICK goesOn \in BOOLEAN : Advance(pc, goesOn)
  <2>1. Advance(pc, FALSE) \/ Advance(pc, TRUE)
            \/ Advance(pc, pc \in {"dsl", "wlan-associations"})
    BY DEF ServiceMissing, Answered, AnsweredOddly, Failed
  <2>2. (pc \in {"dsl", "wlan-associations"}) \in BOOLEAN
    OBVIOUS
  <2> QED
    BY <2>1, <2>2, Zenon
<1> QED
  BY <1>1, <1>2, AdvanceTypes, Zenon

\* A classified failure is of one of the kinds classifyCallError knows.
LEMMA ClassifyTypes ==
    ASSUME TypeOK, NEW outcome \in Outcomes
    PROVE  Classify(outcome) \in Kinds \ {"missing"}
BY DEF Classify, Outcomes, Kinds

\* The errors and the warnings of a failed call are errors and keys.
LEMMA FailureTypes ==
    ASSUME TypeOK, NEW c \in Calls, NEW outcome \in Outcomes
    PROVE  /\ ErrorsOf(c, outcome) \subseteq Error
           /\ WarningsOf(c, outcome) \subseteq Key
<1>1. Classify(outcome) \in Kinds
  BY ClassifyTypes
<1>2. i \in Nat
  BY DEF TypeOK
<1>3. ErrorsOf(c, outcome) \subseteq Error
  BY <1>1 DEF ErrorsOf, Error, Kinds
<1>4. Group(c) \in Calls \cup {"wan-traffic"}
  BY DEF Group, Calls
<1>5. WarningsOf(c, outcome) \subseteq Key
  BY <1>1, <1>2, <1>4 DEF WarningsOf, Key, Kinds
<1> QED
  BY <1>3, <1>5

LEMMA HappensTypes ==
    ASSUME TypeOK, NEW c, NEW outcome, Happens(c, outcome)
    PROVE  faults' \in Nat
BY DEF TypeOK, Happens

LEMMA RecordedTypes ==
    ASSUME TypeOK, NEW c \in Calls
    PROVE  Recorded(c) \subseteq Calls \X Nat
<1>1. i \in Nat /\ "host-entry" \in Calls /\ 1 \in Nat
  BY DEF TypeOK, Calls
<1> QED
  BY <1>1 DEF Recorded

-----------------------------------------------------------------------------
(* Type correctness.                                                        *)

\* The steps that change neither a list, an error nor a batch.
LEMMA QuietTypes ==
    ASSUME TypeOK,
           Tick \/ Shutdown \/ DiscoverCached \/ DiscoverFetch \/ ReadCache
               \/ Expire \/ UNCHANGED vars
    PROVE  TypeOK'
<1>1. CASE Tick
  BY <1>1 DEF TypeOK, given, Tick, scraperVars
<1>2. CASE Shutdown
  BY <1>2 DEF TypeOK, given, Shutdown, scraperVars
<1>3. CASE DiscoverCached
  BY <1>3 DEF TypeOK, given, DiscoverCached, scraperVars, GoTo, Calls
<1>4. CASE DiscoverFetch
  BY <1>4 DEF TypeOK, given, DiscoverFetch
<1>5. CASE ReadCache
  BY <1>5 DEF TypeOK, given, ReadCache, scraperVars, Calls
<1>6. CASE Expire
  BY <1>6 DEF TypeOK, given, Expire, scraperVars
<1>7. CASE UNCHANGED vars
  BY <1>7 DEF TypeOK, given, vars
<1> QED
  BY <1>1, <1>2, <1>3, <1>4, <1>5, <1>6, <1>7

\* The two ends of a discovery.
LEMMA DiscoveryTypes ==
    ASSUME TypeOK, Discovered \/ DiscoverFails
    PROVE  TypeOK'
<1>1. CASE Discovered
  <2>1. dev.offers \subseteq Services
    BY DevicesAssumption DEF TypeOK, Device
  <2> QED
    BY <1>1, <2>1 DEF TypeOK, given, Discovered, GoTo, Calls
<1>2. CASE DiscoverFails
  <2>1. faults' \in Nat
    BY <1>2 DEF TypeOK, given, DiscoverFails
  <2>2. batch' = [metrics |-> {}, resource |-> FALSE, error |-> "plain",
                  failed |-> {}]
    BY <1>2 DEF DiscoverFails, NoBatch
  <2>3. batch' \in [metrics : SUBSET (Calls \X Nat), resource : BOOLEAN,
                    error : {"none", "partial", "plain"}, failed : SUBSET Error]
    BY <2>2
  <2> QED
    BY <1>2, <2>1, <2>3 DEF TypeOK, given, DiscoverFails
<1> QED
  BY <1>1, <1>2

\* The four steps of a call.
LEMMA CallTypes ==
    ASSUME TypeOK, ServiceMissing \/ Answered \/ AnsweredOddly \/ Failed
    PROVE  TypeOK'
<1>1. pc \in Calls
  BY CallAdvances
<1>2. pc' \in Calls \cup {"resource", "emit"} /\ i' \in Nat
  BY CallAdvances
<1>3. CASE ServiceMissing
  <2>1. Group(pc) \in Calls \cup {"wan-traffic"}
    BY <1>1 DEF Group, Calls
  <2>2. warned' \subseteq Key
    BY <1>3, <2>1 DEF TypeOK, ServiceMissing, WarnOnce, Key, Kinds
  <2>3. errs' \subseteq Error
    BY <1>1, <1>3 DEF TypeOK, ServiceMissing, Error, Kinds
  <2> QED
    BY <1>2, <1>3, <2>2, <2>3 DEF TypeOK, given, ServiceMissing
<1>4. CASE Answered
  <2>1. log' \subseteq [call : Calls, i : Nat, outcome : Outcomes]
    BY <1>1, <1>4 DEF TypeOK, Answered, Logged, Outcomes
  <2>2. faults' \in Nat
    BY <1>4, HappensTypes DEF Answered
  <2>3. buffer' \subseteq Calls \X Nat
    BY <1>1, <1>4, RecordedTypes DEF TypeOK, given, Answered
  <2>4. cached' \in BOOLEAN /\ resource' \in BOOLEAN
    BY <1>4 DEF TypeOK, Answered, KeepResource
  <2> QED
    BY <1>2, <1>4, <2>1, <2>2, <2>3, <2>4 DEF TypeOK, given, Answered
<1>5. CASE AnsweredOddly
  <2>1. log' \subseteq [call : Calls, i : Nat, outcome : Outcomes]
    BY <1>1, <1>5 DEF TypeOK, AnsweredOddly, Logged, Outcomes
  <2>2. faults' \in Nat
    BY <1>5, HappensTypes DEF AnsweredOddly
  <2>3. errs' \subseteq Error
    BY <1>1, <1>5 DEF TypeOK, AnsweredOddly, Error, Kinds
  <2>4. warned' \subseteq Key
    BY <1>1, <1>5 DEF TypeOK, AnsweredOddly, WarnOnce, Key, Calls
  <2> QED
    BY <1>2, <1>5, <2>1, <2>2, <2>3, <2>4 DEF TypeOK, given, AnsweredOddly
<1>6. CASE Failed
  <2>1. PICK outcome \in {"fault", "unauthorized", "error"} :
           /\ Happens(pc, outcome) /\ Logged(outcome)
           /\ errs' = errs \cup ErrorsOf(pc, outcome)
           /\ WarnOnce(WarningsOf(pc, outcome))
    BY <1>6 DEF Failed
  <2>2. outcome \in Outcomes
    BY DEF Outcomes
  <2>3. log' \subseteq [call : Calls, i : Nat, outcome : Outcomes]
    BY <1>1, <2>1, <2>2 DEF TypeOK, Logged
  <2>4. faults' \in Nat
    BY <2>1, HappensTypes
  <2>5. errs' \subseteq Error /\ warned' \subseteq Key
    BY <1>1, <2>1, <2>2, FailureTypes DEF TypeOK, WarnOnce
  <2> QED
    BY <1>2, <1>6, <2>3, <2>4, <2>5 DEF TypeOK, given, Failed
<1> QED
  BY <1>3, <1>4, <1>5, <1>6

\* The end of a scrape.
LEMMA EmitTypes ==
    ASSUME TypeOK, Emit
    PROVE  TypeOK'
<1> DEFINE failed == {e \in errs : e.kind \notin Skips}
<1>1. batch' = [metrics |-> buffer, resource |-> resource /\ buffer # {},
                error |-> IF failed = {} THEN "none" ELSE "partial",
                failed |-> failed]
  BY DEF Emit
<1>2. failed \in SUBSET Error /\ buffer \in SUBSET (Calls \X Nat)
      /\ resource \in BOOLEAN
  BY DEF TypeOK
<1> HIDE DEF failed
<1>3. batch' \in [metrics : SUBSET (Calls \X Nat), resource : BOOLEAN,
                  error : {"none", "partial", "plain"}, failed : SUBSET Error]
  BY <1>1, <1>2
<1> QED
  BY <1>3 DEF TypeOK, given, Emit, scraperVars

\* Every variable of a scraper keeps its type.
THEOREM TypeCorrect == Spec => []TypeOK
<1>1. Init => TypeOK
  <2> SUFFICES ASSUME Init
               PROVE  TypeOK
    OBVIOUS
  <2>1. batch \in [metrics : SUBSET (Calls \X Nat), resource : BOOLEAN,
                   error : {"none", "partial", "plain"}, failed : SUBSET Error]
    BY DEF Init, NoBatch
  <2> QED
    BY <2>1 DEF Init, TypeOK
<1>2. TypeOK /\ [Next]_vars => TypeOK'
  <2> SUFFICES ASSUME TypeOK, [Next]_vars
               PROVE  TypeOK'
    OBVIOUS
  <2>1. CASE Tick \/ Shutdown \/ DiscoverCached \/ DiscoverFetch \/ ReadCache
               \/ Expire \/ UNCHANGED vars
    BY <2>1, QuietTypes
  <2>2. CASE Discovered \/ DiscoverFails
    BY <2>2, DiscoveryTypes
  <2>3. CASE ServiceMissing \/ Answered \/ AnsweredOddly \/ Failed
    BY <2>3, CallTypes
  <2>4. CASE Emit
    BY <2>4, EmitTypes
  <2> QED
    BY <2>1, <2>2, <2>3, <2>4 DEF Next
<1> QED
  BY <1>1, <1>2, PTL DEF Spec

-----------------------------------------------------------------------------
(* The mutex.                                                               *)

\* The mutex is held across no call but the fetch of the service list: the
\* scraper never waits for a mutex its own goroutine holds.
THEOREM MutexCorrect == Spec => []MutexNotHeld
<1>1. Init => MutexNotHeld
  BY DEF Init, MutexNotHeld
<1>2. TypeOK /\ MutexNotHeld /\ [Next]_vars => MutexNotHeld'
  <2> SUFFICES ASSUME TypeOK, MutexNotHeld, [Next]_vars
               PROVE  MutexNotHeld'
    OBVIOUS
  <2>1. CASE Tick \/ Shutdown \/ DiscoverCached \/ ReadCache \/ Emit
    BY <2>1 DEF MutexNotHeld, Tick, Shutdown, DiscoverCached, ReadCache, Emit,
                scraperVars
  <2>2. CASE DiscoverFetch \/ Discovered \/ DiscoverFails
    BY <2>2 DEF MutexNotHeld, DiscoverFetch, Discovered, DiscoverFails
  <2>3. CASE ServiceMissing \/ Answered \/ AnsweredOddly \/ Failed
    <3>1. pc # "fetching" /\ mu' = mu
      BY <2>3 DEF ServiceMissing, Answered, AnsweredOddly, Failed, Classified,
                  Grouped, Calls
    <3> QED
      BY <3>1 DEF MutexNotHeld
  <2>4. CASE Expire \/ UNCHANGED vars
    BY <2>4 DEF MutexNotHeld, Expire, scraperVars, vars
  <2> QED
    BY <2>1, <2>2, <2>3, <2>4 DEF Next
<1> QED
  BY <1>1, <1>2, TypeCorrect, PTL DEF Spec

-----------------------------------------------------------------------------
(* The resource cache.                                                      *)

\* The inductive invariant behind ResourceSticks: a batch with the attributes
\* leaves them in the cache, and a scrape goes out with what is cached, if
\* only since its own call to GetInfo.
CacheInv ==
    /\ batch.resource => cached
    /\ pc \in {"device-info", "emit"} => resource = cached

\* The call of resourceOptions fills the cache and the options alike.
LEMMA CallKeepsCache ==
    ASSUME TypeOK, CacheInv,
           ServiceMissing \/ Answered \/ AnsweredOddly \/ Failed
    PROVE  CacheInv'
<1>1. batch' = batch
  BY DEF ServiceMissing, Answered, AnsweredOddly, Failed
<1>2. pc' # "device-info" /\ (pc' = "emit" => pc = "device-info")
  BY CallAdvances DEF Calls
<1>3. CASE Answered
  <2>1. cached' = (cached \/ pc = "device-info")
        /\ resource' = (resource \/ pc = "device-info")
    BY <1>3 DEF Answered, KeepResource
  <2> QED
    BY <1>1, <1>2, <2>1 DEF CacheInv
<1>4. CASE ServiceMissing \/ AnsweredOddly \/ Failed
  <2>1. cached' = cached /\ resource' = resource
    BY <1>4 DEF ServiceMissing, AnsweredOddly, Failed
  <2> QED
    BY <1>1, <1>2, <2>1 DEF CacheInv
<1> QED
  BY <1>3, <1>4

LEMMA CacheStep ==
    ASSUME TypeOK, CacheInv, [Next]_vars
    PROVE  CacheInv'
<1>1. CASE Tick \/ Shutdown \/ DiscoverCached \/ DiscoverFetch \/ Discovered
  BY <1>1 DEF CacheInv, Tick, Shutdown, DiscoverCached, DiscoverFetch,
              Discovered, scraperVars, GoTo
<1>2. CASE DiscoverFails
  BY <1>2 DEF CacheInv, DiscoverFails, NoBatch
<1>3. CASE ServiceMissing \/ Answered \/ AnsweredOddly \/ Failed
  BY <1>3, CallKeepsCache
<1>4. CASE ReadCache
  BY <1>4 DEF CacheInv, ReadCache, scraperVars
<1>5. CASE Emit
  <2>1. cached' = cached /\ pc = "emit" /\ pc' = "idle"
    BY <1>5 DEF Emit, scraperVars
  <2>2. batch'.resource => resource
    BY <1>5 DEF Emit
  <2>3. resource => cached
    BY <2>1 DEF CacheInv
  <2> QED
    BY <2>1, <2>2, <2>3 DEF CacheInv
<1>6. CASE Expire \/ UNCHANGED vars
  BY <1>6 DEF CacheInv, Expire, scraperVars, vars
<1> QED
  BY <1>1, <1>2, <1>3, <1>4, <1>5, <1>6 DEF Next

\* Resource attributes, once delivered, stay on every later batch that has
\* metrics: from then on the cache is filled, and no batch goes out without it.
THEOREM ResourceSticksCorrect == Spec => ResourceSticks
<1> DEFINE Carried == batch.metrics # {} => batch.resource
           Sticky  == cached /\ Carried
<1>1. Init => CacheInv
  BY DEF Init, CacheInv, NoBatch
<1>2. TypeOK /\ CacheInv /\ [Next]_vars => CacheInv'
  BY CacheStep
<1>3. CacheInv /\ batch.resource => Sticky
  BY DEF CacheInv
<1>4. CacheInv /\ Sticky /\ [Next]_vars => Sticky'
  <2> SUFFICES ASSUME CacheInv, Sticky, [Next]_vars
               PROVE  Sticky'
    OBVIOUS
  <2>1. cached'
    BY DEF Next, Tick, Shutdown, DiscoverCached, DiscoverFetch, Discovered,
           DiscoverFails, ServiceMissing, Answered, KeepResource,
           AnsweredOddly, Failed, ReadCache, Emit, Expire, scraperVars, vars
  <2>2. Carried'
    <3>1. CASE Emit
      BY <3>1 DEF CacheInv, Emit
    <3>2. CASE DiscoverFails
      BY <3>2 DEF DiscoverFails, NoBatch
    <3>3. CASE ~Emit /\ ~DiscoverFails
      <4>1. batch' = batch
        BY <3>3 DEF Next, Tick, Shutdown, DiscoverCached, DiscoverFetch,
                    Discovered, ServiceMissing, Answered, AnsweredOddly,
                    Failed, ReadCache, Expire, vars
      <4> QED
        BY <4>1
    <3> QED
      BY <3>1, <3>2, <3>3
  <2> QED
    BY <2>1, <2>2
<1>5. Sticky => Carried
  OBVIOUS
<1>6. Spec => []CacheInv
  BY <1>1, <1>2, TypeCorrect, PTL DEF Spec
<1> QED
  BY <1>3, <1>4, <1>5, <1>6, PTL DEF Spec, ResourceSticks

-----------------------------------------------------------------------------
(* What a scrape reports.                                                   *)

\* The inductive invariant behind CapabilityGapsDontFail and FailuresReported:
\* the errors and the log of a running scrape already agree, and so do the
\* batch and the log of a finished one.
Excused(e) == \E l \in log : l.call = e.call /\ Excuse(l)

MustReport(l) == RealFailure(l) /\ l.call \in Reported \cup {"host-entry"}

ErrorsExcused ==
    \A e \in errs : e.kind \in Skips \/ e.call = "host-entry" \/ Excused(e)

ErrorsComplete ==
    \A l \in log : MustReport(l) =>
        \E e \in errs : e.call = l.call /\ e.kind \notin Skips

ReportInv ==
    /\ ErrorsExcused
    /\ ErrorsComplete
    /\ pc \in {"idle", "stopped"} =>
          \A e \in batch.failed : e.call = "host-entry" \/ Excused(e)
    /\ pc \in {"idle", "stopped"} /\ batch.error # "plain" =>
          \A l \in log : MustReport(l) =>
              \E e \in batch.failed : e.call = l.call
    /\ pc \in {"discover", "fetching"} => log = {}

\* No device answers of its own accord with an error or with an odd answer,
\* nor with a 401 to the right credentials.
LEMMA TruthIsKnown ==
    ASSUME NEW c
    PROVE  /\ Truth(c) \in {"ok", "fault", "unauthorized"}
           /\ cfg.creds = "right" => Truth(c) # "unauthorized"
BY DEF Truth

\* A call that failed adds an error that it excuses and, when it must, an
\* error that is no skip.
LEMMA FailedReports ==
    ASSUME TypeOK, NEW c \in Calls, NEW n,
           NEW outcome \in {"fault", "unauthorized", "error"},
           NEW l, l = [call |-> c, i |-> n, outcome |-> outcome]
    PROVE  /\ \A e \in ErrorsOf(c, outcome) :
                 /\ e.call = c
                 /\ e.kind \in Skips \/ e.call = "host-entry" \/ Excuse(l)
           /\ MustReport(l) =>
                 \E e \in ErrorsOf(c, outcome) : e.kind \notin Skips
<1>1. /\ Truth(c) \in {"ok", "fault", "unauthorized"}
      /\ cfg.creds = "right" => Truth(c) # "unauthorized"
  BY TruthIsKnown
<1>2. cfg.creds \in {"none", "right", "wrong"}
  BY ConfigsAssumption DEF TypeOK, Config, Credentials
<1>3. l.call = c /\ l.outcome = outcome
  OBVIOUS
<1>4. Classify(outcome) \notin Skips => Excuse(l)
  <2>1. CASE outcome = "fault"
    BY <2>1 DEF Classify, Skips
  <2>2. CASE outcome = "unauthorized"
    BY <1>1, <1>2, <1>3, <2>2 DEF Classify, Skips, Excuse, Disturbed
  <2>3. CASE outcome = "error"
    BY <1>1, <1>3, <2>3 DEF Excuse, Disturbed
  <2> QED
    BY <2>1, <2>2, <2>3
<1>5. RealFailure(l) => Classify(outcome) \notin Skips
  BY <1>3 DEF RealFailure, Classify, Skips
<1>6. CASE c \in Reported
  <2>1. ErrorsOf(c, outcome) = {[call |-> c, kind |-> Classify(outcome)]}
    BY <1>6 DEF ErrorsOf, Reported, Classified, Grouped
  <2> QED
    BY <1>4, <1>5, <2>1 DEF MustReport
<1>7. CASE c = "host-entry"
  <2>1. ErrorsOf(c, outcome) = {[call |-> c, kind |-> "failed"]}
    BY <1>7 DEF ErrorsOf, Reported, Classified, Grouped
  <2> DEFINE e == [call |-> c, kind |-> "failed"]
  <2>2. e.call = c /\ e.kind \notin Skips
    BY DEF Skips
  <2>3. e \in ErrorsOf(c, outcome)
    BY <2>1
  <2>4. \A f \in ErrorsOf(c, outcome) : f = e
    BY <2>1
  <2> HIDE DEF e
  <2> QED
    BY <1>7, <2>2, <2>3, <2>4
<1>8. CASE c \notin Reported \cup {"host-entry"}
  <2>1. ErrorsOf(c, outcome) = {}
    BY <1>8 DEF ErrorsOf
  <2> QED
    BY <1>3, <1>8, <2>1 DEF MustReport
<1> QED
  BY <1>6, <1>7, <1>8

\* One more entry in the log, with errors it excuses and, when it must be
\* reported, an error that is no skip, keeps errors and log in agreement.
LEMMA GrowReport ==
    ASSUME ErrorsExcused, ErrorsComplete, NEW l, NEW more,
           log' = log \cup {l}, errs' = errs \cup more, given' = given,
           \A e \in more : /\ e.call = l.call
                           /\ e.kind \in Skips \/ e.call = "host-entry"
                                  \/ Excuse(l),
           MustReport(l) => \E e \in more : e.kind \notin Skips
    PROVE  ErrorsExcused' /\ ErrorsComplete'
<1>1. \A k : Excuse(k)' <=> Excuse(k)
  BY DEF given, Excuse, Disturbed, Truth
<1>2. \A k : MustReport(k)' <=> MustReport(k)
  BY DEF given, MustReport, RealFailure
<1>3. ErrorsExcused'
  BY <1>1 DEF ErrorsExcused, Excused
<1>4. ErrorsComplete'
  BY <1>2 DEF ErrorsComplete
<1> QED
  BY <1>3, <1>4

LEMMA CallKeepsReport ==
    ASSUME TypeOK, ReportInv,
           ServiceMissing \/ Answered \/ AnsweredOddly \/ Failed
    PROVE  ReportInv'
<1>1. pc \in Calls /\ pc' \in Calls \cup {"resource", "emit"}
  BY CallAdvances
<1>2. pc' \notin {"idle", "stopped", "discover", "fetching"}
  BY <1>1 DEF Calls
<1> SUFFICES ErrorsExcused' /\ ErrorsComplete'
  BY <1>2 DEF ReportInv
<1>3. ErrorsExcused /\ ErrorsComplete
  BY DEF ReportInv
<1>4. CASE ServiceMissing
  <2>1. log' = log /\ given' = given
    BY <1>4 DEF ServiceMissing, given
  <2>2. \A e \in errs' : e \in errs \/ e.kind \in Skips
    BY <1>4 DEF ServiceMissing, Skips
  <2>3. errs \subseteq errs'
    BY <1>4 DEF ServiceMissing
  <2>4. \A k : Excuse(k)' <=> Excuse(k)
    BY <2>1 DEF given, Excuse, Disturbed, Truth
  <2>5. \A k : MustReport(k)' <=> MustReport(k)
    BY <2>1 DEF given, MustReport, RealFailure
  <2>6. ErrorsExcused'
    BY <1>3, <2>1, <2>2, <2>4 DEF ErrorsExcused, Excused
  <2>7. ErrorsComplete'
    BY <1>3, <2>1, <2>3, <2>5 DEF ErrorsComplete
  <2> QED
    BY <2>6, <2>7
<1>5. CASE Answered
  <2> DEFINE l == [call |-> pc, i |-> i, outcome |-> "ok"]
             more == {}
  <2>1. log' = log \cup {l} /\ errs' = errs \cup more /\ given' = given
    BY <1>5 DEF Answered, Logged, given
  <2>2. ~MustReport(l) /\ \A e \in more : FALSE
    BY DEF MustReport, RealFailure
  <2> HIDE DEF l, more
  <2> QED
    BY <1>3, <2>1, <2>2, GrowReport
<1>6. CASE AnsweredOddly
  <2> DEFINE l == [call |-> pc, i |-> i, outcome |-> "odd"]
             more == IF pc \in {"bytes-received", "packets-received"}
                     THEN {[call |-> pc, kind |-> "failed"]} ELSE {}
  <2>1. log' = log \cup {l} /\ errs' = errs \cup more /\ given' = given
    BY <1>6 DEF AnsweredOddly, Logged, given
  <2>2. ~MustReport(l)
    BY DEF MustReport, RealFailure
  <2>3. Excuse(l)
    BY TruthIsKnown DEF Excuse, Disturbed
  <2>4. \A e \in more : e.call = l.call
    OBVIOUS
  <2> HIDE DEF l, more
  <2> QED
    BY <1>3, <2>1, <2>2, <2>3, <2>4, GrowReport
<1>7. CASE Failed
  <2>1. PICK outcome \in {"fault", "unauthorized", "error"} :
           /\ Logged(outcome)
           /\ errs' = errs \cup ErrorsOf(pc, outcome)
    BY <1>7 DEF Failed
  <2> DEFINE l == [call |-> pc, i |-> i, outcome |-> outcome]
             more == ErrorsOf(pc, outcome)
  <2>2. log' = log \cup {l} /\ errs' = errs \cup more /\ given' = given
    BY <1>7, <2>1 DEF Failed, Logged, given
  <2>3. /\ \A e \in more :
              /\ e.call = l.call
              /\ e.kind \in Skips \/ e.call = "host-entry" \/ Excuse(l)
        /\ MustReport(l) => \E e \in more : e.kind \notin Skips
    BY <1>1, FailedReports
  <2> HIDE DEF l, more
  <2> QED
    BY <1>3, <2>2, <2>3, GrowReport
<1> QED
  BY <1>4, <1>5, <1>6, <1>7

LEMMA ReportStep ==
    ASSUME TypeOK, ReportInv, [Next]_vars
    PROVE  ReportInv'
<1> USE DEF ReportInv, ErrorsExcused, ErrorsComplete, Excused, Excuse, Disturbed,
            Truth, MustReport, RealFailure, given
<1>1. CASE Tick
  BY <1>1 DEF Tick
<1>2. CASE Shutdown
  BY <1>2 DEF Shutdown
<1>3. CASE DiscoverCached \/ DiscoverFetch \/ Discovered
  BY <1>3 DEF DiscoverCached, DiscoverFetch, Discovered, GoTo
<1>4. CASE DiscoverFails
  BY <1>4 DEF DiscoverFails, NoBatch
<1>5. CASE ServiceMissing \/ Answered \/ AnsweredOddly \/ Failed
  BY <1>5, CallKeepsReport
<1>6. CASE ReadCache
  BY <1>6 DEF ReadCache
<1>7. CASE Emit
  <2>1. batch'.failed = {e \in errs : e.kind \notin Skips}
    BY <1>7 DEF Emit
  <2> QED
    BY <1>7, <2>1 DEF Emit
<1>8. CASE Expire
  BY <1>8 DEF Expire
<1>9. CASE UNCHANGED vars
  BY <1>9 DEF vars
<1> QED
  BY <1>1, <1>2, <1>3, <1>4, <1>5, <1>6, <1>7, <1>8, <1>9 DEF Next

LEMMA ReportCorrect == Spec => []ReportInv
<1>1. Init => ReportInv
  BY DEF Init, NoBatch, ReportInv, ErrorsExcused, ErrorsComplete
<1>2. TypeOK /\ ReportInv /\ [Next]_vars => ReportInv'
  BY ReportStep
<1> QED
  BY <1>1, <1>2, TypeCorrect, PTL DEF Spec

\* No scrape fails for what its device or its credentials do not support.
THEOREM GapsCorrect == Spec => []CapabilityGapsDontFail
<1>1. ReportInv => CapabilityGapsDontFail
  BY DEF ReportInv, CapabilityGapsDontFail, Delivered, Excused
<1> QED
  BY <1>1, ReportCorrect, PTL

\* No scrape keeps quiet about a group it lost to a failure.
THEOREM FailuresCorrect == Spec => []FailuresReported
<1>1. ReportInv => FailuresReported
  BY DEF ReportInv, FailuresReported, Delivered, MustReport
<1> QED
  BY <1>1, ReportCorrect, PTL
=============================================================================
