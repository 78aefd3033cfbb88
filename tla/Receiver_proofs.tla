-------------------------- MODULE Receiver_proofs ---------------------------
(* Theorems about Receiver, for every configuration, initial delay, default *)
(* timeout and number of requests.                                          *)
EXTENDS Receiver, TLAPS

-----------------------------------------------------------------------------
(* The invariant.                                                           *)

\* What is known of the configuration and the client at each stage of life.
LifeInv ==
    /\ life \notin {"configured", "refused"} => Validate(cfg)
    /\ work # "none" => life \in {"running", "stopping"}
    /\ life = "failed" => ~ClientMade(cfg)
    /\ client # NoClient => /\ life \notin {"configured", "refused"}
                            /\ client = NewTR064Client(cfg)

\* With a timeout, the ticker and the running scrape are in step: a scrape and
\* its tick began together, and a tick that waits has just fired.
ClockInv ==
    /\ work \in {"none", "delay"} /\ life # "stopped" => tick = 0
    /\ cfg.timeout > 0 /\ work = "idle" /\ tick = 1 => left = cfg.interval
    /\ cfg.timeout > 0 /\ work = "scrape" =>
          \/ tick = 0 /\ elapsed + left = cfg.interval
          \/ tick = 1 /\ left = cfg.interval /\ ContextDone

IInv == TypeOK /\ LifeInv /\ ClockInv

\* Validate and newTR064Client agree on endpoints, and tls settings count for
\* https only.
LEMMA ValidIsMade ==
    ASSUME NEW c \in Config, Validate(c),
           c.endpoint.scheme = "https" => c.tls.loads
    PROVE  ClientMade(c)
BY DEF Validate, ValidEndpoint, ClientMade, NewClient, Secure

LEMMA ConfigTypes ==
    ASSUME NEW c \in Config
    PROVE  /\ c.interval \in Int /\ c.timeout \in Int
           /\ c.endpoint.scheme \in {"none", "ftp", "http", "https"}
           /\ c.endpoint.upper \in BOOLEAN
<1>1. c.interval \in Intervals /\ c.timeout \in Timeouts
  BY DEF Config
<1>2. c.endpoint \in Endpoint
  BY DEF Config
<1> QED BY <1>1, <1>2, TimesAssumption DEF Endpoint

LEMMA InitInv == Init => IInv
<1> SUFFICES ASSUME Init PROVE IInv
    OBVIOUS
<1>1. cfg.timeout \in Int
  BY ConfigTypes DEF Init
<1>2. TypeOK
  <2>1. NoClient \in [timeout : Int, tls : BOOLEAN]
    BY DEF NoClient
  <2>2. 0 \in 0 .. InitialDelay /\ 0 \in 0 .. MaxRequests
    BY TimesAssumption
  <2>3. request \in BOOLEAN /\ (request => work = "scrape")
    BY Zenon DEF Init
  <2>4. cfg.timeout > 0 => elapsed <= cfg.timeout
    BY <1>1 DEF Init
  <2> QED BY <2>1, <2>2, <2>3, <2>4 DEF Init, TypeOK
<1>3. LifeInv /\ ClockInv
  BY DEF Init, LifeInv, ClockInv
<1> QED BY <1>2, <1>3 DEF IInv

\* The steps that change no configuration, clock or scrape.
LEMMA StartKeepsInv ==
    IInv /\ (Create \/ Start \/ Shutdown \/ Stopped) => IInv'
<1> SUFFICES ASSUME IInv, Create \/ Start \/ Shutdown \/ Stopped
             PROVE  IInv'
    OBVIOUS
<1> USE DEF IInv
<1>1. CASE Create
  BY <1>1 DEF Create, TypeOK, LifeInv, ClockInv, scrape, ContextDone, NoClient
<1>2. CASE Start
  <2>1. TypeOK'
    <3>1. cfg.timeout \in Int /\ DefaultTimeout \in Int
      BY ConfigTypes, TimesAssumption DEF TypeOK
    <3>2. NewTR064Client(cfg) \in [timeout : Int, tls : BOOLEAN]
      BY <3>1 DEF NewTR064Client, Secure
    <3>3. ~request
      BY <1>2 DEF Start, TypeOK, LifeInv
    <3> QED BY <1>2, <3>2, <3>3, TimesAssumption DEF Start, TypeOK, scrape
  <2>2. LifeInv'
    BY <1>2 DEF Start, LifeInv, scrape, NoClient
  <2>3. ClockInv'
    BY <1>2 DEF Start, LifeInv, ClockInv, scrape
  <2> QED BY <2>1, <2>2, <2>3
<1>3. CASE Shutdown
  BY <1>3 DEF Shutdown, TypeOK, LifeInv, ClockInv, scrape, ContextDone
<1>4. CASE Stopped
  BY <1>4 DEF Stopped, TypeOK, LifeInv, ClockInv, scrape
<1> QED BY <1>1, <1>2, <1>3, <1>4

\* The steps of a scrape.
LEMMA ScrapeKeepsInv ==
    IInv /\ (FirstScrape \/ TakeTick \/ Send \/ Received \/ EndScrape) => IInv'
<1> SUFFICES ASSUME IInv,
                    FirstScrape \/ TakeTick \/ Send \/ Received \/ EndScrape
             PROVE  IInv'
    OBVIOUS
<1> USE DEF IInv
<1>1. cfg.interval \in Int /\ cfg.timeout \in Int
  BY ConfigTypes DEF TypeOK
<1>2. CASE FirstScrape
  <2>1. cfg.interval > 0
    BY <1>2 DEF FirstScrape, LifeInv, Validate, ValidTimes
  <2> QED BY <1>1, <1>2, <2>1, TimesAssumption
          DEF FirstScrape, BeginScrape, TypeOK, LifeInv, ClockInv
<1>3. CASE TakeTick
  BY <1>1, <1>3, TimesAssumption
     DEF TakeTick, BeginScrape, TypeOK, LifeInv, ClockInv
<1>4. CASE Send
  BY <1>1, <1>4, TimesAssumption
     DEF Send, TypeOK, LifeInv, ClockInv, ContextDone
<1>5. CASE Received
  BY <1>1, <1>5, TimesAssumption
     DEF Received, TypeOK, LifeInv, ClockInv, ContextDone
<1>6. CASE EndScrape
  BY <1>1, <1>6, TimesAssumption
     DEF EndScrape, TypeOK, LifeInv, ClockInv, scrape, ContextDone
<1> QED BY <1>2, <1>3, <1>4, <1>5, <1>6

\* A tick during a scrape finds it at its deadline, as the timeout does not
\* exceed the interval.
LEMMA TickKeepsInv == IInv /\ Tick => IInv'
<1> SUFFICES ASSUME IInv, Tick PROVE IInv'
    OBVIOUS
<1> USE DEF IInv
<1>1. cfg.interval \in Int /\ cfg.timeout \in Int
  BY ConfigTypes DEF TypeOK
<1>2. cfg.interval > 0 /\ cfg.timeout <= cfg.interval
  BY DEF Tick, Ticking, LifeInv, Validate, ValidTimes
<1>3. TypeOK' /\ LifeInv'
  BY <1>1, <1>2 DEF Tick, TypeOK, LifeInv, scrape
<1>4. ASSUME cfg.timeout > 0, work = "scrape" PROVE ContextDone
  BY <1>1, <1>2, <1>4 DEF Tick, TypeOK, ClockInv, ContextDone
<1>5. ClockInv'
  BY <1>4 DEF Tick, Ticking, ClockInv, scrape, ContextDone
<1> QED BY <1>3, <1>5

LEMMA PassKeepsInv == IInv /\ Pass => IInv'
<1> SUFFICES ASSUME IInv, Pass PROVE IInv'
    OBVIOUS
<1> USE DEF IInv
<1>1. cfg.interval \in Int /\ cfg.timeout \in Int /\ left \in Int
  BY ConfigTypes DEF TypeOK
<1>2. ASSUME work = "scrape" PROVE request /\ ~ContextDone /\ left > 0
  BY <1>2 DEF Pass, Waiting, Overdue
<1>3. TypeOK'
  BY <1>1, <1>2, TimesAssumption
     DEF Pass, Waiting, Ticking, TypeOK, ContextDone
<1>4. LifeInv'
  BY DEF Pass, LifeInv
<1>5. ClockInv'
  BY <1>1, <1>2 DEF Pass, Waiting, Ticking, TypeOK, ClockInv, ContextDone
<1> QED BY <1>3, <1>4, <1>5

LEMMA NextKeepsInv == IInv /\ [Next]_vars => IInv'
<1> SUFFICES ASSUME IInv, [Next]_vars PROVE IInv'
    OBVIOUS
<1>1. CASE UNCHANGED vars
  BY <1>1 DEF vars, IInv, TypeOK, LifeInv, ClockInv, ContextDone
<1>2. CASE Next
  BY <1>2, StartKeepsInv, ScrapeKeepsInv, TickKeepsInv, PassKeepsInv
     DEF Next, CutOff, Answer
<1> QED BY <1>1, <1>2

LEMMA InvCorrect == Spec => []IInv
BY InitInv, NextKeepsInv, PTL DEF Spec

-----------------------------------------------------------------------------
(* Theorems.                                                                *)

\* Every variable of the receiver keeps its type, and no scrape outlives its
\* timeout.
THEOREM TypeCorrect == Spec => []TypeOK
BY InvCorrect, PTL DEF IInv

\* A receiver that Validate accepted fails to start for nothing but tls
\* settings that LoadTLSConfig cannot load for an https endpoint.
THEOREM AcceptedStarts == Spec => []OnlyTLSFailsStart
<1>1. IInv => OnlyTLSFailsStart
  BY ValidIsMade DEF IInv, TypeOK, LifeInv, OnlyTLSFailsStart
<1> QED BY <1>1, InvCorrect, PTL

\* The settings for the verification of certificates reach the client of every
\* receiver whose scheme is spelled in lower case.
THEOREM VerificationCorrect == Spec => []VerificationApplied
<1>1. IInv => VerificationApplied
  <2> SUFFICES ASSUME IInv, client # NoClient, ~cfg.endpoint.upper,
                      cfg.tls.verification
               PROVE  client.tls
      BY DEF VerificationApplied
  <2>1. Validate(cfg) /\ client = NewTR064Client(cfg)
    BY DEF IInv, LifeInv
  <2>2. Secure(cfg)
    BY <2>1 DEF Validate, ValidEndpoint, ValidTLS, Secure
  <2> QED BY <2>1, <2>2 DEF NewTR064Client
<1> QED BY <1>1, InvCorrect, PTL

\* With a timeout no time passes while a tick waits, for every interval,
\* timeout and device.
THEOREM ScrapesOnTimeCorrect == Spec => ScrapesOnTime
<1>1. IInv /\ [Next]_vars
      => [cfg.timeout > 0 /\ tick = 1 => left' >= left]_vars
  <2> SUFFICES ASSUME IInv, Next, cfg.timeout > 0, tick = 1
               PROVE  left' >= left
      OBVIOUS
  <2>1. left \in Int /\ cfg.interval \in Int
    BY ConfigTypes DEF IInv, TypeOK
  <2>2. CASE Pass
    BY <2>1, <2>2
       DEF IInv, LifeInv, ClockInv, Pass, Waiting, Overdue
  <2>3. CASE Tick
    BY <2>1, <2>3 DEF IInv, LifeInv, Tick, Ticking, Validate, ValidTimes
  <2>4. CASE FirstScrape
    BY <2>4 DEF IInv, LifeInv, ClockInv, FirstScrape
  <2>5. CASE Create \/ Start \/ TakeTick \/ Send \/ Received \/ EndScrape
             \/ Shutdown \/ Stopped
    BY <2>1, <2>5
       DEF Create, Start, TakeTick, BeginScrape, Send, Received, EndScrape,
           Shutdown, Stopped
  <2> QED BY <2>2, <2>3, <2>4, <2>5 DEF Next, CutOff, Answer
<1> QED BY <1>1, InvCorrect, PTL DEF Spec, ScrapesOnTime
=============================================================================
