------------------------------ MODULE Receiver ------------------------------
(* The receiver's life and its time: config.go, factory.go, the start and   *)
(* shutdown of scraper.go, NewClient of tr064/client.go, and the controller *)
(* of scraperhelper that runs them (external).                              *)
(*                                                                          *)
(* A configuration is validated, a client is made of it, and the controller *)
(* scrapes at every tick.  A scrape is a sequence of requests, each ended   *)
(* by an answer, by the timeout of the HTTP client or by the context of the *)
(* scrape.  Time passes only while everybody waits: what the collector      *)
(* computes takes none.                                                     *)
EXTENDS Integers

CONSTANTS
    Intervals, Timeouts,  \* bound: the values of collection_interval, timeout
    InitialDelay,         \* initial_delay
    DefaultTimeout,       \* of the HTTP client: 10 s
    MaxRequests           \* bound: requests of one scrape

ASSUME TimesAssumption ==
    /\ Intervals \subseteq Int /\ Timeouts \subseteq Int
    /\ InitialDelay \in Nat /\ DefaultTimeout \in Nat \ {0}
    /\ MaxRequests \in Nat

\* url.Parse: the scheme comes out in lower case, however it was spelled.
Endpoint == [scheme : {"none", "ftp", "http", "https"}, host : BOOLEAN,
             upper : BOOLEAN]

\* The tls settings: is one of the four set that Validate looks for on an
\* http endpoint, does configtls validate them, and does it load them?  It
\* validates much that it then cannot load: a file that is missing or no PEM,
\* a certificate without its key, a cipher suite it does not know.
TLS == [verification : BOOLEAN, valid : BOOLEAN, loads : BOOLEAN]

Config == [endpoint : Endpoint, tls : TLS, username : BOOLEAN,
           password : BOOLEAN, interval : Intervals, timeout : Timeouts]

VARIABLES
    cfg,     \* the configuration, fixed
    life,    \* of the receiver
    client,  \* the HTTP client: its timeout, 0 for none, and tls
    work,    \* what the controller's goroutine does
    wait,    \* what is left of the initial delay
    left,    \* time until the next tick of the ticker
    tick,    \* ticks in the ticker's channel, which holds one
    request, \* is a request under way?
    spent,   \* time since it was sent, as far as the client's timeout counts
    elapsed, \* time since the scrape began, as far as its context counts
    requests \* requests the scrape has made

scrape == <<request, spent, elapsed, requests>>
vars == <<cfg, life, client, work, wait, left, tick, request, spent, elapsed,
          requests>>

NoClient == [timeout |-> 0, tls |-> FALSE]

TypeOK ==
    /\ cfg \in Config
    /\ life \in {"configured", "refused", "created", "failed", "running",
                 "stopping", "stopped"}
    /\ client \in [timeout : Int, tls : BOOLEAN]
    /\ work \in {"none", "delay", "idle", "scrape"}
    /\ wait \in 0 .. InitialDelay
    /\ left \in 0 .. cfg.interval \/ left = 0
    /\ tick \in {0, 1}
    /\ request \in BOOLEAN /\ (request => work = "scrape")
    /\ spent \in Nat /\ elapsed \in Nat
    /\ cfg.timeout > 0 => elapsed <= cfg.timeout
    /\ requests \in 0 .. MaxRequests

\* defaultConfig, and whatever a user makes of it.
Init ==
    /\ cfg \in Config /\ life = "configured" /\ client = NoClient
    /\ work = "none" /\ wait = 0 /\ left = 0 /\ tick = 0
    /\ request = FALSE /\ spent = 0 /\ elapsed = 0 /\ requests = 0

-----------------------------------------------------------------------------
(* Configuration and creation.                                              *)

(* Config.Validate, check by check. *)

\* Mutant: the host is not looked at.
AnyHost(c) == c.endpoint.scheme \in {"http", "https"}

ValidEndpoint(c) == c.endpoint.scheme \in {"http", "https"} /\ c.endpoint.host

\* Mutant: tls settings of an http endpoint are let through.
AnyHTTP(c) == c.endpoint.scheme = "https" => c.tls.valid

ValidTLS(c) ==
    /\ c.endpoint.scheme = "https" => c.tls.valid
    /\ c.endpoint.scheme = "http" => ~c.tls.verification

\* Mutant: the timeout may exceed the interval.
AnyTimeout(c) == c.interval > 0 /\ c.timeout >= 0

ValidTimes(c) == c.interval > 0 /\ c.timeout >= 0 /\ c.timeout <= c.interval

Validate(c) ==
    /\ ValidEndpoint(c) /\ ValidTLS(c)
    /\ c.username = c.password
    /\ ValidTimes(c)

\* createMetricsReceiver.
Create ==
    /\ life = "configured"
    /\ life' = IF Validate(cfg) THEN "created" ELSE "refused"
    /\ UNCHANGED <<cfg, client, work, wait, left, tick, scrape>>

\* tr064.NewClient.
NewClient(endpoint) == endpoint.scheme # "none" /\ endpoint.host

\* newTR064Client looks for "https://" as it is spelled.
Secure(c) == c.endpoint.scheme = "https" /\ ~c.endpoint.upper

\* newTR064Client succeeds unless LoadTLSConfig or NewClient fails.
ClientMade(c) == NewClient(c.endpoint) /\ (Secure(c) => c.tls.loads)

\* Mutant: no timeout but the configured one.
ClientAsConfigured(c) == [timeout |-> c.timeout, tls |-> Secure(c)]

NewTR064Client(c) ==
    [timeout |-> IF c.timeout > 0 THEN c.timeout ELSE DefaultTimeout,
     tls |-> Secure(c)]

\* start, and the controller's goroutine after it.
Start ==
    /\ life = "created"
    /\ \/ /\ ClientMade(cfg)
          /\ life' = "running" /\ client' = NewTR064Client(cfg)
          /\ work' = "delay" /\ wait' = InitialDelay
       \/ /\ ~ClientMade(cfg)
          /\ life' = "failed" /\ UNCHANGED <<client, work, wait>>
    /\ UNCHANGED <<cfg, left, tick, scrape>>

-----------------------------------------------------------------------------
(* Scrapes.                                                                 *)

BeginScrape ==
    /\ work' = "scrape" /\ elapsed' = 0 /\ requests' = 0
    /\ UNCHANGED <<request, spent>>

\* After the initial delay the ticker starts, and so does a first scrape.
FirstScrape ==
    /\ work = "delay" /\ wait = 0
    /\ left' = cfg.interval /\ tick' = 0
    /\ BeginScrape
    /\ UNCHANGED <<cfg, life, client, wait>>

\* The goroutine takes a tick.  With done closed as well it may still choose
\* the tick: select prefers neither.
TakeTick ==
    /\ work = "idle" /\ tick = 1
    /\ tick' = 0
    /\ BeginScrape
    /\ UNCHANGED <<cfg, life, client, wait, left>>

\* Mutant: the requests have no context.
NoContext == FALSE

\* Is the context of the scrape done?  Without a timeout it never is.
ContextDone == cfg.timeout > 0 /\ elapsed = cfg.timeout

\* doCall, FetchURL, Services: a request with the context of the scrape.
Send ==
    /\ work = "scrape" /\ ~request /\ requests < MaxRequests /\ ~ContextDone
    /\ request' = TRUE /\ spent' = 0 /\ requests' = requests + 1
    /\ UNCHANGED <<cfg, life, client, work, wait, left, tick, elapsed>>

\* The request ends: the device answers, the client's timeout or the context
\* cuts it off.
Received ==
    /\ request
    /\ request' = FALSE /\ spent' = 0
    /\ UNCHANGED <<cfg, life, client, work, wait, left, tick, elapsed,
                   requests>>

Overdue == request /\ (ContextDone \/ (client.timeout > 0
                                       /\ spent = client.timeout))

CutOff == Overdue /\ Received

Answer == ~Overdue /\ Received

\* scrape returns; requests made with a finished context fail at once.
EndScrape ==
    /\ work = "scrape" /\ ~request
    /\ work' = "idle"
    /\ UNCHANGED <<cfg, life, client, wait, left, tick, scrape>>

-----------------------------------------------------------------------------
(* Shutdown and time.                                                       *)

\* The controller's Shutdown closes done and waits for the goroutine; the
\* context of a running scrape is not cancelled.  A receiver may be shut down
\* before it was started.
Shutdown ==
    /\ life \in {"created", "running"}
    /\ life' = "stopping"
    /\ UNCHANGED <<cfg, client, work, wait, left, tick, scrape>>

\* The goroutine notices, then shutdown closes the idle connections.
Stopped ==
    /\ life = "stopping" /\ work \in {"none", "delay", "idle"}
    /\ life' = "stopped" /\ work' = "none"
    /\ UNCHANGED <<cfg, client, wait, left, tick, scrape>>

Ticking == work \in {"idle", "scrape"}

\* A tick that finds the channel full is dropped.
Tick ==
    /\ Ticking /\ left = 0
    /\ left' = cfg.interval /\ tick' = 1
    /\ UNCHANGED <<cfg, life, client, work, wait, scrape>>

\* Does everybody wait for time to pass?
Waiting ==
    \/ work = "delay" /\ wait > 0 /\ life = "running"
    \/ work = "idle" /\ tick = 0 /\ life = "running" /\ left > 0
    \/ work = "scrape" /\ request /\ ~Overdue /\ left > 0

Pass ==
    /\ Waiting
    /\ wait' = IF work = "delay" THEN wait - 1 ELSE wait
    /\ left' = IF Ticking THEN left - 1 ELSE left
    /\ spent' = IF request /\ client.timeout > 0 THEN spent + 1 ELSE spent
    /\ elapsed' = IF work = "scrape" /\ cfg.timeout > 0 THEN elapsed + 1
                                                        ELSE elapsed
    /\ UNCHANGED <<cfg, life, client, work, tick, request, requests>>

Next ==
    \/ Create \/ Start \/ FirstScrape \/ TakeTick \/ Send \/ CutOff \/ Answer
    \/ EndScrape \/ Shutdown \/ Stopped \/ Tick \/ Pass

\* Time passes, the goroutine goes on, what is overdue is cut off, and select
\* does not choose the tick for ever; the device need not answer, and nobody
\* need shut the receiver down.
Fairness ==
    /\ WF_vars(Create) /\ WF_vars(Start) /\ WF_vars(FirstScrape)
    /\ WF_vars(TakeTick) /\ WF_vars(CutOff) /\ WF_vars(EndScrape)
    /\ SF_vars(Stopped) /\ WF_vars(Tick) /\ WF_vars(Pass)

Spec == Init /\ [][Next]_vars /\ Fairness

-----------------------------------------------------------------------------
(* Properties.                                                              *)

\* What Validate accepted fails to start for one reason only, tls settings of
\* an https endpoint that LoadTLSConfig cannot load: tls settings that do not
\* apply never get in the way, and NewClient, in another package, refuses no
\* endpoint that Validate let through.
OnlyTLSFailsStart ==
    life = "failed" => cfg.endpoint.scheme = "https" /\ ~cfg.tls.loads

\* The settings for the verification of certificates are never ignored: a
\* receiver that runs with them has put them into its client (Config.TLS's
\* comment), provided the scheme is spelled in lower case.
VerificationApplied ==
    client # NoClient /\ ~cfg.endpoint.upper /\ cfg.tls.verification
    => client.tls

\* With a timeout every scrape begins at the moment of its tick: no time
\* passes while a tick waits, so none is dropped, whatever the device does.
ScrapesOnTime ==
    [][cfg.timeout > 0 /\ tick = 1 => left' >= left]_vars

\* With or without a timeout every scrape ends, though the device answers
\* nothing.
ScrapeEnds == work = "scrape" ~> work # "scrape"

\* Shutdown comes to its end, though it waits for a running scrape and may
\* have to wait for another.
ShutdownCompletes == life = "stopping" ~> life = "stopped"
=============================================================================
