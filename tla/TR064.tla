------------------------------- MODULE TR064 --------------------------------
(* Action calls of a TR-064 client on a Fritz!Box:                          *)
(* receiver/fritzbox/internal/tr064/client.go over digest.go, against the   *)
(* device of internal/fakebox, through a network that delays and loses.     *)
(*                                                                          *)
(* The receiver makes its calls one at a time.  A call sends a request with *)
(* the cached digest, answers one 401 challenge with a second request, and  *)
(* returns.  A call that times out leaves its request behind: the box may   *)
(* serve it at any later time.  A collector restart starts with an empty    *)
(* digest cache while the box keeps its nonce and the last count.           *)
EXTENDS FakeBox

CONSTANTS
    Actions,    \* the SOAP actions a call may invoke
    NoAuth,     \* the actions the box answers without authentication
    Answer,     \* what the box answers to each action once it may run
    MaxCalls,   \* bound: calls made in a behavior
    MaxFaults   \* bound: rotations, outages, restarts and stray 401s

Answers == {"ok", "fault", "notfound", "malformed"}

ASSUME ActionsAssumption == NoAuth \subseteq Actions
ASSUME AnswerAssumption  == Answer \in [Actions -> Answers]
ASSUME BoundsAssumption  == MaxCalls \in Nat /\ MaxFaults \in Nat

Credentials == {"none", "right", "wrong"}
Attempts    == {"first", "retry"}
Outcomes    == {"none", "ok", "fault", "unauthorized", "error"}

Request == [call : Nat, attempt : Attempts, action : Actions,
            creds : Credentials, header : Header]

NoReply == [kind |-> "none", nonce |-> NoNonce]
Kinds   == Answers \cup {"none", "challenge", "unusable", "unavailable"}
Reply   == [kind : Kinds, nonce : Nat]

VARIABLES
    creds,     \* the configured credentials (Client.username, password)
    auth,      \* Client.auth, the digest cache
    pc,        \* "idle", or the attempt whose answer the call waits for
    cur,       \* that attempt's request (the last one sent, when idle)
    outcome,   \* what the last call returned, "none" while one is running
    net,       \* requests sent that the box has not served
    reply,     \* the answer on its way to the running call
    box,       \* the device
    calls,     \* calls made so far
    faults,    \* disturbances so far
    restarts,  \* collector restarts so far
    seen,      \* what befell the current call (only properties read it)
    failed     \* undisturbed calls refused since the last disturbance,
               \* with the right credentials (only properties read it)

clientVars == <<creds, auth, pc, cur, outcome>>
histVars   == <<seen, failed>>
vars == <<creds, auth, pc, cur, outcome, net, reply, box, calls, faults,
          restarts, seen, failed>>

Events == Verdicts \cup {"disturbed", "intercepted"}

TypeOK ==
    /\ creds \in Credentials
    /\ auth \in DigestAuth
    /\ pc \in Attempts \cup {"idle"}
    /\ pc # "idle" => cur \in Request
    /\ outcome \in Outcomes
    /\ net \subseteq Request
    /\ reply \in Reply
    /\ box \in Box
    /\ calls \in Nat /\ faults \in Nat /\ restarts \in Nat /\ failed \in Nat
    /\ seen \subseteq Events

NoRequest == [call |-> 0, attempt |-> "first", action |-> "none",
              creds |-> "none", header |-> NoHeader]

Init ==
    /\ creds \in Credentials
    /\ auth = NewDigestAuth
    /\ pc = "idle" /\ cur = NoRequest /\ outcome = "none"
    /\ net = {} /\ reply = NoReply
    /\ box = NewBox
    /\ calls = 0 /\ faults = 0 /\ restarts = 0
    /\ seen = {} /\ failed = 0

-----------------------------------------------------------------------------
(* The client.                                                              *)

\* Send one request of call n with the digest state d: with a username, the
\* header comes from authorizationFor, which counts.
Send(n, attempt, action, d) ==
    LET header == IF creds = "none" THEN NoHeader ELSE AuthorizationFor(d)
        request == [call |-> n, attempt |-> attempt, action |-> action,
                    creds |-> creds, header |-> header]
    IN  /\ auth' = IF creds = "none" THEN d ELSE Counted(d)
        /\ cur' = request
        /\ net' = net \cup {request}
        /\ pc' = attempt

\* CallWithArgs up to its first doCall: the cached digest goes along
\* preemptively.
Begin(action) ==
    /\ pc = "idle" /\ calls < MaxCalls
    /\ calls' = calls + 1
    /\ Send(calls + 1, "first", action, auth)
    /\ outcome' = "none" /\ seen' = {}
    /\ UNCHANGED <<creds, reply, box, faults, restarts, failed>>

\* Mutant: only a call without a cached challenge answers a 401.
AuthenticateOnce ==
    /\ pc = "first" /\ creds # "none" /\ ~Cached(auth)
    /\ reply.kind \in {"challenge", "unusable"}

\* Whether the first answer sends the call into its retry branch.
MustAuthenticate ==
    pc = "first" /\ creds # "none" /\ reply.kind \in {"challenge", "unusable"}

\* Mutant: a SOAP fault, which is an HTTP 500, is tried again.
RetryFaults ==
    /\ \/ MustAuthenticate /\ reply.kind = "challenge"
       \/ pc = "first" /\ reply.kind = "fault"
    /\ Send(cur.call, "retry", cur.action,
            IF reply.kind = "fault" THEN auth
                                    ELSE UpdateChallenge(auth, reply.nonce))
    /\ reply' = NoReply
    /\ UNCHANGED <<creds, outcome, box, calls, faults, restarts, histVars>>

\* A usable 401 challenge is cached and answered once.
Retry ==
    /\ MustAuthenticate /\ reply.kind = "challenge"
    /\ Send(cur.call, "retry", cur.action, UpdateChallenge(auth, reply.nonce))
    /\ reply' = NoReply
    /\ UNCHANGED <<creds, outcome, box, calls, faults, restarts, histVars>>

\* Mutant: a timed out call leaves its answer to the next one.
FinishKeepingReply(result) ==
    /\ pc' = "idle" /\ outcome' = result
    /\ UNCHANGED <<creds, auth, cur, net, reply, box, calls, faults, restarts,
                   histVars>>

\* The call came to nothing because the box did not authorize it.
Refused(result) ==
    \/ result = "unauthorized"
    \/ result = "fault" /\ cur.action \notin NoAuth /\ "authorized" \notin seen

\* Mutant: a call that ends unauthorized drops the cached challenge, and the
\* count with it.
FinishForgetting(result) ==
    /\ pc' = "idle" /\ outcome' = result /\ reply' = NoReply
    /\ auth' = IF result = "unauthorized" THEN NewDigestAuth ELSE auth
    /\ failed' = IF Refused(result) /\ creds = "right" /\ "disturbed" \notin seen
                 THEN failed + 1 ELSE failed
    /\ UNCHANGED <<creds, cur, net, box, calls, faults, restarts, seen>>

\* The call returns result; an undisturbed refusal is counted.
Finish(result) ==
    /\ pc' = "idle" /\ outcome' = result /\ reply' = NoReply
    /\ failed' = IF Refused(result) /\ creds = "right" /\ "disturbed" \notin seen
                 THEN failed + 1 ELSE failed
    /\ UNCHANGED <<creds, auth, cur, net, box, calls, faults, restarts, seen>>

\* updateChallenge refuses the challenge: an error, the digest cache is kept.
GiveUp ==
    /\ MustAuthenticate /\ reply.kind = "unusable"
    /\ Finish("error")

\* Mutant: the status check forgets the answers that are neither 401 nor 200.
UncheckedStatus(kind) ==
    CASE kind \in {"challenge", "unusable"} -> "unauthorized"
      [] OTHER -> kind

\* Any other answer ends the call: a 401 is ErrUnauthorized, a SOAP fault an
\* *Error, any other status or an unreadable body a plain error.
Result(kind) ==
    CASE kind \in {"challenge", "unusable"} -> "unauthorized"
      [] kind = "ok"    -> "ok"
      [] kind = "fault" -> "fault"
      [] OTHER          -> "error"

Return ==
    /\ pc # "idle" /\ reply.kind # "none" /\ ~MustAuthenticate
    /\ Finish(Result(reply.kind))

\* The HTTP client's timeout or the scrape's context ends the wait, even when
\* the answer is on its way.  The request is not recalled.
Timeout ==
    /\ pc # "idle"
    /\ Finish("error")

-----------------------------------------------------------------------------
(* The box and the network.                                                 *)

Awaited(r) == pc # "idle" /\ r = cur /\ reply = NoReply

\* Deliver an answer to request r and note the event, if r is still awaited.
Respond(r, kind, nonce, events) ==
    IF Awaited(r)
    THEN /\ reply' = [kind |-> kind, nonce |-> nonce]
         /\ seen' = seen \cup events
    ELSE UNCHANGED <<reply, seen>>

\* ServeHTTP while the box is up: serveSOAP looks for the action's service,
\* authorizes the request and answers.
Serve(r) ==
    /\ ~box.down
    /\ net' = net \ {r}
    /\ IF r.action \in NoAuth \/ Answer[r.action] = "notfound"
       THEN /\ Respond(r, Answer[r.action], NoNonce, {})
            /\ UNCHANGED box
       ELSE LET b == WithNonce(box)
                v == Verdict(b, r.header, r.creds)
            IN  /\ box' = Judged(b, r.header, v)
                /\ IF v = "authorized"
                   THEN Respond(r, Answer[r.action], NoNonce, {v})
                   ELSE \E kind \in Refusals(v) :
                           Respond(r, kind,
                                   IF kind = "challenge" THEN b.nonce
                                                         ELSE NoNonce, {v})
    /\ UNCHANGED <<clientVars, calls, faults, restarts, failed>>

\* ServeHTTP while the box is down.
Unavailable(r) ==
    /\ box.down
    /\ net' = net \ {r}
    /\ Respond(r, "unavailable", NoNonce, {})
    /\ UNCHANGED <<clientVars, box, calls, faults, restarts, failed>>

Lose(r) ==
    /\ net' = net \ {r}
    /\ UNCHANGED <<clientVars, reply, box, calls, faults, restarts, histVars>>

-----------------------------------------------------------------------------
(* Disturbances, at most MaxFaults of them.                                 *)

Disturb(events) ==
    /\ faults < MaxFaults
    /\ faults' = faults + 1
    /\ seen' = seen \cup {"disturbed"} \cup events /\ failed' = 0

Rotate ==
    /\ Disturb({})
    /\ box.nonce # NoNonce
    /\ box' = RotateNonce(box)
    /\ UNCHANGED <<clientVars, net, reply, calls, restarts>>

GoDown ==
    /\ Disturb({})
    /\ ~box.down
    /\ box' = SetDown(box, TRUE)
    /\ UNCHANGED <<clientVars, net, reply, calls, restarts>>

ComeBack ==
    /\ box.down
    /\ box' = SetDown(box, FALSE)
    /\ UNCHANGED <<clientVars, net, reply, calls, faults, restarts, histVars>>

\* Something on the way answers 401 with a challenge updateChallenge refuses.
Intercept(r) ==
    /\ Disturb({"intercepted"})
    /\ Awaited(r)
    /\ net' = net \ {r}
    /\ reply' = [kind |-> "unusable", nonce |-> NoNonce]
    /\ UNCHANGED <<clientVars, box, calls, restarts>>

\* The collector is restarted, perhaps with other credentials: NewClient.
Restart(newCreds) ==
    /\ Disturb({})
    /\ restarts' = restarts + 1
    /\ creds' = newCreds
    /\ auth' = NewDigestAuth
    /\ pc' = "idle" /\ outcome' = "none" /\ reply' = NoReply
    /\ UNCHANGED <<cur, net, box, calls>>

-----------------------------------------------------------------------------
Next ==
    \/ \E action \in Actions : Begin(action)
    \/ Retry
    \/ GiveUp
    \/ Return
    \/ Timeout
    \/ \E r \in net : Serve(r)
    \/ \E r \in net : Unavailable(r)
    \/ \E r \in net : Lose(r)
    \/ \E r \in net : Intercept(r)
    \/ Rotate
    \/ GoDown
    \/ ComeBack
    \/ \E newCreds \in Credentials : Restart(newCreds)

\* newTR064Client gives every request a timeout (10 s when none is set).
Fairness == WF_vars(Timeout)

Spec == Init /\ [][Next]_vars /\ Fairness
-----------------------------------------------------------------------------
(* Properties.                                                              *)

\* The box's nonce, if it has one, is the last one issued, and nobody knows a
\* later one.
NoncesIssued ==
    /\ box.nonce \in {NoNonce, box.issued}
    /\ box.nonce = NoNonce => box.lastNC = 0
    /\ auth.nonce <= box.issued
    /\ reply.nonce <= box.issued
    /\ \A r \in net : r.header.nonce <= box.issued

\* The client's count is ahead of the box's and of every request under way;
\* a nonce the client does not hold has not been used.
CountsAhead ==
    /\ box.lastNC <= IF box.nonce = auth.nonce THEN auth.nonceCnt ELSE 0
    /\ reply.kind = "challenge" => reply.nonce >= auth.nonce
    /\ \A r \in net :
          /\ r.header.nonce <= auth.nonce
          /\ r.header.nonce = auth.nonce => r.header.nc <= auth.nonceCnt

\* The header the call waits for has the client's last count, ahead of every
\* abandoned request and of the box.
AwaitedIsLatest ==
    pc # "idle" /\ cur.header # NoHeader =>
        /\ cur.header = [nonce |-> auth.nonce, nc |-> auth.nonceCnt]
        /\ \A r \in net \ {cur} :
              r.header.nonce = auth.nonce => r.header.nc < auth.nonceCnt
        /\ cur \in net /\ box.nonce = auth.nonce => box.lastNC < auth.nonceCnt

\* The inductive invariant behind FreshCount: until the collector is restarted
\* (which forgets the counts), the digest cache accounts for every header
\* ever sent with the cached nonce.
CountInv ==
    /\ NoncesIssued
    /\ restarts = 0 => CountsAhead /\ AwaitedIsLatest

\* While the collector has not been restarted, a header under way to the box
\* for the box's current nonce carries a count the box has not yet accepted,
\* whatever older requests were abandoned, lost or served late (digest.go's
\* promise that every request increments nc for the cached nonce).
FreshCount ==
    restarts = 0 /\ pc # "idle" /\ cur \in net
        /\ cur.header # NoHeader /\ cur.header.nonce = box.nonce
        => cur.header.nc > box.lastNC

\* The right credentials are refused only in a call that something disturbed:
\* an expired nonce, an abandoned call or an outage before the call never
\* makes CallWithArgs return ErrUnauthorized, its one retry is enough.
RightCredentialsAccepted ==
    outcome = "unauthorized" /\ creds = "right" /\ restarts = 0
        => "disturbed" \in seen

\* Data of a protected action answers a request of this very call, that the
\* box authorized.  So does a SOAP fault, unless the collector was restarted
\* before: an unrestarted client never sees the spurious fault the box has
\* for a repeated count, whatever it abandoned, and a restarted one only in a
\* call that repeated a count.
AnswerWasAuthorized ==
    outcome \in {"ok", "fault"} /\ cur.action \notin NoAuth =>
        \/ "authorized" \in seen /\ cur.creds = "right"
        \/ outcome = "fault" /\ restarts # 0 /\ "replayed" \in seen

\* After a restart the client meets a nonce whose counts it has forgotten.
\* The box refuses its calls, with ErrUnauthorized or with a fault that says
\* nothing of a nonce, but every one of them takes the client's count further:
\* at most as many are refused as the box remembers counts.
RecoversWithinBound == failed <= box.lastNC

\* A call as TR064Call promises it: running while pc is not idle, authorized
\* when the box authorized one of its own requests while it was waited for.
Call == INSTANCE TR064Call WITH
            running    <- pc # "idle",
            action     <- cur.action,
            authorized <- "authorized" \in seen,
            restarted  <- restarts # 0

\* CallWithArgs keeps that promise over late, lost and abandoned requests,
\* rotated nonces, outages and restarts: it invokes an action at most once,
\* returns once, returns no data the box did not authorize, and no fault
\* either before the first restart.
ImplementsCall == Call!Spec

\* What classifyCallError takes ErrUnauthorized to mean when credentials are
\* configured: the device, and nothing on the way to it, rejected them.
UnauthorizedMeansRejected ==
    outcome = "unauthorized" /\ creds # "none" /\ "intercepted" \notin seen
        => "rejected" \in seen
=============================================================================
