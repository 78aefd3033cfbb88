---------------------------- MODULE TR064_proofs ----------------------------
(* Proofs about TR064 for every set of actions, every device and any number *)
(* of calls and disturbances.                                               *)
EXTENDS TR064, TLAPS

-----------------------------------------------------------------------------
(* What the operations of digest.go and of the box return.                  *)

\* The digest operations keep the shape of the cache and of a header.
LEMMA DigestTypes ==
    ASSUME NEW d \in DigestAuth, NEW n \in Nat
    PROVE  /\ Counted(d) \in DigestAuth
           /\ AuthorizationFor(d) \in Header
           /\ UpdateChallenge(d, n) \in DigestAuth
BY DEF DigestAuth, Header, Counted, AuthorizationFor, UpdateChallenge, Cached,
       NoHeader, NoNonce

\* authorizationFor returns no header, or the cached nonce with a count that
\* no header of this cache has carried.
LEMMA HeaderIsNew ==
    ASSUME NEW d \in DigestAuth, AuthorizationFor(d) # NoHeader
    PROVE  /\ AuthorizationFor(d) = [nonce |-> d.nonce, nc |-> d.nonceCnt + 1]
           /\ Counted(d) = [nonce |-> d.nonce, nonceCnt |-> d.nonceCnt + 1]
BY DEF DigestAuth, Counted, AuthorizationFor, Cached

\* authorizationFor never changes the nonce and never takes a count back.
LEMMA CountedGrows ==
    ASSUME NEW d \in DigestAuth
    PROVE  /\ Counted(d).nonce = d.nonce
           /\ Counted(d).nonceCnt >= d.nonceCnt
           /\ AuthorizationFor(d).nonce = d.nonce
BY DEF DigestAuth, Counted, AuthorizationFor, Cached, NoHeader, NoNonce

\* The box's operations keep the shape of its state.
LEMMA BoxTypes ==
    ASSUME NEW b \in Box, NEW h \in Header, NEW v
    PROVE  /\ WithNonce(b) \in Box
           /\ Judged(b, h, v) \in Box
           /\ RotateNonce(b) \in Box
           /\ SetDown(b, TRUE) \in Box /\ SetDown(b, FALSE) \in Box
<1>1. WithNonce(b) \in Box
  <2>1. CASE b.nonce # NoNonce
    BY <2>1 DEF WithNonce
  <2>2. CASE b.nonce = NoNonce
    <3>1. WithNonce(b) = [nonce |-> b.issued + 1, lastNC |-> 0,
                          issued |-> b.issued + 1, down |-> b.down]
      BY <2>2 DEF Box, WithNonce
    <3>2. QED
      BY <3>1 DEF Box
  <2>3. QED
    BY <2>1, <2>2
<1>2. Judged(b, h, v) \in Box
  BY DEF Box, Header, Judged
<1>3. RotateNonce(b) \in Box
  BY DEF Box, RotateNonce, NoNonce
<1>4. SetDown(b, TRUE) \in Box /\ SetDown(b, FALSE) \in Box
  BY DEF Box, SetDown
<1>5. QED
  BY <1>1, <1>2, <1>3, <1>4

\* authorize gives one of its verdicts.
LEMMA VerdictTypes ==
    ASSUME NEW b, NEW h, NEW c
    PROVE  Verdict(b, h, c) \in Verdicts
BY DEF Verdict, Verdicts

-----------------------------------------------------------------------------
(* Type correctness.                                                        *)

\* What Send leaves in the client and in the network.
LEMMA SendTypes ==
    ASSUME NEW n \in Nat, NEW attempt \in Attempts, NEW action \in Actions,
           NEW d \in DigestAuth, creds \in Credentials, net \subseteq Request,
           Send(n, attempt, action, d)
    PROVE  /\ auth' \in DigestAuth
           /\ pc' \in Attempts \cup {"idle"}
           /\ cur' \in Request
           /\ net' \subseteq Request
<1>1. AuthorizationFor(d) \in Header /\ Counted(d) \in DigestAuth
  BY DigestTypes, 0 \in Nat
<1>2. NoHeader \in Header
  BY DEF NoHeader, NoNonce, Header
<1>3. cur' \in Request
  BY <1>1, <1>2 DEF Send, Request
<1>4. QED
  BY <1>1, <1>3 DEF Send

\* What a returning call leaves.
LEMMA FinishTypes ==
    ASSUME TypeOK, NEW result \in Outcomes, Finish(result)
    PROVE  TypeOK'
<1>1. failed' \in Nat
  BY DEF TypeOK, Finish
<1>2. reply' \in Reply
  BY DEF Finish, NoReply, Reply, Kinds, NoNonce
<1>3. QED
  BY <1>1, <1>2 DEF TypeOK, Finish

\* Every state of TR064 is of the stated type.
THEOREM TypeCorrect == Spec => []TypeOK
<1>1. Init => TypeOK
  BY DEF Init, TypeOK, NewDigestAuth, DigestAuth, NewBox, Box, NoReply, Reply,
         Kinds, NoNonce, Outcomes, Events
<1>2. TypeOK /\ [Next]_vars => TypeOK'
  <2> SUFFICES ASSUME TypeOK, [Next]_vars PROVE TypeOK'
    OBVIOUS
  <2>1. ASSUME NEW action \in Actions, Begin(action) PROVE TypeOK'
    <3>1. /\ auth' \in DigestAuth /\ pc' \in Attempts \cup {"idle"}
          /\ cur' \in Request /\ net' \subseteq Request
      BY <2>1, SendTypes DEF TypeOK, Begin, Attempts
    <3>2. QED
      BY <2>1, <3>1 DEF TypeOK, Begin, Outcomes
  <2>2. CASE Retry
    <3>1. /\ cur \in Request /\ reply.nonce \in Nat
          /\ cur.call \in Nat /\ cur.action \in Actions
      BY <2>2 DEF TypeOK, Retry, MustAuthenticate, Reply, Request
    <3>2. UpdateChallenge(auth, reply.nonce) \in DigestAuth
      BY <3>1, DigestTypes DEF TypeOK
    <3>3. /\ auth' \in DigestAuth /\ pc' \in Attempts \cup {"idle"}
          /\ cur' \in Request /\ net' \subseteq Request
      BY <2>2, <3>1, <3>2, SendTypes DEF TypeOK, Retry, Attempts
    <3>4. QED
      BY <2>2, <3>3 DEF TypeOK, Retry, NoReply, Reply, Kinds, NoNonce, histVars
  <2>3. CASE GiveUp
    BY <2>3, FinishTypes DEF GiveUp, Outcomes
  <2>4. CASE Return
    <3>1. Result(reply.kind) \in Outcomes
      BY DEF Result, Outcomes
    <3>2. QED
      BY <2>4, <3>1, FinishTypes DEF Return
  <2>5. CASE Timeout
    BY <2>5, FinishTypes DEF Timeout, Outcomes
  <2>6. ASSUME NEW r \in net, Serve(r) PROVE TypeOK'
    <3>1. r \in Request /\ r.header \in Header /\ r.action \in Actions
      BY DEF TypeOK, Request
    <3>2. Answer[r.action] \in Kinds
      BY <3>1, AnswerAssumption DEF Kinds
    <3>3. WithNonce(box) \in Box /\ WithNonce(box).nonce \in Nat
      BY <3>1, BoxTypes DEF TypeOK, Box
    <3>4. box' \in Box
      BY <2>6, <3>1, <3>3, BoxTypes DEF Serve, TypeOK
    <3>5. reply' \in Reply
      BY <2>6, <3>2, <3>3
         DEF Serve, TypeOK, Respond, Refusals, Reply, Kinds, Answers, NoNonce
    <3>6. seen' \subseteq Events
      BY <2>6, VerdictTypes DEF Serve, TypeOK, Respond, Events
    <3>7. QED
      BY <2>6, <3>4, <3>5, <3>6 DEF Serve, TypeOK, clientVars
  <2>7. ASSUME NEW r \in net, Unavailable(r) PROVE TypeOK'
    BY <2>7 DEF Unavailable, TypeOK, Respond, Reply, Kinds, NoNonce, Events,
                clientVars
  <2>8. ASSUME NEW r \in net, Lose(r) PROVE TypeOK'
    BY <2>8 DEF Lose, TypeOK, clientVars, histVars
  <2>9. ASSUME NEW r \in net, Intercept(r) PROVE TypeOK'
    BY <2>9 DEF Intercept, Disturb, TypeOK, Reply, Kinds, NoNonce, Events,
                clientVars
  <2>10. CASE Rotate
    <3>1. box' \in Box
      BY <2>10 DEF Rotate, TypeOK, RotateNonce, Box, NoNonce
    <3>2. QED
      BY <2>10, <3>1 DEF Rotate, Disturb, TypeOK, Events, clientVars
  <2>11. CASE GoDown
    <3>1. box' \in Box
      BY <2>11 DEF GoDown, TypeOK, SetDown, Box
    <3>2. seen' \subseteq Events /\ faults' \in Nat /\ failed' \in Nat
      BY <2>11 DEF GoDown, Disturb, TypeOK, Events
    <3>3. QED
      BY <2>11, <3>1, <3>2 DEF GoDown, TypeOK, clientVars
  <2>12. CASE ComeBack
    <3>1. box' \in Box
      BY <2>12 DEF ComeBack, TypeOK, SetDown, Box
    <3>2. QED
      BY <2>12, <3>1 DEF ComeBack, TypeOK, clientVars, histVars
  <2>13. ASSUME NEW newCreds \in Credentials, Restart(newCreds) PROVE TypeOK'
    BY <2>13 DEF Restart, Disturb, TypeOK, NewDigestAuth, DigestAuth, NoReply,
                 Reply, Kinds, NoNonce, Outcomes, Events
  <2>14. CASE UNCHANGED vars
    BY <2>14 DEF TypeOK, vars
  <2>15. QED
    BY <2>1, <2>2, <2>3, <2>4, <2>5, <2>6, <2>7, <2>8, <2>9, <2>10, <2>11,
       <2>12, <2>13, <2>14 DEF Next
<1>3. QED
  BY <1>1, <1>2, PTL DEF Spec

-----------------------------------------------------------------------------
(* The digest cache accounts for every header it ever produced.             *)

\* A step that sends nothing, keeps the digest cache and the box's nonce and
\* count, and brings no challenge, keeps the invariant.
LEMMA QuietStep ==
    ASSUME TypeOK, CountInv,
           auth' = auth, cur' = cur, restarts' = restarts,
           net' \subseteq net, pc' \in {pc, "idle"},
           box'.nonce = box.nonce, box'.lastNC = box.lastNC,
           box'.issued = box.issued,
           reply' = reply \/ (reply'.kind # "challenge" /\ reply'.nonce = 0)
    PROVE  CountInv'
<1>1. box.issued \in Nat
  BY DEF TypeOK, Box
<1>2. NoncesIssued'
  BY <1>1 DEF CountInv, NoncesIssued, NoNonce
<1>3. ASSUME restarts = 0 PROVE CountsAhead'
  BY <1>3 DEF CountInv, CountsAhead
<1>4. ASSUME restarts = 0 PROVE AwaitedIsLatest'
  BY <1>4 DEF CountInv, AwaitedIsLatest
<1>5. QED
  BY <1>2, <1>3, <1>4 DEF CountInv

\* What Send needs of the digest state d it starts from, and of the answer
\* that may still be on its way, to keep the invariant.
LEMMA SendKeepsCounts ==
    ASSUME TypeOK, TypeOK', NoncesIssued,
           NEW n, NEW attempt \in Attempts, NEW action, NEW d \in DigestAuth,
           Send(n, attempt, action, d),
           box' = box, restarts' = restarts,
           d.nonce <= box.issued,
           reply'.nonce <= box.issued,
           restarts = 0 =>
             /\ box.lastNC <= IF box.nonce = d.nonce THEN d.nonceCnt ELSE 0
             /\ reply'.kind = "challenge" => reply'.nonce >= d.nonce
             /\ \A r \in net :
                   /\ r.header.nonce <= d.nonce
                   /\ r.header.nonce = d.nonce => r.header.nc <= d.nonceCnt
    PROVE  CountInv'
<1> DEFINE h == IF creds = "none" THEN NoHeader ELSE AuthorizationFor(d)
<1>1. /\ net' = net \cup {cur'} /\ cur'.header = h
      /\ auth' = IF creds = "none" THEN d ELSE Counted(d)
  BY DEF Send
<1>2. /\ auth'.nonce = d.nonce
      /\ auth'.nonceCnt >= d.nonceCnt
      /\ h.nonce <= d.nonce
  BY <1>1, CountedGrows DEF NoHeader, NoNonce, DigestAuth
<1>3. h # NoHeader =>
        /\ h = [nonce |-> d.nonce, nc |-> d.nonceCnt + 1]
        /\ auth' = [nonce |-> d.nonce, nonceCnt |-> d.nonceCnt + 1]
  BY <1>1, HeaderIsNew
<1>4. /\ d.nonce \in Nat /\ d.nonceCnt \in Nat
      /\ box.issued \in Nat /\ box.nonce \in Nat /\ box.lastNC \in Nat
      /\ auth'.nonce \in Nat /\ auth'.nonceCnt \in Nat
      /\ \A r \in net' : r.header.nonce \in Nat /\ r.header.nc \in Nat
  BY DEF TypeOK, DigestAuth, Box, Request, Header
<1>5. NoncesIssued'
  BY <1>1, <1>2, <1>4 DEF NoncesIssued
<1>6. ASSUME restarts = 0 PROVE CountsAhead'
  <2>1. box'.lastNC <= IF box'.nonce = auth'.nonce THEN auth'.nonceCnt ELSE 0
    BY <1>2, <1>4, <1>6
  <2>2. reply'.kind = "challenge" => reply'.nonce >= auth'.nonce
    BY <1>2, <1>6
  <2>3. ASSUME NEW r \in net'
        PROVE  /\ r.header.nonce <= auth'.nonce
               /\ r.header.nonce = auth'.nonce => r.header.nc <= auth'.nonceCnt
    <3>1. CASE r \in net
      BY <3>1, <1>2, <1>4, <1>6
    <3>2. CASE r = cur'
      <4>1. CASE h = NoHeader
        BY <4>1, <3>2, <1>1, <1>2, <1>4 DEF NoHeader, NoNonce
      <4>2. CASE h # NoHeader
        BY <4>2, <3>2, <1>1, <1>3, <1>4
      <4>3. QED
        BY <4>1, <4>2
    <3>3. QED
      BY <1>1, <3>1, <3>2
  <2>4. QED
    BY <2>1, <2>2, <2>3 DEF CountsAhead
<1>7. ASSUME restarts = 0 PROVE AwaitedIsLatest'
  <2> SUFFICES ASSUME h # NoHeader
               PROVE  /\ h = [nonce |-> auth'.nonce, nc |-> auth'.nonceCnt]
                      /\ \A r \in net' \ {cur'} :
                            r.header.nonce = auth'.nonce
                              => r.header.nc < auth'.nonceCnt
                      /\ box'.nonce = auth'.nonce => box'.lastNC < auth'.nonceCnt
    BY <1>1 DEF AwaitedIsLatest
  <2>1. h = [nonce |-> auth'.nonce, nc |-> auth'.nonceCnt]
    BY <1>3
  <2>2. auth'.nonceCnt = d.nonceCnt + 1 /\ auth'.nonce = d.nonce
    BY <1>3
  <2>3. ASSUME NEW r \in net' \ {cur'}, r.header.nonce = auth'.nonce
        PROVE  r.header.nc < auth'.nonceCnt
    <3>1. r \in net
      BY <1>1
    <3>2. r.header.nc <= d.nonceCnt
      BY <3>1, <2>2, <2>3, <1>7
    <3>3. QED
      BY <3>2, <2>2, <1>4
  <2>4. box'.nonce = auth'.nonce => box'.lastNC < auth'.nonceCnt
    BY <2>2, <1>4, <1>7
  <2>5. QED
    BY <2>1, <2>3, <2>4
<1>8. QED
  BY <1>5, <1>6, <1>7 DEF CountInv

\* Making a nonce keeps every count ahead: nobody holds the new one.
LEMMA WithNonceKeepsCounts ==
    ASSUME TypeOK, CountInv
    PROVE  LET b == WithNonce(box)
           IN  /\ b \in Box
               /\ b.nonce # NoNonce /\ b.nonce = b.issued
               /\ box.issued <= b.issued
               /\ restarts = 0 =>
                    /\ b.lastNC <= IF b.nonce = auth.nonce
                                   THEN auth.nonceCnt ELSE 0
                    /\ AwaitedIsLatest =>
                         (pc # "idle" /\ cur.header # NoHeader /\ cur \in net
                            /\ b.nonce = auth.nonce
                            => b.lastNC < auth.nonceCnt)
<1> DEFINE b == WithNonce(box)
<1>1. b \in Box
  <2>1. NoHeader \in Header
    BY DEF NoHeader, Header, NoNonce
  <2>2. QED
    BY <2>1, BoxTypes DEF TypeOK
<1>2. box \in Box /\ auth \in DigestAuth
  BY DEF TypeOK
<1>3. CASE box.nonce # NoNonce
  <2>1. b = box
    BY <1>3 DEF WithNonce
  <2>2. b.nonce = b.issued /\ box.issued <= b.issued
    BY <2>1, <1>2, <1>3 DEF CountInv, NoncesIssued, Box
  <2>3. QED
    BY <1>1, <1>3, <2>1, <2>2 DEF CountInv, CountsAhead, AwaitedIsLatest
<1>4. CASE box.nonce = NoNonce
  <2>1. b = [nonce |-> box.issued + 1, lastNC |-> 0,
             issued |-> box.issued + 1, down |-> box.down]
    BY <1>2, <1>4 DEF WithNonce, Box
  <2>2. b.nonce > auth.nonce /\ b.lastNC = 0
    BY <2>1, <1>2 DEF CountInv, NoncesIssued, Box, DigestAuth
  <2>3. QED
    BY <1>1, <1>2, <2>1, <2>2 DEF Box, DigestAuth, NoNonce
<1>5. QED
  BY <1>3, <1>4

\* What the box answers to request r once it judged it v; b is the box, with
\* the nonce it judged by.
Answered(r, b, v) ==
    IF v = "authorized"
    THEN Respond(r, Answer[r.action], NoNonce, {v})
    ELSE \E kind \in Refusals(v) :
            Respond(r, kind, IF kind = "challenge" THEN b.nonce ELSE NoNonce, {v})

\* Whatever request the box serves, awaited or abandoned, its last count
\* stays behind the client's.
LEMMA ServeKeepsCounts ==
    ASSUME TypeOK, CountInv, NEW r \in net, Serve(r)
    PROVE  CountInv'
<1> DEFINE b == WithNonce(box)
           v == Verdict(b, r.header, r.creds)
<1>1. /\ r \in Request /\ r.header \in Header
      /\ r.header.nonce \in Nat /\ r.header.nc \in Nat
  BY DEF TypeOK, Request, Header
<1>2. /\ auth' = auth /\ pc' = pc /\ cur' = cur /\ restarts' = restarts
      /\ net' = net \ {r}
  BY DEF Serve, clientVars
<1>3. CASE r.action \in NoAuth \/ Answer[r.action] = "notfound"
  <2>1. box' = box /\ Respond(r, Answer[r.action], NoNonce, {})
    BY <1>3 DEF Serve
  <2>2. Answer[r.action] # "challenge"
    BY <1>1, AnswerAssumption DEF Request, Answers
  <2>3. reply' = reply \/ (reply'.kind # "challenge" /\ reply'.nonce = 0)
    BY <2>1, <2>2 DEF Respond, NoNonce
  <2>4. QED
    BY <1>2, <2>1, <2>3, QuietStep
<1>4. CASE ~(r.action \in NoAuth \/ Answer[r.action] = "notfound")
  <2>1. /\ box' = Judged(b, r.header, v)
        /\ Answered(r, b, v)
    BY <1>4 DEF Serve, Answered
  <2>2. /\ b \in Box /\ b.nonce # NoNonce /\ b.nonce = b.issued
        /\ box.issued <= b.issued
        /\ b.nonce \in Nat /\ b.lastNC \in Nat /\ box.issued \in Nat
        /\ auth.nonce \in Nat /\ auth.nonceCnt \in Nat /\ reply.nonce \in Nat
    BY WithNonceKeepsCounts DEF TypeOK, Box, DigestAuth, Reply
  <2>3. \A q \in net : q.header.nonce \in Nat /\ q.header.nc \in Nat
    BY DEF TypeOK, Request, Header
  <2>4. /\ box'.nonce = b.nonce /\ box'.issued = b.issued
        /\ box'.lastNC = IF v = "authorized" THEN r.header.nc ELSE b.lastNC
    BY <2>1, <2>2 DEF Judged, Box
  <2>5. v = "authorized" => r.header.nonce = b.nonce
    BY <1>1, <2>2 DEF Verdict, NoHeader, NoNonce
  <2>6. reply' = reply \/ reply'.nonce = 0 \/ reply'.nonce = b.nonce
    BY <2>1 DEF Answered, Respond, NoNonce
  <2>7. reply'.kind = "challenge" => reply' = reply \/ reply'.nonce = b.nonce
    <3>1. Answer[r.action] # "challenge"
      BY <1>1, AnswerAssumption DEF Request, Answers
    <3>2. QED
      BY <2>1, <3>1 DEF Answered, Respond
  <2>8. auth.nonce <= b.issued /\ reply.nonce <= b.issued
    BY <2>2 DEF CountInv, NoncesIssued
  <2>9. NoncesIssued'
    <3>1. \A q \in net' : q.header.nonce <= b.issued
      BY <1>2, <2>2, <2>3 DEF CountInv, NoncesIssued
    <3>2. QED
      BY <3>1, <1>2, <2>2, <2>4, <2>6, <2>8 DEF NoncesIssued
  <2>10. ASSUME restarts = 0, v = "authorized"
         PROVE  b.nonce = auth.nonce /\ r.header.nc <= auth.nonceCnt
    <3>1. r.header.nonce <= auth.nonce
      BY <2>10 DEF CountInv, CountsAhead
    <3>2. b.nonce = auth.nonce
      BY <3>1, <2>2, <2>5, <2>8, <2>10
    <3>3. QED
      BY <3>2, <2>5, <2>10 DEF CountInv, CountsAhead
  <2>11. ASSUME restarts = 0 PROVE CountsAhead'
    <3>1. box'.lastNC <= IF box'.nonce = auth'.nonce THEN auth'.nonceCnt ELSE 0
      <4>1. CASE v = "authorized"
        BY <4>1, <1>2, <2>4, <2>10, <2>11
      <4>2. CASE v # "authorized"
        BY <4>2, <1>2, <2>4, <2>11, WithNonceKeepsCounts
      <4>3. QED
        BY <4>1, <4>2
    <3>2. reply'.kind = "challenge" => reply'.nonce >= auth'.nonce
      BY <1>2, <2>2, <2>7, <2>8, <2>11 DEF CountInv, CountsAhead
    <3>3. QED
      BY <1>2, <2>11, <3>1, <3>2 DEF CountInv, CountsAhead
  <2>12. ASSUME restarts = 0 PROVE AwaitedIsLatest'
    <3> SUFFICES ASSUME pc # "idle", cur.header # NoHeader
                 PROVE  /\ cur.header = [nonce |-> auth.nonce,
                                         nc |-> auth.nonceCnt]
                        /\ \A q \in net' \ {cur} :
                              q.header.nonce = auth.nonce
                                => q.header.nc < auth.nonceCnt
                        /\ cur \in net' /\ box'.nonce = auth.nonce
                              => box'.lastNC < auth.nonceCnt
      BY <1>2 DEF AwaitedIsLatest
    <3>1. AwaitedIsLatest
      BY <2>12 DEF CountInv
    <3>2. ASSUME cur \in net', box'.nonce = auth.nonce
          PROVE  box'.lastNC < auth.nonceCnt
      <4>1. CASE v = "authorized"
        <5>1. r \in net \ {cur} /\ r.header.nonce = auth.nonce
          BY <4>1, <1>2, <2>4, <2>5, <3>2
        <5>2. r.header.nc < auth.nonceCnt
          BY <5>1, <3>1 DEF AwaitedIsLatest
        <5>3. QED
          BY <4>1, <5>2, <2>4
      <4>2. CASE v # "authorized"
        BY <4>2, <1>2, <2>4, <2>12, <3>1, <3>2, WithNonceKeepsCounts
      <4>3. QED
        BY <4>1, <4>2
    <3>3. QED
      BY <1>2, <3>1, <3>2 DEF AwaitedIsLatest
  <2>13. QED
    BY <1>2, <2>9, <2>11, <2>12 DEF CountInv
<1>5. QED
  BY <1>3, <1>4

\* The digest cache accounts for every header ever sent with its nonce, as
\* long as the collector has not been restarted.
THEOREM CountsCorrect == Spec => []CountInv
<1>1. Init => CountInv
  BY DEF Init, CountInv, NoncesIssued, CountsAhead, AwaitedIsLatest, NewBox,
         NewDigestAuth, NoReply, NoNonce
<1>2. TypeOK /\ TypeOK' /\ CountInv /\ [Next]_vars => CountInv'
  <2> SUFFICES ASSUME TypeOK, TypeOK', CountInv, [Next]_vars
               PROVE  CountInv'
    OBVIOUS
  <2>1. ASSUME NEW action \in Actions, Begin(action) PROVE CountInv'
    <3>1. auth \in DigestAuth /\ "first" \in Attempts
      BY DEF TypeOK, Attempts
    <3>2. /\ Send(calls + 1, "first", action, auth)
          /\ box' = box /\ restarts' = restarts /\ reply' = reply
      BY <2>1 DEF Begin
    <3>3. QED
      BY <3>1, <3>2, SendKeepsCounts DEF CountInv, NoncesIssued, CountsAhead
  <2>2. CASE Retry
    <3> DEFINE d == UpdateChallenge(auth, reply.nonce)
    <3>1. /\ Send(cur.call, "retry", cur.action, d)
          /\ reply' = NoReply /\ reply.kind = "challenge"
          /\ box' = box /\ restarts' = restarts
      BY <2>2 DEF Retry
    <3>2. /\ auth \in DigestAuth /\ reply.nonce \in Nat /\ "retry" \in Attempts
          /\ auth.nonce \in Nat /\ auth.nonceCnt \in Nat
          /\ box.nonce \in Nat /\ box.lastNC \in Nat /\ box.issued \in Nat
          /\ \A r \in net : r.header.nonce \in Nat /\ r.header.nc \in Nat
      BY DEF TypeOK, DigestAuth, Reply, Box, Request, Header, Attempts
    <3>3. d \in DigestAuth
      BY <3>2, DigestTypes
    <3>4. /\ d.nonce = reply.nonce
          /\ d.nonceCnt = IF auth.nonce = reply.nonce THEN auth.nonceCnt ELSE 0
      BY DEF UpdateChallenge
    <3>5. d.nonce <= box.issued /\ reply'.nonce <= box.issued
      BY <3>1, <3>2, <3>4 DEF CountInv, NoncesIssued, NoReply, NoNonce
    <3>6. ASSUME restarts = 0
          PROVE  /\ box.lastNC <= IF box.nonce = d.nonce THEN d.nonceCnt ELSE 0
                 /\ \A r \in net :
                      /\ r.header.nonce <= d.nonce
                      /\ r.header.nonce = d.nonce => r.header.nc <= d.nonceCnt
      <4>1. reply.nonce >= auth.nonce
        BY <3>1, <3>6 DEF CountInv, CountsAhead
      <4>2. CASE reply.nonce = auth.nonce
        BY <4>2, <3>2, <3>4, <3>6 DEF CountInv, CountsAhead
      <4>3. CASE reply.nonce > auth.nonce
        <5>1. box.lastNC = 0
          <6>1. box.nonce = auth.nonce => box.nonce = NoNonce
            BY <4>3, <3>2 DEF CountInv, NoncesIssued
          <6>2. box.nonce # auth.nonce => box.lastNC <= 0
            BY <3>6 DEF CountInv, CountsAhead
          <6>3. QED
            BY <6>1, <6>2, <3>2 DEF CountInv, NoncesIssued
        <5>2. \A r \in net : r.header.nonce < d.nonce
          BY <4>3, <3>2, <3>4, <3>6 DEF CountInv, CountsAhead
        <5>3. QED
          BY <5>1, <5>2, <3>2, <3>3 DEF DigestAuth
      <4>4. QED
        BY <4>1, <4>2, <4>3, <3>2
    <3>7. reply'.kind # "challenge"
      BY <3>1 DEF NoReply
    <3>8. QED
      BY <3>1, <3>2, <3>3, <3>5, <3>6, <3>7, SendKeepsCounts DEF CountInv
  <2>3. CASE GiveUp \/ Return \/ Timeout
    BY <2>3, QuietStep DEF GiveUp, Return, Timeout, Finish, NoReply, NoNonce
  <2>4. ASSUME NEW r \in net, Serve(r) PROVE CountInv'
    BY <2>4, ServeKeepsCounts
  <2>5. ASSUME NEW r \in net, Unavailable(r) PROVE CountInv'
    BY <2>5, QuietStep DEF Unavailable, Respond, clientVars, NoNonce
  <2>6. ASSUME NEW r \in net, Lose(r) PROVE CountInv'
    BY <2>6, QuietStep DEF Lose, clientVars
  <2>7. ASSUME NEW r \in net, Intercept(r) PROVE CountInv'
    BY <2>7, QuietStep DEF Intercept, clientVars, NoNonce
  <2>8. CASE Rotate
    <3>1. /\ box'.nonce = NoNonce /\ box'.lastNC = 0 /\ box'.issued = box.issued
          /\ auth' = auth /\ pc' = pc /\ cur' = cur /\ net' = net
          /\ reply' = reply /\ restarts' = restarts
      BY <2>8 DEF Rotate, RotateNonce, clientVars, TypeOK, Box
    <3>2. auth.nonceCnt \in Nat /\ auth.nonce \in Nat
      BY DEF TypeOK, DigestAuth
    <3>3. NoncesIssued'
      BY <3>1 DEF CountInv, NoncesIssued
    <3>4. ASSUME restarts = 0 PROVE CountsAhead'
      BY <3>1, <3>2, <3>4 DEF CountInv, CountsAhead
    <3>5. ASSUME restarts = 0 PROVE AwaitedIsLatest'
      <4>1. AwaitedIsLatest
        BY <3>5 DEF CountInv
      <4>2. pc # "idle" /\ cur.header # NoHeader /\ auth.nonce = NoNonce
              => 0 < auth.nonceCnt
        BY <4>1, <3>2 DEF AwaitedIsLatest, NoHeader, NoNonce
      <4>3. QED
        BY <3>1, <4>1, <4>2 DEF AwaitedIsLatest
    <3>6. QED
      BY <3>1, <3>3, <3>4, <3>5 DEF CountInv
  <2>9. CASE GoDown \/ ComeBack
    <3>1. box'.nonce = box.nonce /\ box'.lastNC = box.lastNC
          /\ box'.issued = box.issued
      BY <2>9 DEF GoDown, ComeBack, SetDown, TypeOK, Box
    <3>2. QED
      BY <2>9, <3>1, QuietStep DEF GoDown, ComeBack, clientVars
  <2>10. ASSUME NEW newCreds \in Credentials, Restart(newCreds)
         PROVE  CountInv'
    <3>1. /\ restarts' # 0 /\ box' = box /\ net' = net
          /\ auth'.nonce = 0 /\ reply'.nonce = 0 /\ box.issued \in Nat
      BY <2>10 DEF Restart, TypeOK, NewDigestAuth, NoReply, NoNonce, Box
    <3>2. QED
      BY <3>1 DEF CountInv, NoncesIssued
  <2>11. CASE UNCHANGED vars
    BY <2>11, QuietStep DEF vars
  <2>12. QED
    BY <2>1, <2>2, <2>3, <2>4, <2>5, <2>6, <2>7, <2>8, <2>9, <2>10, <2>11
       DEF Next
<1>3. QED
  BY <1>1, <1>2, TypeCorrect, PTL DEF Spec

\* No header the client still waits for meets a count the box has already
\* accepted: the box never refuses as a replay what an unrestarted client
\* sent, however many requests it abandoned before.
THEOREM FreshCountCorrect == Spec => []FreshCount
<1>1. CountInv => FreshCount
  BY DEF CountInv, AwaitedIsLatest, FreshCount
<1>2. QED
  BY <1>1, CountsCorrect, PTL

-----------------------------------------------------------------------------
(* The refinement of the abstract call.                                     *)

\* Whether the running call may have been answered that way: data needs an
\* authorization where the action does, a fault may also answer a repeated
\* count.
Explained(kind) ==
    /\ kind = "ok" => cur.action \in NoAuth \/ "authorized" \in seen
    /\ kind = "fault" => \/ cur.action \in NoAuth \/ "authorized" \in seen
                         \/ "replayed" \in seen

\* The header of the awaited request is the last one the digest cache made.
HeaderIsLast ==
    pc # "idle" /\ cur.header # NoHeader =>
        /\ creds # "none" /\ auth.nonceCnt > 0
        /\ cur.header = [nonce |-> auth.nonce, nc |-> auth.nonceCnt]

\* What ties the answer under way to the running call: there is none when no
\* call runs, the request carries the present credentials, the box authorizes
\* it once and then answers, and only a restarted client repeats a count.
CallInv ==
    /\ pc = "idle" => reply = NoReply
    /\ pc # "idle" => cur.creds = creds /\ outcome = "none"
    /\ HeaderIsLast
    /\ pc # "idle" /\ "authorized" \in seen => reply.kind \in Answers
    /\ pc # "idle" => Explained(reply.kind)
    /\ "authorized" \in seen => cur.action \notin NoAuth /\ cur.creds = "right"
    /\ "replayed" \in seen => restarts # 0 /\ cur.creds # "none"
    /\ Explained(outcome)

\* A step that leaves the call alone, and brings it at most an answer that is
\* none of the box's, keeps the invariant.
LEMMA CallUntouched ==
    ASSUME CallInv, clientVars' = clientVars, restarts' = restarts,
           "authorized" \in seen' <=> "authorized" \in seen,
           "replayed" \in seen' <=> "replayed" \in seen,
           reply' = reply \/ (pc # "idle" /\ reply = NoReply
                                /\ reply'.kind \notin {"ok", "fault"})
    PROVE  CallInv'
BY DEF CallInv, HeaderIsLast, Explained, clientVars, NoReply, Answers

\* A call that returns what its answer means keeps the invariant.
LEMMA CallFinished ==
    ASSUME CallInv, NEW result \in Outcomes, Finish(result), pc # "idle",
           Explained(result)
    PROVE  CallInv'
BY DEF CallInv, HeaderIsLast, Explained, Finish, NoReply

\* A request that is sent carries the last header of the digest cache.
LEMMA SendIsLast ==
    ASSUME NEW n, NEW attempt, NEW action, NEW d \in DigestAuth,
           Send(n, attempt, action, d), creds' = creds
    PROVE  HeaderIsLast'
<1>1. /\ cur'.header = IF creds = "none" THEN NoHeader ELSE AuthorizationFor(d)
      /\ auth' = IF creds = "none" THEN d ELSE Counted(d)
  BY DEF Send
<1>2. ASSUME creds # "none", AuthorizationFor(d) # NoHeader
      PROVE  /\ cur'.header = [nonce |-> auth'.nonce, nc |-> auth'.nonceCnt]
             /\ auth'.nonceCnt > 0
  BY <1>1, <1>2, HeaderIsNew DEF DigestAuth
<1> QED
  BY <1>1, <1>2 DEF HeaderIsLast

\* The box finds a count repeated in the awaited request only if the collector
\* was restarted, and then the client's count is not past the box's.
LEMMA ReplayedMeans ==
    ASSUME TypeOK, CountInv, CallInv, pc # "idle", cur \in net,
           NEW b, b = WithNonce(box),
           Verdict(b, cur.header, cur.creds) = "replayed"
    PROVE  /\ restarts # 0 /\ creds # "none"
           /\ auth.nonce = b.nonce /\ b.nonce # NoNonce
           /\ 0 < auth.nonceCnt /\ auth.nonceCnt <= b.lastNC
<1>1. /\ cur.header # NoHeader /\ cur.header.nonce = b.nonce
      /\ cur.header.nc <= b.lastNC
  BY DEF Verdict
<1>2. /\ cur.header = [nonce |-> auth.nonce, nc |-> auth.nonceCnt]
      /\ creds # "none" /\ auth.nonceCnt > 0
  BY <1>1 DEF CallInv, HeaderIsLast
<1>3. /\ b.nonce # NoNonce /\ b.lastNC \in Nat /\ auth.nonceCnt \in Nat
      /\ restarts = 0 /\ b.nonce = auth.nonce => b.lastNC < auth.nonceCnt
  BY <1>1, WithNonceKeepsCounts DEF Box, TypeOK, DigestAuth, CountInv
<1> QED
  BY <1>1, <1>2, <1>3

\* Serving a request: what the running call learns of it.
LEMMA ServeAnswers ==
    ASSUME TypeOK, CountInv, CallInv, NEW r \in net, Serve(r)
    PROVE  \/ /\ reply' = reply /\ seen' = seen
           \/ /\ pc # "idle" /\ r = cur /\ reply = NoReply
              /\ "authorized" \notin seen
              /\ \/ /\ cur.action \in NoAuth \/ reply'.kind = "notfound"
                    /\ reply'.kind \in Answers /\ seen' = seen
                 \/ /\ cur.action \notin NoAuth /\ cur.creds = "right"
                    /\ reply'.kind \in Answers
                    /\ seen' = seen \cup {"authorized"}
                 \/ /\ reply'.kind \in {"challenge", "fault"}
                    /\ "authorized" \notin seen'
                    /\ reply'.kind = "fault" => "replayed" \in seen'
                    /\ "replayed" \in seen' =>
                          "replayed" \in seen \/ (restarts # 0 /\ creds # "none")
<1> DEFINE b == WithNonce(box)
           v == Verdict(b, r.header, r.creds)
<1>1. r.action \in Actions /\ Answer[r.action] \in Answers
  BY AnswerAssumption DEF TypeOK, Request
<1>2. CASE ~Awaited(r)
  BY <1>2 DEF Serve, Respond
<1>3. CASE Awaited(r)
  <2>1. /\ pc # "idle" /\ r = cur /\ reply = NoReply
        /\ "authorized" \notin seen
    BY <1>3 DEF Awaited, CallInv, NoReply, Answers
  <2>2. CASE r.action \in NoAuth \/ Answer[r.action] = "notfound"
    BY <1>1, <1>3, <2>1, <2>2 DEF Serve, Respond
  <2>3. CASE ~(r.action \in NoAuth \/ Answer[r.action] = "notfound")
    <3>1. Answered(r, b, v)
      BY <2>3 DEF Serve, Answered
    <3>2. CASE v = "authorized"
      <4>1. r.creds = "right"
        BY <3>2 DEF Verdict
      <4>2. QED
        BY <1>1, <1>3, <2>1, <2>3, <3>1, <3>2, <4>1 DEF Answered, Respond
    <3>3. CASE v # "authorized"
      <4>1. v = "replayed" => restarts # 0 /\ creds # "none"
        BY <2>1, ReplayedMeans
      <4>2. PICK kind \in Refusals(v) :
               /\ reply'.kind = kind /\ seen' = seen \cup {v}
        BY <1>3, <3>1, <3>3 DEF Answered, Respond
      <4>3. kind = "challenge" \/ (kind = "fault" /\ v = "replayed")
        BY <4>2 DEF Refusals
      <4> HIDE DEF v
      <4> QED
        BY <2>1, <3>3, <4>1, <4>2, <4>3
    <3>4. QED
      BY <3>2, <3>3
  <2>4. QED
    BY <2>2, <2>3
<1>4. QED
  BY <1>2, <1>3

\* The answers and the authorizations of the running call belong together.
THEOREM CallsCorrect == Spec => []CallInv
<1>1. Init => CallInv
  BY DEF Init, CallInv, HeaderIsLast, Explained
<1>2. TypeOK /\ CountInv /\ CallInv /\ [Next]_vars => CallInv'
  <2> SUFFICES ASSUME TypeOK, CountInv, CallInv, [Next]_vars PROVE CallInv'
    OBVIOUS
  <2>1. ASSUME NEW a \in Actions, Begin(a) PROVE CallInv'
    <3>1. HeaderIsLast'
      BY <2>1, SendIsLast DEF Begin, TypeOK
    <3>2. /\ pc = "idle" /\ pc' # "idle" /\ creds' = creds /\ cur'.creds = creds
          /\ reply' = reply /\ outcome' = "none" /\ seen' = {}
      BY <2>1 DEF Begin, Send
    <3>3. QED
      BY <3>1, <3>2 DEF CallInv, Explained, NoReply
  <2>2. CASE Retry
    <3>1. /\ cur'.action = cur.action /\ cur'.creds = creds /\ creds' = creds
          /\ outcome' = outcome /\ seen' = seen
          /\ pc # "idle" /\ pc' # "idle"
          /\ reply'.kind = "none" /\ reply.kind = "challenge"
          /\ restarts' = restarts
      BY <2>2 DEF Retry, MustAuthenticate, Send, histVars, NoReply
    <3>2. HeaderIsLast'
      <4>1. UpdateChallenge(auth, reply.nonce) \in DigestAuth
        BY DigestTypes DEF TypeOK, Reply
      <4> QED
        BY <2>2, <4>1, SendIsLast DEF Retry
    <3>3. QED
      BY <3>1, <3>2 DEF CallInv, Explained, Answers
  <2>3. CASE GiveUp
    BY <2>3, CallFinished DEF GiveUp, MustAuthenticate, Outcomes, Explained
  <2>4. CASE Return
    <3>1. Result(reply.kind) \in Outcomes
      BY DEF Result, Outcomes
    <3>2. Explained(Result(reply.kind))
      BY <2>4 DEF Return, CallInv, Result, Explained
    <3>3. QED
      BY <2>4, <3>1, <3>2, CallFinished DEF Return
  <2>5. CASE Timeout
    BY <2>5, CallFinished DEF Timeout, Outcomes, Explained
  <2>6. ASSUME NEW r \in net, Serve(r) PROVE CallInv'
    <3>1. /\ creds' = creds /\ auth' = auth /\ pc' = pc /\ cur' = cur
          /\ outcome' = outcome /\ restarts' = restarts
      BY <2>6 DEF Serve, clientVars
    <3>2. HeaderIsLast'
      BY <3>1 DEF CallInv, HeaderIsLast
    <3>3. CASE reply' = reply /\ seen' = seen
      BY <3>1, <3>2, <3>3 DEF CallInv, Explained
    <3>4. CASE ~(reply' = reply /\ seen' = seen)
      <4>1. /\ pc # "idle" /\ outcome = "none" /\ cur.creds = creds
            /\ "authorized" \notin seen
        BY <2>6, <3>4, ServeAnswers DEF CallInv
      <4>2. /\ "authorized" \in seen' =>
                  /\ reply'.kind \in Answers
                  /\ cur.action \notin NoAuth /\ cur.creds = "right"
            /\ "replayed" \in seen' => restarts # 0 /\ creds # "none"
            /\ reply'.kind = "ok" =>
                  cur.action \in NoAuth \/ "authorized" \in seen'
            /\ reply'.kind = "fault" =>
                  \/ cur.action \in NoAuth \/ "authorized" \in seen'
                  \/ "replayed" \in seen'
        BY <2>6, <3>4, <4>1, ServeAnswers DEF CallInv
      <4> QED
        BY <3>1, <3>2, <4>1, <4>2 DEF CallInv, Explained
    <3>5. QED
      BY <3>3, <3>4
  <2>7. ASSUME NEW r \in net, Unavailable(r) PROVE CallInv'
    BY <2>7, CallUntouched DEF Unavailable, Respond, Awaited
  <2>8. ASSUME NEW r \in net, Lose(r) PROVE CallInv'
    BY <2>8, CallUntouched DEF Lose, histVars
  <2>9. ASSUME NEW r \in net, Intercept(r) PROVE CallInv'
    BY <2>9, CallUntouched DEF Intercept, Disturb, Awaited
  <2>10. CASE Rotate \/ GoDown
    BY <2>10, CallUntouched DEF Rotate, GoDown, Disturb
  <2>11. CASE ComeBack
    BY <2>11, CallUntouched DEF ComeBack, histVars
  <2>12. ASSUME NEW c \in Credentials, Restart(c) PROVE CallInv'
    <3>1. restarts' # 0
      BY <2>12 DEF Restart, TypeOK
    <3>2. QED
      BY <2>12, <3>1 DEF Restart, Disturb, CallInv, HeaderIsLast, Explained
  <2>13. CASE UNCHANGED vars
    BY <2>13, CallUntouched DEF vars, clientVars
  <2>14. QED
    BY <2>1, <2>2, <2>3, <2>4, <2>5, <2>6, <2>7, <2>8, <2>9, <2>10, <2>11,
       <2>12, <2>13 DEF Next
<1>3. QED
  BY <1>1, <1>2, TypeCorrect, CountsCorrect, PTL DEF Spec

\* Data of a protected action is an answer the box gave after it authorized a
\* request of this very call, and so is a SOAP fault until the collector is
\* restarted: no late answer is returned by a later call, and no abandoned
\* request makes a later one a replay.
THEOREM AnswerCorrect == Spec => []AnswerWasAuthorized
<1>1. CallInv => AnswerWasAuthorized
  BY DEF CallInv, Explained, AnswerWasAuthorized
<1>2. QED
  BY <1>1, CallsCorrect, PTL

\* A call that returns is an abstract call that returns.
LEMMA FinishReturns ==
    ASSUME TypeOK, CallInv, NEW result \in Call!Results, Finish(result),
           pc # "idle", Call!MayReturn(result)
    PROVE  Call!Next
<1>1. Call!Return(result)
  BY DEF Finish, Call!Return
<1>2. QED
  BY <1>1 DEF Call!Next

\* CallWithArgs over its requests, the network and the box implements the
\* abstract call, whatever is lost, late, rotated or restarted: every step of
\* TR064 is a step of TR064Call, or one the caller does not see.
THEOREM CallRefined == Spec => Call!Safety
<1>1. Init => Call!Init
  BY DEF Init, NoRequest, Credentials, Call!Init, Call!Credentials
<1>2. TypeOK /\ CountInv /\ CallInv /\ [Next]_vars => [Call!Next]_(Call!vars)
  <2> SUFFICES ASSUME TypeOK, CountInv, CallInv, [Next]_vars
               PROVE  Call!Next \/ UNCHANGED Call!vars
    OBVIOUS
  <2> DEFINE unseen == /\ creds' = creds /\ pc' = pc /\ outcome' = outcome
                       /\ cur'.action = cur.action /\ restarts' = restarts
                       /\ "authorized" \in seen' <=> "authorized" \in seen
  <2>1. unseen => UNCHANGED Call!vars
    BY DEF Call!vars
  <2>2. ASSUME NEW a \in Actions, Begin(a) PROVE Call!Next
    <3>1. Call!Begin(a)
      BY <2>2 DEF Begin, Send, Call!Begin
    <3>2. QED
      BY <3>1 DEF Call!Next
  <2>3. CASE Retry
    <3>1. /\ creds' = creds /\ pc = "first" /\ pc' = "retry"
          /\ outcome' = outcome /\ seen' = seen /\ cur'.action = cur.action
          /\ restarts' = restarts
      BY <2>3 DEF Retry, MustAuthenticate, Send, histVars
    <3>2. QED
      BY <3>1 DEF Call!vars
  <2>4. CASE GiveUp
    BY <2>4, FinishReturns
       DEF GiveUp, MustAuthenticate, Call!Results, Call!MayReturn
  <2>5. CASE Return
    <3> DEFINE result == Result(reply.kind)
    <3>1. result \in Call!Results
      BY DEF Result, Call!Results
    <3>2. result \in {"ok", "fault"} => reply.kind = result
      BY DEF Result
    <3>3. result = "unauthorized" => reply.kind \notin Answers
      BY DEF Result, Answers
    <3>4. Call!MayReturn(result)
      BY <2>5, <3>1, <3>2, <3>3
         DEF Return, CallInv, Explained, Call!MayReturn, Call!Results
    <3>5. QED
      BY <2>5, <3>1, <3>4, FinishReturns DEF Return
  <2>6. CASE Timeout
    BY <2>6, FinishReturns DEF Timeout, Call!Results, Call!MayReturn
  <2>7. ASSUME NEW r \in net, Serve(r) PROVE Call!Next \/ UNCHANGED Call!vars
    <3>1. clientVars' = clientVars /\ restarts' = restarts
      BY <2>7 DEF Serve
    <3>2. CASE "authorized" \in seen' <=> "authorized" \in seen
      BY <2>1, <3>1, <3>2 DEF clientVars
    <3>3. CASE ~("authorized" \in seen' <=> "authorized" \in seen)
      <4>1. /\ pc # "idle" /\ cur.action \notin NoAuth /\ cur.creds = "right"
            /\ "authorized" \notin seen /\ "authorized" \in seen'
        BY <2>7, <3>3, ServeAnswers
      <4>2. Call!Authorize
        BY <3>1, <4>1 DEF CallInv, clientVars, Call!Authorize
      <4>3. QED
        BY <4>2 DEF Call!Next
    <3>4. QED
      BY <3>2, <3>3
  <2>8. ASSUME NEW r \in net, Unavailable(r) PROVE unseen
    BY <2>8 DEF Unavailable, Respond, clientVars
  <2>9. ASSUME NEW r \in net, Lose(r) PROVE unseen
    BY <2>9 DEF Lose, clientVars, histVars
  <2>10. ASSUME NEW r \in net, Intercept(r) PROVE unseen
    BY <2>10 DEF Intercept, Disturb, clientVars
  <2>11. CASE Rotate \/ GoDown
    <3>1. unseen
      BY <2>11 DEF Rotate, GoDown, Disturb, clientVars
    <3>2. QED
      BY <2>1, <3>1
  <2>12. CASE ComeBack
    <3>1. unseen
      BY <2>12 DEF ComeBack, clientVars, histVars
    <3>2. QED
      BY <2>1, <3>1
  <2>13. ASSUME NEW c \in Credentials, Restart(c) PROVE Call!Next
    <3>1. restarts' # 0
      BY <2>13 DEF Restart, TypeOK
    <3>2. Call!Restart(c)
      BY <2>13, <3>1 DEF Restart, Disturb, Call!Restart
    <3>3. QED
      BY <3>2 DEF Call!Next, Credentials, Call!Credentials
  <2>14. CASE UNCHANGED vars
    BY <2>1, <2>14 DEF vars
  <2>15. QED
    BY <2>1, <2>2, <2>3, <2>4, <2>5, <2>6, <2>7, <2>8, <2>9, <2>10, <2>11,
       <2>12, <2>13, <2>14 DEF Next
<1>3. QED
  BY <1>1, <1>2, TypeCorrect, CountsCorrect, CallsCorrect, PTL
     DEF Spec, Call!Safety
-----------------------------------------------------------------------------
(* The right credentials are accepted, at once or within a bound.           *)

\* The box remembers a count for the client's nonce that the client, restarted
\* since, has not got past.
BehindBox ==
    /\ restarts # 0
    /\ box.nonce # NoNonce /\ auth.nonce = box.nonce
    /\ 0 < auth.nonceCnt /\ auth.nonceCnt <= box.lastNC

\* What an undisturbed call with the right credentials knows of the box: its
\* challenge is for the box's nonce, its retry carries that nonce, and it is
\* refused, by a second challenge or by a fault, only if the box remembers a
\* count the client has forgotten.
RetryInv ==
    creds = "right" /\ "disturbed" \notin seen =>
       /\ pc # "idle" => reply.kind # "unusable"
       /\ pc = "first" /\ reply.kind = "challenge" =>
             box.nonce # NoNonce /\ reply.nonce = box.nonce
       /\ pc = "retry" =>
             /\ box.nonce # NoNonce /\ auth.nonce = box.nonce
             /\ auth.nonceCnt > 0
             /\ cur.header = [nonce |-> auth.nonce, nc |-> auth.nonceCnt]
             /\ reply.kind = "challenge" => BehindBox
       /\ pc # "idle" /\ reply.kind = "fault" /\ Refused("fault") => BehindBox
       /\ outcome = "unauthorized" => restarts # 0

\* What the refused calls have in common: the box had accepted the count of
\* the last one, and each took the client's count further.
FailedInv ==
    failed > 0 =>
       /\ creds = "right" /\ "disturbed" \notin seen
       /\ box.nonce # NoNonce /\ auth.nonce = box.nonce
       /\ failed <= box.lastNC /\ failed <= auth.nonceCnt
       /\ pc # "idle" => failed < auth.nonceCnt

\* A step that leaves the call, the digest cache and the answer alone, and
\* takes the box's count no further back, keeps both.
LEMMA AcceptQuiet ==
    ASSUME TypeOK, TypeOK', RetryInv, FailedInv,
           creds' = creds, auth' = auth, cur' = cur, outcome' = outcome,
           pc' = pc, restarts' = restarts, failed' = failed, seen \subseteq seen',
           "disturbed" \in seen' => "disturbed" \in seen,
           box.nonce # NoNonce =>
              box'.nonce = box.nonce /\ box'.lastNC >= box.lastNC,
           reply' = reply
    PROVE  RetryInv' /\ FailedInv'
<1>1. /\ box.lastNC \in Nat /\ box'.lastNC \in Nat /\ failed \in Nat
      /\ auth.nonceCnt \in Nat
  BY DEF TypeOK, Box, DigestAuth
<1>2. RetryInv'
  <2>1. BehindBox => BehindBox'
    BY <1>1 DEF BehindBox
  <2>2. Refused("fault")' => Refused("fault")
    BY DEF Refused
  <2> QED
    BY <2>1, <2>2 DEF RetryInv
<1>3. FailedInv'
  BY <1>1 DEF FailedInv
<1> QED
  BY <1>2, <1>3

\* A disturbance voids both.
LEMMA AcceptDisturbed ==
    ASSUME NEW events, Disturb(events)
    PROVE  RetryInv' /\ FailedInv'
BY DEF Disturb, RetryInv, FailedInv

\* What a returning call leaves.
LEMMA AcceptFinished ==
    ASSUME TypeOK, RetryInv, FailedInv, NEW result \in Outcomes,
           Finish(result), pc # "idle",
           result = "unauthorized" => reply.kind \in {"challenge", "unusable"}
                                        /\ ~MustAuthenticate,
           result = "fault" => reply.kind = "fault"
    PROVE  RetryInv' /\ FailedInv'
<1>1. /\ box.lastNC \in Nat /\ auth.nonceCnt \in Nat /\ failed \in Nat
      /\ pc \in {"first", "retry"}
  BY DEF TypeOK, Box, DigestAuth, Attempts
<1>2. /\ creds' = creds /\ auth' = auth /\ box' = box /\ seen' = seen
      /\ restarts' = restarts /\ pc' = "idle" /\ outcome' = result
  BY DEF Finish
<1>3. CASE Refused(result) /\ creds = "right" /\ "disturbed" \notin seen
  <2>1. BehindBox
    <3>1. CASE result = "unauthorized"
      <4>1. /\ pc = "retry" /\ reply.kind = "challenge"
        BY <1>1, <1>3, <3>1 DEF MustAuthenticate, RetryInv
      <4> QED
        BY <1>3, <4>1 DEF RetryInv
    <3>2. CASE result # "unauthorized"
      <4>1. result = "fault" /\ reply.kind = "fault" /\ Refused("fault")
        BY <1>3, <3>2 DEF Refused
      <4> QED
        BY <1>3, <4>1 DEF RetryInv
    <3> QED
      BY <3>1, <3>2
  <2>2. failed' = failed + 1
    BY <1>3 DEF Finish
  <2>3. failed < auth.nonceCnt
    BY <1>1, <2>1 DEF FailedInv, BehindBox
  <2>4. RetryInv'
    BY <1>2, <2>1 DEF RetryInv, BehindBox
  <2>5. FailedInv'
    BY <1>1, <1>2, <1>3, <2>1, <2>2, <2>3 DEF FailedInv, BehindBox
  <2> QED
    BY <2>4, <2>5
<1>4. CASE ~(Refused(result) /\ creds = "right" /\ "disturbed" \notin seen)
  <2>1. failed' = failed
    BY <1>4 DEF Finish
  <2>2. RetryInv'
    BY <1>2, <1>4 DEF RetryInv, Refused
  <2>3. FailedInv'
    BY <1>1, <1>2, <2>1 DEF FailedInv
  <2> QED
    BY <2>2, <2>3
<1> QED
  BY <1>3, <1>4

\* Serving a request, awaited or abandoned.
LEMMA ServeAccepts ==
    ASSUME TypeOK, TypeOK', CountInv, CallInv, RetryInv, FailedInv,
           NEW r \in net, Serve(r)
    PROVE  RetryInv' /\ FailedInv'
<1> DEFINE b == WithNonce(box)
           v == Verdict(b, r.header, r.creds)
<1>1. /\ r \in Request /\ r.header \in Header /\ r.header.nc \in Nat
      /\ box \in Box /\ box.nonce \in Nat /\ box.lastNC \in Nat
      /\ box'.lastNC \in Nat /\ auth.nonceCnt \in Nat /\ auth.nonce \in Nat
      /\ failed \in Nat /\ pc \in {"first", "retry", "idle"}
  BY DEF TypeOK, Request, Header, Box, DigestAuth, Attempts
<1>2. /\ creds' = creds /\ auth' = auth /\ pc' = pc /\ cur' = cur
      /\ outcome' = outcome /\ restarts' = restarts /\ failed' = failed
  BY DEF Serve, clientVars
<1>3. CASE r.action \in NoAuth \/ Answer[r.action] = "notfound"
  <2>1. box' = box /\ Respond(r, Answer[r.action], NoNonce, {})
    BY <1>3 DEF Serve
  <2>2. Answer[r.action] \in Answers
    BY <1>1, AnswerAssumption DEF Request
  <2>3. /\ seen' = seen
        /\ reply' = reply \/ reply'.kind \in Answers
    BY <2>1, <2>2 DEF Respond
  <2>4. CASE reply' = reply
    BY <1>1, <1>2, <2>1, <2>3, <2>4, AcceptQuiet
  <2>5. CASE reply' # reply
    <3>1. /\ r = cur
          /\ reply'.kind = "fault" => cur.action \in NoAuth
      BY <1>3, <2>1, <2>5 DEF Respond, Awaited
    <3>2. RetryInv'
      BY <1>2, <2>1, <2>3, <2>5, <3>1 DEF RetryInv, BehindBox, Refused, Answers
    <3>3. FailedInv'
      BY <1>2, <2>1, <2>3 DEF FailedInv
    <3> QED
      BY <3>2, <3>3
  <2> QED
    BY <2>4, <2>5
<1>4. CASE ~(r.action \in NoAuth \/ Answer[r.action] = "notfound")
  <2>1. /\ box' = Judged(b, r.header, v)
        /\ Answered(r, b, v)
    BY <1>4 DEF Serve, Answered
  <2>2. /\ b \in Box /\ b.nonce # NoNonce /\ b.lastNC \in Nat
        /\ box.nonce # NoNonce => b = box
    BY WithNonceKeepsCounts DEF WithNonce, Box
  <2>3. /\ box'.nonce = b.nonce
        /\ box'.lastNC = IF v = "authorized" THEN r.header.nc ELSE b.lastNC
    BY <2>1, <2>2 DEF Judged, Box
  <2>4. v = "authorized" => r.header.nc > b.lastNC
    BY <1>1, <2>2 DEF Verdict
  <2>5. box.nonce # NoNonce =>
           box'.nonce = box.nonce /\ box'.lastNC >= box.lastNC
    BY <1>1, <2>2, <2>3, <2>4
  <2>6. "disturbed" \in seen' <=> "disturbed" \in seen
    <3>1. v # "disturbed"
      BY VerdictTypes DEF Verdicts
    <3> QED
      BY <2>1, <3>1 DEF Answered, Respond
  <2>7. FailedInv'
    BY <1>1, <1>2, <2>5, <2>6 DEF FailedInv
  <2> HIDE DEF b, v
  <2>8. CASE reply' = reply
    <3>1. seen \subseteq seen'
      BY <2>1 DEF Answered, Respond
    <3> QED
      BY <1>2, <2>5, <2>6, <2>8, <3>1, AcceptQuiet
  <2>9. CASE reply' # reply
    <3>1. pc # "idle" /\ r = cur /\ cur \in net
      BY <2>1, <2>9 DEF Answered, Respond, Awaited
    <3>2. CASE v = "authorized"
      <4>1. reply'.kind \in Answers /\ "authorized" \in seen'
        BY <1>1, <2>1, <2>9, <3>2, AnswerAssumption
           DEF Answered, Respond, Request
      <4>2. reply'.kind \notin {"challenge", "unusable"} /\ ~Refused("fault")'
        BY <4>1 DEF Answers, Refused
      <4> QED
        BY <1>2, <2>5, <2>6, <2>7, <4>2 DEF RetryInv
    <3>3. CASE v = "replayed"
      <4>1. /\ restarts # 0 /\ auth.nonce = b.nonce /\ b.nonce # NoNonce
            /\ 0 < auth.nonceCnt /\ auth.nonceCnt <= b.lastNC
        BY <3>1, <3>3, ReplayedMeans DEF b, v
      <4>2. box'.nonce = b.nonce /\ box'.lastNC = b.lastNC
        BY <2>3, <3>3
      <4>3. BehindBox'
        BY <1>2, <4>1, <4>2 DEF BehindBox
      <4>4. /\ reply'.kind \in {"challenge", "fault"}
            /\ reply'.kind = "challenge" => reply'.nonce = b.nonce
        BY <2>1, <2>9, <3>3 DEF Answered, Respond, Refusals
      <4>5. RetryInv'
        BY <1>2, <2>5, <2>6, <3>1, <4>1, <4>2, <4>3, <4>4 DEF RetryInv
      <4> QED
        BY <2>7, <4>5
    <3>4. CASE v \notin {"authorized", "replayed"}
      <4>1. reply' = [kind |-> "challenge", nonce |-> b.nonce]
        BY <2>1, <2>9, <3>4 DEF Answered, Respond, Refusals
      <4>2. ASSUME creds = "right", "disturbed" \notin seen
            PROVE  pc # "retry"
        <5> SUFFICES ASSUME pc = "retry" PROVE FALSE
          BY <1>1
        <5>1. /\ box.nonce # NoNonce /\ auth.nonce = box.nonce /\ b = box
              /\ cur.header = [nonce |-> auth.nonce, nc |-> auth.nonceCnt]
          BY <2>2, <4>2 DEF RetryInv
        <5>2. cur.header # NoHeader /\ cur.header.nonce = b.nonce
          BY <5>1 DEF NoHeader
        <5>3. cur.creds = "right"
          BY <3>1, <4>2 DEF CallInv
        <5> QED
          BY <3>1, <3>4, <5>2, <5>3 DEF Verdict, v
      <4>3. /\ box'.lastNC = b.lastNC /\ box'.nonce = b.nonce
            /\ reply'.kind = "challenge" /\ reply'.nonce = b.nonce
        BY <2>3, <3>4, <4>1
      <4>4. RetryInv'
        BY <1>2, <2>2, <2>6, <4>2, <4>3 DEF RetryInv
      <4> QED
        BY <2>7, <4>4
    <3> QED
      BY <3>2, <3>3, <3>4
  <2> QED
    BY <2>7, <2>8, <2>9
<1> QED
  BY <1>3, <1>4

LEMMA AcceptStep ==
    ASSUME TypeOK, TypeOK', CountInv, CallInv, RetryInv, FailedInv, [Next]_vars
    PROVE  RetryInv' /\ FailedInv'
<1>1. /\ auth \in DigestAuth /\ auth.nonce \in Nat /\ auth.nonceCnt \in Nat
      /\ box.nonce \in Nat /\ box.lastNC \in Nat /\ failed \in Nat
      /\ reply.nonce \in Nat /\ reply \in Reply
  BY DEF TypeOK, DigestAuth, Box, Reply
<1>2. ASSUME NEW a \in Actions, Begin(a)
      PROVE  RetryInv' /\ FailedInv'
  <2>1. /\ creds' = creds /\ pc = "idle" /\ pc' = "first" /\ outcome' = "none"
        /\ seen' = {} /\ reply' = reply /\ box' = box /\ failed' = failed
        /\ auth' = IF creds = "none" THEN auth ELSE Counted(auth)
    BY <1>2 DEF Begin, Send
  <2>2. reply.kind = "none"
    BY <2>1 DEF CallInv, NoReply
  <2>3. RetryInv'
    BY <2>1, <2>2 DEF RetryInv
  <2>4. ASSUME failed > 0
        PROVE  auth' = [nonce |-> auth.nonce, nonceCnt |-> auth.nonceCnt + 1]
    BY <1>1, <2>1, <2>4 DEF FailedInv, Counted, Cached, DigestAuth
  <2>5. FailedInv'
    BY <1>1, <2>1, <2>4 DEF FailedInv
  <2> QED
    BY <2>3, <2>5
<1>3. CASE Retry
  <2> DEFINE d == UpdateChallenge(auth, reply.nonce)
  <2>1. /\ creds' = creds /\ creds # "none" /\ pc = "first" /\ pc' = "retry"
        /\ outcome' = outcome /\ outcome = "none" /\ seen' = seen
        /\ reply' = NoReply /\ reply.kind = "challenge"
        /\ box' = box /\ failed' = failed /\ restarts' = restarts
        /\ auth' = Counted(d) /\ cur'.header = AuthorizationFor(d)
    BY <1>3 DEF Retry, MustAuthenticate, Send, histVars, CallInv
  <2>2. ASSUME creds = "right", "disturbed" \notin seen
        PROVE  /\ box.nonce # NoNonce /\ auth'.nonce = box.nonce
               /\ auth'.nonceCnt > 0
               /\ cur'.header = [nonce |-> auth'.nonce, nc |-> auth'.nonceCnt]
               /\ auth.nonce = box.nonce => auth'.nonceCnt = auth.nonceCnt + 1
    <3>1. box.nonce # NoNonce /\ reply.nonce = box.nonce
      BY <2>1, <2>2 DEF RetryInv
    <3>2. /\ d \in DigestAuth /\ d.nonce = box.nonce /\ d.nonceCnt \in Nat
          /\ auth.nonce = box.nonce => d.nonceCnt = auth.nonceCnt
      BY <1>1, <3>1 DEF UpdateChallenge, DigestAuth
    <3>3. /\ Counted(d) = [nonce |-> d.nonce, nonceCnt |-> d.nonceCnt + 1]
          /\ AuthorizationFor(d) = [nonce |-> d.nonce, nc |-> d.nonceCnt + 1]
      BY <3>1, <3>2 DEF Counted, AuthorizationFor, Cached, DigestAuth
    <3> HIDE DEF d
    <3> QED
      BY <2>1, <3>1, <3>2, <3>3
  <2>3. RetryInv'
    BY <2>1, <2>2 DEF RetryInv, NoReply
  <2>4. FailedInv'
    BY <1>1, <2>1, <2>2 DEF FailedInv
  <2> QED
    BY <2>3, <2>4
<1>4. CASE GiveUp \/ Timeout
  BY <1>4, AcceptFinished DEF GiveUp, Timeout, MustAuthenticate, Outcomes
<1>5. CASE Return
  <2>1. /\ Result(reply.kind) \in Outcomes
        /\ Result(reply.kind) = "unauthorized" =>
              reply.kind \in {"challenge", "unusable"}
        /\ Result(reply.kind) = "fault" => reply.kind = "fault"
    BY DEF Result, Outcomes
  <2> QED
    BY <1>5, <2>1, AcceptFinished DEF Return
<1>6. ASSUME NEW r \in net, Serve(r)
      PROVE  RetryInv' /\ FailedInv'
  BY <1>6, ServeAccepts
<1>7. ASSUME NEW r \in net, Unavailable(r)
      PROVE  RetryInv' /\ FailedInv'
  <2>1. /\ creds' = creds /\ auth' = auth /\ pc' = pc /\ cur' = cur
        /\ outcome' = outcome /\ restarts' = restarts /\ failed' = failed
        /\ box' = box /\ seen' = seen
        /\ reply' = reply \/ reply'.kind = "unavailable"
    BY <1>7 DEF Unavailable, Respond, clientVars
  <2>2. BehindBox => BehindBox'
    BY <2>1 DEF BehindBox
  <2>3. RetryInv'
    BY <2>1, <2>2 DEF RetryInv, Refused
  <2>4. FailedInv'
    BY <2>1 DEF FailedInv
  <2> QED
    BY <2>3, <2>4
<1>8. ASSUME NEW r \in net, Lose(r)
      PROVE  RetryInv' /\ FailedInv'
  BY <1>1, <1>8, AcceptQuiet DEF Lose, clientVars, histVars
<1>9. ASSUME NEW r \in net, Intercept(r)
      PROVE  RetryInv' /\ FailedInv'
  BY <1>9, AcceptDisturbed DEF Intercept
<1>10. CASE Rotate \/ GoDown
  BY <1>10, AcceptDisturbed DEF Rotate, GoDown
<1>11. CASE ComeBack
  <2>1. box'.nonce = box.nonce /\ box'.lastNC = box.lastNC
    BY <1>11 DEF ComeBack, SetDown, TypeOK, Box
  <2>2. box'.nonce = box.nonce /\ box'.lastNC >= box.lastNC
    BY <1>1, <2>1
  <2>3. /\ creds' = creds /\ auth' = auth /\ pc' = pc /\ cur' = cur
        /\ outcome' = outcome /\ restarts' = restarts /\ failed' = failed
        /\ seen' = seen /\ reply' = reply
    BY <1>11 DEF ComeBack, clientVars, histVars
  <2> QED
    BY <2>2, <2>3, AcceptQuiet
<1>12. ASSUME NEW c \in Credentials, Restart(c)
       PROVE  RetryInv' /\ FailedInv'
  BY <1>12, AcceptDisturbed DEF Restart
<1>13. CASE UNCHANGED vars
  BY <1>1, <1>13, AcceptQuiet DEF vars
<1> QED
  BY <1>2, <1>3, <1>4, <1>5, <1>6, <1>7, <1>8, <1>9, <1>10, <1>11, <1>12,
     <1>13 DEF Next

LEMMA AcceptCorrect == Spec => [](RetryInv /\ FailedInv)
<1>1. Init => RetryInv /\ FailedInv
  BY DEF Init, RetryInv, FailedInv
<1>2. TypeOK /\ TypeOK' /\ CountInv /\ CallInv /\ RetryInv /\ FailedInv
        /\ [Next]_vars => RetryInv' /\ FailedInv'
  BY AcceptStep
<1> QED
  BY <1>1, <1>2, TypeCorrect, CountsCorrect, CallsCorrect, PTL DEF Spec

\* Until the collector is restarted, no undisturbed call with the right
\* credentials is refused: one retry is enough, whatever came before.
THEOREM AcceptanceCorrect == Spec => []RightCredentialsAccepted
<1>1. RetryInv => RightCredentialsAccepted
  BY DEF RetryInv, RightCredentialsAccepted
<1> QED
  BY <1>1, AcceptCorrect, PTL

\* After a restart the box refuses at most as many calls as it remembers
\* counts, whichever way it answers a repeated count.
THEOREM RecoveryCorrect == Spec => []RecoversWithinBound
<1>1. TypeOK /\ FailedInv => RecoversWithinBound
  <2> SUFFICES ASSUME TypeOK, FailedInv
               PROVE  RecoversWithinBound
    OBVIOUS
  <2>1. failed \in Nat /\ box.lastNC \in Nat /\ failed <= box.lastNC
    BY DEF TypeOK, Box, FailedInv
  <2> QED
    BY <2>1 DEF RecoversWithinBound
<1> QED
  BY <1>1, AcceptCorrect, TypeCorrect, PTL
=============================================================================
