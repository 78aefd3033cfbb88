------------------------------ MODULE FakeBox -------------------------------
(* The device side of digest authentication: one current nonce, shared by   *)
(* every client of the box, and the last nonce count it accepted for that   *)
(* nonce.  internal/fakebox states it, but for one thing: it challenges a   *)
(* request that repeats a count, where digest.go says that a real box       *)
(* mostly answers it with a spurious SOAP fault.  Both answers are modelled.*)
EXTENDS Digest

\* issued counts the nonces newNonce has made: the next one is issued + 1.
Box == [nonce : Nat, lastNC : Nat, issued : Nat, down : BOOLEAN]

NewBox == [nonce |-> NoNonce, lastNC |-> 0, issued |-> 0, down |-> FALSE]

\* authorize first makes a nonce when the box has none.
WithNonce(b) ==
    IF b.nonce # NoNonce THEN b
    ELSE [b EXCEPT !.nonce = b.issued + 1, !.issued = @ + 1, !.lastNC = 0]

\* What authorize makes of a header.  Only "rejected" is a failure of the
\* credentials (it is the one that counts in Stats.Rejected).
Verdict(b, h, creds) ==
    CASE h = NoHeader          -> "challenged"
      [] h # NoHeader /\ h.nonce # b.nonce -> "stale"
      [] h # NoHeader /\ h.nonce = b.nonce /\ h.nc <= b.lastNC -> "replayed"
      [] OTHER -> IF creds = "right" THEN "authorized" ELSE "rejected"

Verdicts == {"challenged", "stale", "replayed", "rejected", "authorized"}

\* How the box may answer a request it did not authorize: with a 401 and a
\* challenge for its current nonce or, when a count was repeated, with an
\* HTTP 500 that carries a SOAP fault.
Refusals(verdict) ==
    IF verdict = "replayed" THEN {"challenge", "fault"} ELSE {"challenge"}

\* The box after authorize gave that verdict: it remembers the count of a
\* request it authorized.
Judged(b, h, verdict) ==
    IF verdict = "authorized" THEN [b EXCEPT !.lastNC = h.nc] ELSE b

RotateNonce(b) == [b EXCEPT !.nonce = NoNonce, !.lastNC = 0]

SetDown(b, down) == [b EXCEPT !.down = down]
=============================================================================
