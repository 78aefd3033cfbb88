------------------------------- MODULE Digest -------------------------------
(* The digest state a TR-064 client keeps between calls:                    *)
(* receiver/fritzbox/internal/tr064/digest.go.                              *)
(*                                                                          *)
(* A nonce is the number of its generation, so that a later nonce is a      *)
(* larger number and no nonce is ever issued twice; 0 is the empty string.  *)
(* Realm, qop and cnonce are the same in every usable challenge and are not *)
(* represented.  The two operations run under digestAuth.mu: each is one    *)
(* step of the client.                                                      *)
EXTENDS Naturals

NoNonce == 0

DigestAuth == [nonce : Nat, nonceCnt : Nat]
Header     == [nonce : Nat, nc : Nat]

\* The zero value of digestAuth: no challenge has been cached.
NewDigestAuth == [nonce |-> NoNonce, nonceCnt |-> 0]

\* The empty Authorization header.
NoHeader == [nonce |-> NoNonce, nc |-> 0]

Cached(d) == d.nonce # NoNonce

\* Mutant: nonceCnt++ is missing.
Uncounted(d) == d

\* What authorizationFor leaves behind: the count of a cached nonce grows.
Counted(d) ==
    IF Cached(d) THEN [d EXCEPT !.nonceCnt = @ + 1] ELSE d

\* What authorizationFor returns: the cached nonce with its next count.
AuthorizationFor(d) ==
    IF Cached(d) THEN [nonce |-> d.nonce, nc |-> Counted(d).nonceCnt]
                 ELSE NoHeader

\* Mutant: the count restarts on every challenge.
CountRestarted(d, nonce) == [nonce |-> nonce, nonceCnt |-> 0]

\* A usable challenge replaces the cached one; the count restarts only when
\* the nonce is another one.
UpdateChallenge(d, nonce) ==
    [nonce |-> nonce, nonceCnt |-> IF d.nonce = nonce THEN d.nonceCnt ELSE 0]
=============================================================================
