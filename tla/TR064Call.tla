----------------------------- MODULE TR064Call ------------------------------
(* What a caller may rely on of Client.CallWithArgs, without digests,       *)
(* requests or the network: receiver/fritzbox/internal/tr064/client.go.     *)
(*                                                                          *)
(* One call at a time is made and returns.  The device authorizes a call at *)
(* most once, and then an action is never invoked a second time; nothing    *)
(* but an authorized call brings a protected action's data, and a call that *)
(* was authorized is never reported as unauthorized.  A SOAP fault is as    *)
(* good as data until the collector is restarted: from then on it may also  *)
(* be the device's answer to a nonce count it has seen before.              *)
CONSTANTS
    Actions,   \* the SOAP actions a call may invoke
    NoAuth     \* those that need no authentication

VARIABLES
    creds,       \* the client's credentials
    running,     \* is a call under way?
    action,      \* the action of the last call
    authorized,  \* has the device authorized the last call?
    restarted,   \* has the collector ever been restarted?
    outcome      \* what the last call returned, "none" while it runs

vars == <<creds, running, action, authorized, restarted, outcome>>

Credentials == {"none", "right", "wrong"}

\* What a call may return where it stands.
MayReturn(result) ==
    CASE result = "ok"           -> action \in NoAuth \/ authorized
      [] result = "fault"        -> \/ action \in NoAuth \/ authorized
                                    \/ restarted /\ creds # "none"
      [] result = "unauthorized" -> ~authorized
      [] OTHER                   -> result = "error"

Init ==
    /\ creds \in Credentials
    /\ running = FALSE /\ action = "none" /\ authorized = FALSE
    /\ restarted = FALSE /\ outcome = "none"

Begin(a) ==
    /\ ~running
    /\ running' = TRUE /\ action' = a /\ authorized' = FALSE
    /\ outcome' = "none"
    /\ UNCHANGED <<creds, restarted>>

Authorize ==
    /\ running /\ ~authorized
    /\ creds = "right" /\ action \notin NoAuth
    /\ authorized' = TRUE
    /\ UNCHANGED <<creds, running, action, restarted, outcome>>

Return(result) ==
    /\ running /\ MayReturn(result)
    /\ running' = FALSE /\ outcome' = result
    /\ UNCHANGED <<creds, action, authorized, restarted>>

\* A new collector process forgets the call.
Restart(c) ==
    /\ creds' = c /\ running' = FALSE /\ restarted' = TRUE
    /\ outcome' = "none"
    /\ UNCHANGED <<action, authorized>>

Results == {"ok", "fault", "unauthorized", "error"}

Next ==
    \/ \E a \in Actions : Begin(a)
    \/ Authorize
    \/ \E result \in Results : Return(result)
    \/ \E c \in Credentials : Restart(c)

Safety == Init /\ [][Next]_vars

\* Every call returns.
Fairness == WF_vars(\E result \in Results : Return(result))

Spec == Safety /\ Fairness
=============================================================================
