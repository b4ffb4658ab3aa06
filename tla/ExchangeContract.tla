-------------------------- MODULE ExchangeContract --------------------------
(***************************************************************************)
(* What the client's methods and the handshake rely on when they call      *)
(* wire.exchange (wire.go:153-209), without callbacks, deadlines or frames *)
(* in pieces: how far the request has got, and which of the returned       *)
(* errors that admits.                                                     *)
(***************************************************************************)

VARIABLES
    phase,      \* "idle" or "running"
    canceled,   \* the context of the exchange is done
    attempted,  \* bytes of the request may have left
    delivered,  \* the connection has taken the whole request
    outcome     \* what the last exchange returned, "none" while it runs

vars == <<phase, canceled, attempted, delivered, outcome>>

Init ==
    /\ phase = "idle" /\ outcome = "none"
    /\ canceled = FALSE /\ attempted = FALSE /\ delivered = FALSE

\* A context may be done before its exchange begins.
Begin ==
    /\ phase = "idle" /\ phase' = "running"
    /\ canceled' \in BOOLEAN
    /\ attempted' = FALSE /\ delivered' = FALSE /\ outcome' = "none"

\* Also between two exchanges of one context.
Cancel ==
    /\ canceled' = TRUE
    /\ UNCHANGED <<phase, attempted, delivered, outcome>>

\* No request is begun for a context that is done.
Attempt ==
    /\ phase = "running" /\ ~canceled
    /\ attempted' = TRUE
    /\ UNCHANGED <<phase, canceled, delivered, outcome>>

Deliver ==
    /\ phase = "running" /\ attempted
    /\ delivered' = TRUE
    /\ UNCHANGED <<phase, canceled, attempted, outcome>>

\* What may be returned: a reply only to a whole request, the error of a
\* context only if that is done, a timeout only for a request that was begun
\* and whose context is not done, and ErrInvalidInput only for one that was
\* not begun.
Allowed(r) ==
    \/ r \in {"ok", "rejected"} /\ delivered
    \/ r = "ctx" /\ canceled
    \/ r = "timeout" /\ attempted /\ ~canceled
    \/ r = "input" /\ ~attempted
    \/ r = "connection"

Finish ==
    /\ phase = "running" /\ phase' = "idle"
    /\ outcome' \in {"ok", "rejected", "ctx", "timeout", "input", "connection"}
    /\ Allowed(outcome')
    /\ UNCHANGED <<canceled, attempted, delivered>>

Next == Begin \/ Cancel \/ Attempt \/ Deliver \/ Finish

Spec == Init /\ [][Next]_vars
=============================================================================
