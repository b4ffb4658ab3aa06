--------------------------- MODULE KoutenContract ---------------------------
(***************************************************************************)
(* What a Client promises to the goroutines that share it, without gate,   *)
(* connections, retries or redirects: when a record may be stored, what a  *)
(* returned error says about it, and what Close means for everybody else.  *)
(***************************************************************************)
EXTENDS Naturals

CONSTANTS Calls

VARIABLES
    kind,     \* the method called
    phase,    \* "new", "running", "returned"
    outcome,  \* what the call returned
    stored,   \* how often the record of the call has been stored
    sealed    \* a Close has returned

vars == <<kind, phase, outcome, stored, sealed>>

Init ==
    /\ kind = [c \in Calls |-> "none"]
    /\ phase = [c \in Calls |-> "new"]
    /\ outcome = [c \in Calls |-> "none"]
    /\ stored = [c \in Calls |-> 0]
    /\ sealed = FALSE

Start(c, m) ==
    /\ phase[c] = "new"
    /\ kind' = [kind EXCEPT ![c] = m]
    /\ phase' = [phase EXCEPT ![c] = "running"]
    /\ UNCHANGED <<outcome, stored, sealed>>

\* Arguments that are rejected.
Reject(c, m) ==
    /\ phase[c] = "new"
    /\ m \in {"put", "get"}
    /\ kind' = [kind EXCEPT ![c] = m]
    /\ phase' = [phase EXCEPT ![c] = "returned"]
    /\ outcome' = [outcome EXCEPT ![c] = "input"]
    /\ UNCHANGED <<stored, sealed>>

\* A record is stored at most once: while its put runs, or after the put has
\* admitted that it does not know.
Store(c) ==
    /\ kind[c] = "put"
    /\ stored[c] = 0
    /\ \/ phase[c] = "running" /\ ~sealed
       \/ phase[c] = "returned" /\ outcome[c] = "indeterminate"
    /\ stored' = [stored EXCEPT ![c] = 1]
    /\ UNCHANGED <<kind, phase, outcome, sealed>>

\* A put or a read returns.
Finish(c, r) ==
    /\ phase[c] = "running"
    /\ kind[c] \in {"put", "get", "health"}
    /\ kind[c] = "put" =>
          /\ r = "ok" => stored[c] = 1
          /\ r \notin {"ok", "indeterminate"} => stored[c] = 0
    /\ kind[c] # "put" => r # "indeterminate"
    /\ sealed => r \in {"closed", "ctx"}
    /\ r = "closed" => sealed
    /\ phase' = [phase EXCEPT ![c] = "returned"]
    /\ outcome' = [outcome EXCEPT ![c] = r]
    /\ UNCHANGED <<kind, stored, sealed>>

Seal(c) ==
    /\ phase[c] = "running"
    /\ kind[c] = "close"
    /\ phase' = [phase EXCEPT ![c] = "returned"]
    /\ outcome' = [outcome EXCEPT ![c] = "ok"]
    /\ sealed' = TRUE
    /\ UNCHANGED <<kind, stored>>

Next ==
    \E c \in Calls :
       \/ \E m \in {"put", "get", "health", "close"} : Start(c, m) \/ Reject(c, m)
       \/ Store(c)
       \/ \E r \in {"ok", "absent", "ctx", "closed", "connection", "timeout",
                    "authentication", "version", "protocol", "server",
                    "indeterminate"} : Finish(c, r)
       \/ Seal(c)

Spec == Init /\ [][Next]_vars
=============================================================================
