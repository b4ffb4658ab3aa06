-------------------------- MODULE EmbeddedContract --------------------------
(***************************************************************************)
(* What a DB of the embedded driver promises, without worker, thread,      *)
(* channel or mutex: every method takes effect at one moment between its   *)
(* call and its return, on a database that no other method is using, and   *)
(* Close ends that for good.  A failed put, update or remove may have      *)
(* changed the database: the library promises no rollback.                 *)
(***************************************************************************)
EXTENDS Naturals

CONSTANTS DBs, Calls

VARIABLES
    state,    \* per DB: "unopened", "open", "shut"
    stored,   \* per DB: the record exists
    method, target, phase,  \* per call; "new", "running", "answered", "returned"
    answer    \* per call: what it returns

vars == <<state, stored, method, target, phase, answer>>

Methods == {"get", "query", "update", "remove", "put", "readRing", "close"}

Init ==
    /\ state = [d \in DBs |-> "unopened"]
    /\ stored = [d \in DBs |-> FALSE]
    /\ method = [c \in Calls |-> "none"]
    /\ target \in [Calls -> DBs]
    /\ phase = [c \in Calls |-> "new"]
    /\ answer = [c \in Calls |-> "none"]

\* A directory that is opened may hold data.
Open(d) ==
    /\ state[d] = "unopened"
    /\ state' = [state EXCEPT ![d] = "open"]
    /\ \E r \in BOOLEAN : stored' = [stored EXCEPT ![d] = r]
    /\ UNCHANGED <<method, target, phase, answer>>

Begin(c, m, d) ==
    /\ phase[c] = "new"
    /\ state[d] # "unopened"
    /\ method' = [method EXCEPT ![c] = m]
    /\ target' = [target EXCEPT ![c] = d]

Start(c, m, d) ==
    /\ Begin(c, m, d)
    /\ phase' = [phase EXCEPT ![c] = "running"]
    /\ UNCHANGED <<state, stored, answer>>

Reject(c, m, d) ==
    /\ Begin(c, m, d)
    /\ m # "close"
    /\ phase' = [phase EXCEPT ![c] = "returned"]
    /\ answer' = [answer EXCEPT ![c] = "input"]
    /\ UNCHANGED <<state, stored>>

Answer(c, r) ==
    /\ phase[c] = "running"
    /\ phase' = [phase EXCEPT ![c] = "answered"]
    /\ answer' = [answer EXCEPT ![c] = r]
    /\ UNCHANGED <<method, target>>

\* A method meets a DB that is open, or fails; a put, update or remove that
\* fails may have changed the database all the same.
Perform(c) ==
    LET d == target[c] IN
    /\ method[c] # "close"
    /\ state[d] = "open"
    /\ \/ /\ method[c] \in {"get", "query", "update", "remove"} => stored[d]
          /\ Answer(c, "ok")
          /\ stored' = [stored EXCEPT ![d] =
                           IF method[c] = "put" THEN TRUE
                           ELSE IF method[c] = "remove" THEN FALSE ELSE @]
       \/ /\ method[c] \in {"get", "query", "update", "remove"}
          /\ ~stored[d]
          /\ Answer(c, IF method[c] = "get" THEN "absent" ELSE "notFound")
          /\ UNCHANGED stored
       \/ /\ Answer(c, "abi")
          /\ \E r \in BOOLEAN :
                /\ method[c] \notin {"put", "update", "remove"} => r = stored[d]
                /\ stored' = [stored EXCEPT ![d] = r]
    /\ UNCHANGED state

Shut(c) ==
    /\ method[c] = "close"
    /\ state[target[c]] = "open"
    /\ state' = [state EXCEPT ![target[c]] = "shut"]
    /\ Answer(c, "ok")
    /\ UNCHANGED stored

TooLate(c) ==
    /\ state[target[c]] = "shut"
    /\ Answer(c, IF method[c] = "close" THEN "ok" ELSE "closed")
    /\ UNCHANGED <<state, stored>>

Return(c) ==
    /\ phase[c] = "answered"
    /\ phase' = [phase EXCEPT ![c] = "returned"]
    /\ UNCHANGED <<state, stored, method, target, answer>>

Next ==
    \/ \E d \in DBs : Open(d)
    \/ \E c \in Calls :
          \/ \E m \in Methods, d \in DBs : Start(c, m, d) \/ Reject(c, m, d)
          \/ Perform(c) \/ Shut(c) \/ TooLate(c) \/ Return(c)

Spec == Init /\ [][Next]_vars
=============================================================================
