--------------------------- MODULE KoutenAdapter ----------------------------
(***************************************************************************)
(* The conformance adapter (cmd/conformance/main.go): a sequential program *)
(* that reads a request per line, performs it with the driver and writes   *)
(* one answer.  The clients it dials are taken at their word: a step of a  *)
(* client is one of KoutenContract, which KoutenClient implements.         *)
(***************************************************************************)
EXTENDS KoutenErrors, Naturals

CONSTANTS MaxLines  \* bound: lines of the input

ASSUME AdapterAssumption == MaxLines \in Nat

Lines == 1..MaxLines
nil   == 0

\* The call a line makes; call 0 is the deferred Close of main.
Calls == Lines \cup {0}

VARIABLES
    line,     \* lines read
    request,  \* Op of the last one; "end" after the input has ended
    pc,       \* "scan", "run", "closing", "wait", "answer", "exit"
    client,   \* *c: the line that has dialed it, or nil
    err,      \* what run has returned
    answers,  \* history: the answers written
    method, phase, outcome, stored,  \* the calls, as in KoutenContract
    sealed    \* of every client: it is closed, or was never dialed

adapter == <<line, request, pc, client, err, answers>>
vars    == <<adapter, method, phase, outcome, stored, sealed>>

Client(k) == INSTANCE KoutenContract
    WITH kind <- method, sealed <- sealed[k]

Methods  == {"put", "get", "health"}
\* Of what run refuses by itself, "undecodable" stands for an unknown Op, an ID
\* or a payload that cannot be decoded; "garbage" is a line that is no JSON.
Requests == Methods \cup {"connect", "close", "debug", "undecodable", "garbage"}

NoError == Error("none")

Init ==
    /\ line = 0 /\ request = "none" /\ pc = "scan" /\ client = nil
    /\ err = NoError /\ answers = [l \in Lines |-> "none"]
    /\ method = [c \in Calls |-> "none"] /\ phase = [c \in Calls |-> "new"]
    /\ outcome = [c \in Calls |-> "none"] /\ stored = [c \in Calls |-> 0]
    /\ sealed = [k \in Calls |-> TRUE]

calls == <<method, phase, outcome, stored>>

-----------------------------------------------------------------------------
(* main.                                                                   *)

Scan ==
    /\ pc = "scan" /\ line < MaxLines
    /\ line' = line + 1 /\ request' \in Requests /\ pc' = "run"
    /\ UNCHANGED <<client, err, answers, calls, sealed>>

\* The input ends, and the deferred function runs.
EndOfInput ==
    /\ pc = "scan"
    /\ request' = "end"
    /\ pc' = IF client = nil THEN "exit" ELSE "run"
    /\ UNCHANGED <<line, client, err, answers, calls, sealed>>

Answer(e) == err' = e /\ pc' = "answer"

Encode ==
    /\ pc = "answer"
    /\ answers' = [answers EXCEPT ![line] =
                      IF err = NoError THEN "ok" ELSE NameOf(err)]
    /\ pc' = "scan"
    /\ UNCHANGED <<line, request, client, err, calls, sealed>>

\* The answer cannot be written, or the input not read: os.Exit runs nothing
\* that was deferred.
Exit ==
    /\ pc \in {"answer", "scan"} /\ pc' = "exit"
    /\ UNCHANGED <<line, request, client, err, answers, calls, sealed>>

-----------------------------------------------------------------------------
(* run.                                                                    *)

This == IF request = "end" THEN 0 ELSE line

\* Close of the client at hand, which a connect replaces.
BeginClose ==
    /\ pc = "run" /\ request \in {"connect", "close", "end"} /\ client # nil
    /\ pc' = "closing"
    /\ UNCHANGED <<line, request, client, err, answers, sealed>>
    /\ \E k \in {client} : Client(k)!Start(This, "close")

EndClose ==
    /\ pc = "closing"
    /\ sealed' = [sealed EXCEPT ![client] = TRUE]
    /\ \E k \in {client} : Client(k)!Seal(This)
    /\ \/ request = "connect" /\ client' = nil /\ pc' = "run" /\ UNCHANGED err
       \/ request = "close" /\ Answer(NoError) /\ UNCHANGED client
       \/ request = "end" /\ pc' = "exit" /\ UNCHANGED <<client, err>>
    /\ UNCHANGED <<line, request, answers>>

\* MUTANT of Connect: Dial replaces a client that nobody has closed.
ConnectAnyway ==
    /\ pc = "run" /\ request = "connect"
    /\ client' = line /\ sealed' = [sealed EXCEPT ![line] = FALSE]
    /\ Answer(NoError)
    /\ UNCHANGED <<line, request, answers, calls>>

\* Dial returns a client, or nil and an error.
Connect ==
    /\ pc = "run" /\ request = "connect" /\ client = nil
    /\ \/ /\ client' = line /\ sealed' = [sealed EXCEPT ![line] = FALSE]
          /\ Answer(NoError)
       \/ /\ \E k \in Kinds \ {"closed", "indeterminate"} : Answer(Error(k))
          /\ UNCHANGED <<client, sealed>>
    /\ UNCHANGED <<line, request, answers, calls>>

\* What run answers without a call of the client.
AnswerAtOnce ==
    /\ pc = "run"
    /\ \/ request = "garbage" /\ Answer(Error("input"))
       \/ /\ client = nil /\ request \notin {"garbage", "connect"}
          /\ Answer(Error("closed"))
       \/ client # nil /\ request = "undecodable" /\ Answer(Error("input"))
       \/ client # nil /\ request = "debug" /\ Answer(NoError)
    /\ UNCHANGED <<line, request, client, answers, calls, sealed>>

Invoke ==
    /\ pc = "run" /\ request \in Methods /\ client # nil
    /\ UNCHANGED <<line, request, client, answers, sealed>>
    /\ \E k \in {client} :
          \/ Client(k)!Start(line, request) /\ pc' = "wait" /\ UNCHANGED err
          \/ Client(k)!Reject(line, request) /\ Answer(Error("input"))

\* The errors that run may get, or make, of an outcome.  A record may turn out
\* not to be JSON; a write of unknown outcome has the cause of its failure.
ErrorsOf(m, r) ==
    CASE r = "ok" -> {NoError} \cup (IF m = "get" THEN {Error("protocol")} ELSE {})
    []   r = "absent" -> {NoError}
    []   r = "indeterminate" ->
            [kind : {r}, cause : {"connection", "timeout", "protocol"}]
    []   OTHER -> {Error(r)}

\* The context is context.Background(), which is never done; and only get
\* tells that a record is absent.
Return ==
    /\ pc = "wait"
    /\ UNCHANGED <<line, request, client, answers, sealed>>
    /\ \E k \in {client}, r \in (Kinds \ {"input"}) \cup {"ok", "absent"} :
          /\ r = "absent" => request = "get"
          /\ Client(k)!Finish(line, r)
          /\ \E e \in ErrorsOf(request, r) : Answer(e)

-----------------------------------------------------------------------------
\* The server, also after the adapter has moved on.
Store ==
    /\ UNCHANGED <<adapter, sealed>>
    /\ \E k \in {client}, c \in Calls : Client(k)!Store(c)

Next ==
    \/ Scan \/ EndOfInput \/ Encode \/ Exit
    \/ BeginClose \/ EndClose \/ Connect \/ AnswerAtOnce \/ Invoke \/ Return
    \/ Store

Spec == Init /\ [][Next]_vars
=============================================================================
