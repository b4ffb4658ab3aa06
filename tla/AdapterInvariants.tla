------------------------- MODULE AdapterInvariants --------------------------
(***************************************************************************)
(* Properties of KoutenAdapter: what an answer tells the harness.          *)
(***************************************************************************)
EXTENDS KoutenAdapter

Names == {"ok", "IndeterminateWriteException", "AuthenticationException",
          "ProtocolException", "VersionMismatchException",
          "ConnectionTimeoutException", "ConnectionException",
          "ServerException", "InvalidInputException"}

\* The variables of main and run, and the state of the calls.
TypeOK ==
    /\ line \in 0..MaxLines /\ request \in Requests \cup {"none", "end"}
    /\ pc \in {"scan", "run", "closing", "wait", "answer", "exit"}
    /\ client \in Calls
    /\ err \in ErrorType \cup {NoError}
    /\ answers \in [Lines -> Names \cup {"none"}]
    /\ method \in [Calls -> Methods \cup {"none", "close"}]
    /\ phase \in [Calls -> {"new", "running", "returned"}]
    /\ outcome \in [Calls -> Kinds \cup {"none", "ok", "absent"}]
    /\ stored \in [Calls -> {0, 1}]
    /\ sealed \in [Calls -> BOOLEAN]

\* End to end, from the server to the harness: a put that is answered ok is
\* stored, and one that is answered by an error is not and never will be,
\* unless the answer says that nobody knows -- whatever has made the put fail,
\* whichever clients came and went (main.go:34-52, client.go:173-180).
PutAnswersTruthful ==
    \A l \in Lines :
        /\ method[l] = "put" /\ answers[l] = "ok" => stored[l] = 1
        /\ answers[l] \notin {"none", "ok", "IndeterminateWriteException"}
               => stored[l] = 0

\* An answer does not depend on the cause that an error wraps, a closed client
\* is a failed connection, and ErrInvalidInput, the default of kind, is what
\* the driver says of a request that it has not tried (main.go:34-52,
\* errors.go:18-21).  The Close that comes with a connect is not answered for.
AnswersNamed ==
    \A l \in Lines : answers[l] # "none" =>
        /\ outcome[l] = "indeterminate"
               <=> answers[l] = "IndeterminateWriteException"
        /\ outcome[l] \in {"connection", "closed"}
               => answers[l] = "ConnectionException"
        /\ outcome[l] = "timeout" => answers[l] = "ConnectionTimeoutException"
        /\ answers[l] = "InvalidInputException" /\ method[l] # "close"
               => outcome[l] \in {"none", "input"}

\* At most one client is open, the one at hand, and none after the input has
\* ended (main.go:57-60, 140-144).
ClientsClosed ==
    /\ \A k \in Calls : ~sealed[k] => k = client
    /\ pc = "exit" /\ request = "end" => \A k \in Calls : sealed[k]

-----------------------------------------------------------------------------
(* The inductive invariant.                                                *)

\* What run returns of a call m whose outcome is r.
Fits(e, m, r) ==
    /\ r = "indeterminate" <=> e.kind = "indeterminate"
    /\ e = NoError => r \in {"none", "ok", "absent"}
    /\ r = "closed" => e.kind = "closed"
    /\ r \in {"connection", "timeout", "input"} => e = Error(r)
    /\ e.kind = "input" /\ m # "close"
           => r \in {"none", "input"}
    /\ e.kind # "indeterminate" => e.cause = "none"
    /\ e.kind # "ctx"
    /\ m = "put" /\ r = "ok" => e = NoError
    /\ m = "put" /\ e = NoError => r = "ok"

\* The line in work, and those that are still to come.
LineInv ==
    /\ request # "none" <=> line > 0 \/ request = "end"
    /\ client <= line
    /\ pc \in {"run", "closing", "wait", "answer"} => request # "none"
    /\ pc \in {"closing", "wait"} => client # nil
    /\ pc = "closing" => request \in {"connect", "close", "end"}
    /\ pc = "wait" => request \in Methods
    /\ pc \in {"closing", "wait"} => phase[This] = "running"
                                     /\ method[This] =
                                        (IF pc = "wait" THEN request ELSE "close")
    /\ pc = "run" /\ ~(request = "connect" /\ client = nil)
           => phase[This] = "new"
    /\ \A l \in Lines : l > line => phase[l] = "new" /\ sealed[l]
    /\ request # "end" => phase[0] = "new"
    /\ \A l \in Lines : l > line => answers[l] = "none"
    /\ pc \in {"run", "closing", "wait", "answer"} /\ request # "end"
           => answers[line] = "none"
    /\ request = "end" => pc \in {"run", "closing", "exit"}
    /\ request = "end" /\ pc = "run" => client # nil
    /\ \A c \in Calls : phase[c] = "running" => c = This /\ pc \in {"closing", "wait"}
    /\ sealed[nil]

\* What has become of a call.
CallInv ==
    \A c \in Calls :
        /\ phase[c] = "new" => method[c] = "none"
        /\ phase[c] # "returned" => outcome[c] = "none"
        /\ stored[c] # 0 => method[c] = "put"
        /\ phase[c] = "returned" /\ method[c] = "put" =>
              /\ outcome[c] = "ok" => stored[c] = 1
              /\ outcome[c] \notin {"ok", "indeterminate"} => stored[c] = 0
              /\ outcome[c] \notin {"none", "absent"}

\* A connect makes no call but the Close of the client that it replaces.
ConnectedLine ==
    request = "connect" /\ pc \in {"run", "closing"} =>
        /\ outcome[line] \in {"none", "ok"}
        /\ method[line] # "close" => method[line] = "none" /\ outcome[line] = "none"

AdapterInv ==
    /\ TypeOK
    /\ LineInv
    /\ CallInv
    /\ ConnectedLine
    /\ pc = "answer" => line > 0 /\ Fits(err, method[line], outcome[line])
    /\ PutAnswersTruthful
    /\ AnswersNamed
    /\ ClientsClosed
=============================================================================
