---------------------------- MODULE KoutenClient ----------------------------
(***************************************************************************)
(* The native TCP client: one Client value shared by any number of         *)
(* goroutines (client.go).  A member of Calls is one API call; calls are   *)
(* serialized by the channel `gate`, reuse or open connections to the      *)
(* peers, and fail by cancellation, timeout, a dead socket or a reply the  *)
(* driver rejects.                                                         *)
(*                                                                         *)
(* exchange() and the handshake are taken here at the granularity of their *)
(* effects: a request is written whole or not at all, a reply is read      *)
(* whole or not at all.  A write the kernel takes only in part never       *)
(* becomes a request, because every request states its length.             *)
(*                                                                         *)
(* The server is external.  It answers the requests of one connection in   *)
(* order; it may still execute a request whose connection the client has   *)
(* closed.  It answers ERR only to a PUTR it did not store.                *)
(***************************************************************************)
EXTENDS Naturals, Sequences

CONSTANTS Calls,         \* the API calls, each made at most once
          Nodes,         \* the indexes of Client.peers
          MaxRedirects,  \* Options.MaxRedirects
          RetryReads     \* ~Options.DisableReadRetry

ASSUME ClientAssumption ==
    /\ Nodes \subseteq Nat
    /\ 0 \in Nodes
    /\ MaxRedirects \in Nat
    /\ RetryReads \in BOOLEAN

VARIABLES
    gate,         \* the one token of Client.gate is in the channel
    closed,       \* Client.closed
    connections,  \* the keys of Client.connections
    op,           \* which method the call is
    pc,           \* where in it the call is
    ctx,          \* "done" once ctx.Err() is not nil
    node, hops, attempt,    \* locals of read and readOperation
    result,       \* what the call returns
    sent,         \* history: requests the call has written
    requests,     \* per peer, written and not yet taken by the server
    replies,      \* per peer, written by the server and not yet read
    strays,       \* PUTRs the server may yet read from a closed connection
    applied       \* history: how often the server stored the call's record

callVars == <<op, pc, ctx, node, hops, attempt, result, sent>>
netVars  == <<requests, replies, strays, applied>>
vars == <<gate, closed, connections, callVars, netVars>>

Reads == {"get", "health"}                  \* the readOperation methods
Ops   == Reads \cup {"put", "close"}

IoErrors   == {"connection", "timeout"}
DialErrors == IoErrors \cup {"authentication", "version", "protocol", "server"}
Results    == DialErrors \cup {"none", "ok", "absent", "ctx", "closed",
                               "input", "indeterminate"}

Active   == {"ensure", "dial", "exchange", "write", "reply"}
Critical == Active \cup {"unlock"}
Places   == Critical \cup {"idle", "lock", "done"}

\* The identity of the request the call has on the wire.
Request(c) == [call |-> c, attempt |-> attempt[c], hop |-> hops[c]]

ReplyKinds == [put    |-> {"ID", "ERR", "BAD"},
               get    |-> {"VAL", "MISS", "FWD", "ERR", "BAD"},
               health |-> {"OK", "ERR", "BAD"}]

-----------------------------------------------------------------------------
(* Helpers that set parts of the next state.                               *)

\* MUTANT of Return: a return without the deferred unlock.
ReturnLocked(c, r) ==
    /\ pc' = [pc EXCEPT ![c] = "done"]
    /\ result' = [result EXCEPT ![c] = r]

\* Every return past lock() runs the deferred unlock.
Return(c, r) ==
    /\ pc' = [pc EXCEPT ![c] = "unlock"]
    /\ result' = [result EXCEPT ![c] = r]

\* ioError: a finished context hides the transport error.
IoError(c, e) == IF ctx[c] = "done" THEN "ctx" ELSE e

\* drop closes every connection.  Unread replies are gone; a PUTR already
\* handed to the kernel may still reach the server.
drop ==
    /\ connections' = {}
    /\ requests' = [n \in Nodes |-> <<>>]
    /\ replies' = [n \in Nodes |-> <<>>]
    /\ strays' = strays \cup
           {c \in Calls : /\ op[c] = "put"
                          /\ \E n \in Nodes : \E i \in DOMAIN requests[n] :
                                 requests[n][i].call = c}

\* The body of readOperation's loop starts from the caller's ID at peer 0.
StartAttempt(c, k) ==
    /\ pc' = [pc EXCEPT ![c] = "ensure"]
    /\ node' = [node EXCEPT ![c] = 0]
    /\ hops' = [hops EXCEPT ![c] = 0]
    /\ attempt' = [attempt EXCEPT ![c] = k]

\* MUTANT of Retryable: the loop of readOperation without its bound.
RetryableAlways(c, e) ==
    /\ ctx[c] = "live"
    /\ RetryReads
    /\ e \in IoErrors

\* readOperation's handling of an error e of its operation.
Retryable(c, e) ==
    /\ ctx[c] = "live"
    /\ attempt[c] = 0
    /\ RetryReads
    /\ e \in IoErrors

ReadFailed(c, e) ==
    /\ drop
    /\ \/ /\ Retryable(c, e)
          /\ StartAttempt(c, 1)
          /\ UNCHANGED result
       \/ /\ ~Retryable(c, e)
          /\ Return(c, IoError(c, e))
          /\ UNCHANGED <<node, hops, attempt>>

\* MUTANT of PutError: any answer of the server is taken for a refusal.
PutErrorAnswered(e, attempted) ==
    IF attempted /\ e \notin {"server", "authentication", "protocol"}
    THEN "indeterminate" ELSE e

\* PutCodec's classification of an error e of its exchange.
PutError(e, attempted) ==
    IF attempted /\ e \notin {"server", "authentication"}
    THEN "indeterminate" ELSE e

\* MUTANT of PutFailed: the connection stays open for the next call.
PutFailedKeep(c, e, attempted) ==
    /\ Return(c, PutError(e, attempted))
    /\ UNCHANGED <<connections, requests, replies, strays, node, hops, attempt>>

\* MUTANT of PutFailed: a put is retried like a read.
PutFailedRetry(c, e, attempted) ==
    /\ drop
    /\ \/ Retryable(c, e) /\ StartAttempt(c, 1) /\ UNCHANGED result
       \/ /\ ~Retryable(c, e)
          /\ Return(c, PutError(e, attempted))
          /\ UNCHANGED <<node, hops, attempt>>

PutFailed(c, e, attempted) ==
    /\ drop
    /\ Return(c, PutError(e, attempted))
    /\ UNCHANGED <<node, hops, attempt>>

ExchangeFailed(c, e, attempted) ==
    \/ op[c] = "put" /\ PutFailed(c, e, attempted)
    \/ op[c] \in Reads /\ ReadFailed(c, e)

-----------------------------------------------------------------------------
(* The steps of a call.                                                    *)

\* A method is entered.  Arguments it rejects return before lock().
Invoke(c, o) ==
    /\ pc[c] = "idle"
    /\ op' = [op EXCEPT ![c] = o]
    /\ \/ /\ pc' = [pc EXCEPT ![c] = "lock"]
          /\ UNCHANGED result
       \/ /\ o \in {"put", "get"}
          /\ pc' = [pc EXCEPT ![c] = "done"]
          /\ result' = [result EXCEPT ![c] = "input"]
    /\ UNCHANGED <<gate, closed, connections, ctx, node, hops, attempt, sent,
                   netVars>>

\* The application cancels the context, or its deadline passes.
Cancel(c) ==
    /\ ctx[c] = "live"
    /\ pc[c] # "done"
    /\ op[c] # "close"
    /\ ctx' = [ctx EXCEPT ![c] = "done"]
    /\ UNCHANGED <<gate, closed, connections, op, pc, node, hops, attempt,
                   result, sent, netVars>>

\* MUTANT of LockCanceled: lock waits for the token only.
LockUncancelable(c) == FALSE

\* lock's select takes ctx.Done().
LockCanceled(c) ==
    /\ pc[c] = "lock"
    /\ op[c] # "close"
    /\ ctx[c] = "done"
    /\ pc' = [pc EXCEPT ![c] = "done"]
    /\ result' = [result EXCEPT ![c] = "ctx"]
    /\ UNCHANGED <<gate, closed, connections, op, ctx, node, hops, attempt,
                   sent, netVars>>

\* MUTANT of Lock: closed is not checked again once the token is taken.
LockUnchecked(c) ==
    /\ pc[c] = "lock"
    /\ op[c] # "close"
    /\ gate
    /\ gate' = FALSE
    /\ \/ ctx[c] = "done" /\ Return(c, "ctx") /\ UNCHANGED <<node, hops, attempt>>
       \/ ctx[c] = "live" /\ StartAttempt(c, 0) /\ UNCHANGED result
    /\ UNCHANGED <<closed, connections, op, ctx, sent, netVars>>

\* lock's select takes the token; with both ready it may take either.
Lock(c) ==
    /\ pc[c] = "lock"
    /\ op[c] # "close"
    /\ gate
    /\ gate' = FALSE
    /\ \/ /\ ctx[c] = "done"
          /\ Return(c, "ctx")
          /\ UNCHANGED <<node, hops, attempt>>
       \/ /\ ctx[c] = "live"
          /\ closed
          /\ Return(c, "closed")
          /\ UNCHANGED <<node, hops, attempt>>
       \/ /\ ctx[c] = "live"
          /\ ~closed
          /\ StartAttempt(c, 0)
          /\ UNCHANGED result
    /\ UNCHANGED <<closed, connections, op, ctx, sent, netVars>>

\* Close waits for the token without a context.
Close(c) ==
    /\ pc[c] = "lock"
    /\ op[c] = "close"
    /\ gate
    /\ gate' = FALSE
    /\ drop
    /\ closed' = TRUE
    /\ Return(c, "ok")
    /\ UNCHANGED <<op, ctx, node, hops, attempt, sent, applied>>

\* The send into Client.gate, which blocks while the token is there.  The
\* locals of the method go out of scope.
Unlock(c) ==
    /\ pc[c] = "unlock"
    /\ ~gate
    /\ gate' = TRUE
    /\ pc' = [pc EXCEPT ![c] = "done"]
    /\ node' = [node EXCEPT ![c] = 0]
    /\ hops' = [hops EXCEPT ![c] = 0]
    /\ attempt' = [attempt EXCEPT ![c] = 0]
    /\ UNCHANGED <<closed, connections, op, ctx, result, sent, netVars>>

\* ensure looks the peer up in the map of connections.  Its checks of closed
\* and of the peer's number cannot fail here: lock has just seen closed unset
\* under the gate, and node is 0 or one that bounded has let through.
Ensure(c) ==
    /\ pc[c] = "ensure"
    /\ pc' = [pc EXCEPT ![c] = IF node[c] \in connections
                               THEN "exchange" ELSE "dial"]
    /\ UNCHANGED <<gate, closed, connections, op, ctx, node, hops, attempt,
                   result, sent, netVars>>

\* ensure dials, and the TLS and wire handshakes succeed.
Dialed(c) ==
    /\ pc[c] = "dial"
    /\ connections' = connections \cup {node[c]}
    /\ requests' = [requests EXCEPT ![node[c]] = <<>>]
    /\ replies' = [replies EXCEPT ![node[c]] = <<>>]
    /\ pc' = [pc EXCEPT ![c] = "exchange"]
    /\ UNCHANGED <<gate, closed, op, ctx, node, hops, attempt, result, sent,
                   strays, applied>>

\* ensure fails and closes the new socket.  PutCodec returns the error as it
\* is and keeps the other connections; a read drops them and may retry.
DialFailed(c, e) ==
    /\ pc[c] = "dial"
    /\ \/ /\ op[c] = "put"
          /\ Return(c, IoError(c, e))
          /\ UNCHANGED <<connections, requests, replies, strays, node, hops,
                         attempt>>
       \/ /\ op[c] \in Reads
          /\ ReadFailed(c, IoError(c, e))
    /\ UNCHANGED <<gate, closed, op, ctx, sent, applied>>

\* exchange up to the first Write: a finished context, or a frame that cannot
\* be sealed or given its deadline, is noticed before anything is sent.  The
\* error of sealing is returned as it is, also if the context, which was live
\* when exchange was entered, is done by then.
Exchange(c) ==
    /\ pc[c] = "exchange"
    /\ \/ /\ ctx[c] = "live"
          /\ pc' = [pc EXCEPT ![c] = "write"]
          /\ UNCHANGED <<connections, requests, replies, strays, node, hops,
                         attempt, result>>
       \/ /\ ctx[c] = "done"
          /\ ExchangeFailed(c, "ctx", FALSE)
       \/ ExchangeFailed(c, "connection", FALSE)
    /\ UNCHANGED <<gate, closed, op, ctx, sent, applied>>

\* The write loop hands the whole frame to the connection.
Write(c) ==
    /\ pc[c] = "write"
    /\ requests' = [requests EXCEPT ![node[c]] = Append(@, Request(c))]
    /\ sent' = [sent EXCEPT ![c] = @ + 1]
    /\ pc' = [pc EXCEPT ![c] = "reply"]
    /\ UNCHANGED <<gate, closed, connections, op, ctx, node, hops, attempt,
                   result, replies, strays, applied>>

\* The write loop stops early: a dead peer, WriteTimeout or cancellation.
WriteFailed(c, e) ==
    /\ pc[c] = "write"
    /\ ExchangeFailed(c, IoError(c, e), TRUE)
    /\ UNCHANGED <<gate, closed, op, ctx, sent, applied>>

\* The reply is missing or cut short: EOF, ReadTimeout or cancellation.
ReplyFailed(c, e) ==
    /\ pc[c] = "reply"
    /\ ExchangeFailed(c, IoError(c, e), TRUE)
    /\ UNCHANGED <<gate, closed, op, ctx, sent, applied>>

-----------------------------------------------------------------------------
(* What a reply that was read whole leads to.                              *)

Reply(c) == Head(replies[node[c]])
HasReply(c) == pc[c] = "reply" /\ replies[node[c]] # <<>>

Consume(c) ==
    /\ replies' = [replies EXCEPT ![node[c]] = Tail(@)]
    /\ UNCHANGED <<connections, requests, strays>>

\* The reply closure accepts: an ID, a value, MISS or GONE, a health line.
ReplyAccepted(c) ==
    /\ HasReply(c)
    /\ \/ Reply(c).kind \in {"ID", "VAL", "OK"} /\ Return(c, "ok")
       \/ Reply(c).kind = "MISS" /\ Return(c, "absent")
    /\ Consume(c)
    /\ UNCHANGED <<gate, closed, op, ctx, node, hops, attempt, sent, applied>>

\* MUTANT of MayRedirect: one redirect too many.
MayRedirectOnce(c) == hops[c] <= MaxRedirects

\* The refusal of FWD in the closure and the bound of the loop around it, which
\* cover each other and make one guard.
MayRedirect(c) == hops[c] < MaxRedirects

\* FWD moves the read to the peer it names while redirects remain.
Redirected(c) ==
    /\ HasReply(c)
    /\ Reply(c).kind = "FWD"
    /\ MayRedirect(c)
    /\ Consume(c)
    /\ node' = [node EXCEPT ![c] = Reply(c).node]
    /\ hops' = [hops EXCEPT ![c] = @ + 1]
    /\ pc' = [pc EXCEPT ![c] = "ensure"]
    /\ UNCHANGED <<gate, closed, op, ctx, attempt, result, sent, applied>>

\* ERR, a malformed reply, or one FWD too many.  drop discards the reply
\* together with the connection.
ReplyRejected(c) ==
    /\ HasReply(c)
    /\ \/ Reply(c).kind = "ERR" /\ ExchangeFailed(c, "server", TRUE)
       \/ Reply(c).kind = "BAD" /\ ExchangeFailed(c, "protocol", TRUE)
       \/ /\ Reply(c).kind = "FWD"
          /\ ~MayRedirect(c)
          /\ ExchangeFailed(c, "protocol", TRUE)
    /\ UNCHANGED <<gate, closed, op, ctx, sent, applied>>

-----------------------------------------------------------------------------
(* The server.                                                             *)

Stores(q, kind) == op[q.call] = "put" /\ kind # "ERR"

Serve(n) ==
    /\ requests[n] # <<>>
    /\ LET q == Head(requests[n])
       IN \E kind \in ReplyKinds[op[q.call]], m \in Nodes, stored \in BOOLEAN :
            /\ kind # "FWD" => m = n
            /\ stored => Stores(q, kind)
            /\ kind = "ID" => stored
            /\ replies' = [replies EXCEPT ![n] =
                   Append(@, [req |-> q, kind |-> kind, node |-> m])]
            /\ applied' = [applied EXCEPT ![q.call] =
                   IF stored THEN @ + 1 ELSE @]
    /\ requests' = [requests EXCEPT ![n] = Tail(@)]
    /\ UNCHANGED <<gate, closed, connections, callVars, strays>>

ServeStray(c) ==
    /\ c \in strays
    /\ strays' = strays \ {c}
    /\ applied' = [applied EXCEPT ![c] = @ + 1]
    /\ UNCHANGED <<gate, closed, connections, callVars, requests, replies>>

-----------------------------------------------------------------------------
\* Dial has connected peer 0 and filled the gate.
Init ==
    /\ gate = TRUE
    /\ closed = FALSE
    /\ connections = {0}
    /\ op = [c \in Calls |-> "none"]
    /\ pc = [c \in Calls |-> "idle"]
    /\ ctx = [c \in Calls |-> "live"]
    /\ node = [c \in Calls |-> 0]
    /\ hops = [c \in Calls |-> 0]
    /\ attempt = [c \in Calls |-> 0]
    /\ result = [c \in Calls |-> "none"]
    /\ sent = [c \in Calls |-> 0]
    /\ requests = [n \in Nodes |-> <<>>]
    /\ replies = [n \in Nodes |-> <<>>]
    /\ strays = {}
    /\ applied = [c \in Calls |-> 0]

Acquire(c) == Lock(c) \/ Close(c)

Progress(c) ==
    \/ LockCanceled(c) \/ Unlock(c)
    \/ Ensure(c) \/ Dialed(c) \/ Exchange(c) \/ Write(c)
    \/ ReplyAccepted(c) \/ Redirected(c) \/ ReplyRejected(c)
    \/ \E e \in DialErrors : DialFailed(c, e)
    \/ \E e \in IoErrors : WriteFailed(c, e) \/ ReplyFailed(c, e)

Server ==
    \/ \E n \in Nodes : Serve(n)
    \/ \E c \in Calls : ServeStray(c)

Next ==
    \/ \E c \in Calls :
          \/ \E o \in Ops : Invoke(c, o)
          \/ Cancel(c)
          \/ Acquire(c)
          \/ Progress(c)
    \/ Server

Spec == Init /\ [][Next]_vars

\* Every blocking step of a call that holds the gate is bounded by
\* ConnectTimeout, WriteTimeout or ReadTimeout, and a goroutine whose receive
\* from the gate can go on is scheduled.  Nothing is assumed of the server.
Fairness == \A c \in Calls : WF_vars(Acquire(c) \/ Progress(c))
=============================================================================
