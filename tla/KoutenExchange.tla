--------------------------- MODULE KoutenExchange ---------------------------
(***************************************************************************)
(* wire.exchange (wire.go:153-209), statement by statement: one request    *)
(* and its reply on a connection that successive exchanges reuse, raced by *)
(* the cancellation callback that context.AfterFunc starts in a goroutine  *)
(* of its own and by the deadlines of the socket.                          *)
(*                                                                         *)
(* Exchanges are numbered; call[e] names the context of exchange e, which  *)
(* the exchanges of one call share.  A context with a deadline is "due"    *)
(* between the passing of the deadline and the moment its timer, another   *)
(* goroutine, has set ctx.Err().                                           *)
(***************************************************************************)
EXTENDS Naturals

CONSTANTS MaxExchanges,  \* bound: exchanges in a behaviour
          Frame          \* pieces in which a frame may be written

ASSUME ExchangeAssumption == MaxExchanges \in Nat /\ Frame \in Nat \ {0}

VARIABLES
    exchange,       \* number of the current exchange, 0 before the first
    pc,             \* where in it its goroutine is
    call,           \* the context that an exchange was given
    bounded,        \* the contexts that have a deadline
    ctx,            \* the state of a context
    callback,       \* the AfterFunc of an exchange
    connection,     \* the connection that an exchange uses
    writeDeadline, readDeadline,  \* of the current connection's socket
    frame,          \* pieces of the frame still to write
    attempted,      \* *attempted
    failure,        \* the transport error at hand
    cause,          \* history: the socket deadline behind that error
    outcome         \* what the exchange returns

local   == <<frame, attempted, failure, cause, outcome>>
setup   == <<exchange, call, bounded, connection>>
sockets == <<writeDeadline, readDeadline>>
vars == <<setup, pc, ctx, callback, sockets, local>>

Exchanges == 1..MaxExchanges

\* A socket deadline is not set, or is ahead of us: the configured timeout or
\* the deadline of the context, whichever is earlier; or it has passed: the
\* configured timeout, the deadline of the context, or the callback's "now".
Ahead == {"configured", "context"}
Past  == {"lapsed", "reached", "fired"}

Done(c) == ctx[c] \in {"expired", "canceled"}         \* ctx.Err() # nil
Canceled == Done(call[exchange])

\* MUTANT of deadline: only the context limits the wait.
deadlineOfContext(c) ==
    IF ctx[c] \in {"due", "expired"} THEN {"reached"}
    ELSE IF bounded[c] THEN {"context"} ELSE {"none"}

\* The values deadline(ctx, d) can return.
deadline(c) ==
    IF ctx[c] \in {"due", "expired"} THEN {"reached"}
    ELSE IF bounded[c] THEN Ahead ELSE {"configured"}

-----------------------------------------------------------------------------
(* The goroutine that runs the exchange.                                   *)

\* The caller, which holds Client.gate, starts an exchange: of the same call
\* or of another one; on a fresh connection if the last exchange failed.
Begin ==
    /\ pc = "idle"
    /\ exchange < MaxExchanges
    /\ exchange' = exchange + 1
    /\ pc' = "start"
    /\ \E c \in {exchange'} \cup (IF exchange > 0 THEN {call[exchange]} ELSE {}) :
          call' = [call EXCEPT ![exchange'] = c]
    /\ IF exchange > 0 /\ outcome = "ok"
       THEN /\ connection' = [connection EXCEPT ![exchange'] = connection[exchange]]
            /\ UNCHANGED sockets
       ELSE /\ connection' = [connection EXCEPT ![exchange'] = exchange']
            /\ writeDeadline' = "none"
            /\ readDeadline' = "none"
    /\ frame' = Frame
    /\ attempted' = FALSE
    /\ failure' = "none"
    /\ cause' = "none"
    /\ outcome' = "none"
    /\ UNCHANGED <<bounded, ctx, callback>>

\* A return statement; what was deferred, if anything, runs next.
Return(r) ==
    /\ outcome' = r
    /\ pc' = IF callback[exchange] = "none" THEN "idle" ELSE "stop"

\* An error that ioError is going to classify.
Fail(e, why) ==
    /\ failure' = e
    /\ cause' = why
    /\ pc' = "ioError"

Start ==
    /\ pc = "start"
    /\ \/ Canceled /\ Return("ctx")
       \/ ~Canceled /\ \E r \in {"input", "connection"} : Return(r)
       \/ ~Canceled /\ pc' = "setWrite" /\ UNCHANGED outcome
    /\ UNCHANGED <<setup, ctx, callback, sockets, frame, attempted, failure,
                   cause>>

SetWriteDeadline ==
    /\ pc = "setWrite"
    /\ \/ /\ writeDeadline' \in deadline(call[exchange])
          /\ pc' = "arm"
          /\ UNCHANGED <<failure, cause>>
       \/ /\ Fail("connection", "none")
          /\ UNCHANGED writeDeadline
    /\ UNCHANGED <<setup, ctx, callback, readDeadline, frame, attempted,
                   outcome>>

\* context.AfterFunc starts the callback at once if the context is done.
AfterFunc ==
    /\ pc = "arm"
    /\ callback' = [callback EXCEPT ![exchange] =
                       IF Canceled THEN "running" ELSE "armed"]
    /\ pc' = "loop"
    /\ UNCHANGED <<setup, ctx, sockets, local>>

\* MUTANT of WriteLoop: a frame is taken for written after one Write.
WriteOnce ==
    /\ pc = "loop"
    /\ \/ frame < Frame /\ pc' = "setRead" /\ UNCHANGED <<attempted, outcome>>
       \/ frame = Frame /\ Canceled /\ Return("ctx") /\ UNCHANGED attempted
       \/ /\ frame = Frame
          /\ ~Canceled
          /\ attempted' = TRUE
          /\ pc' = "write"
          /\ UNCHANGED outcome
    /\ UNCHANGED <<setup, ctx, callback, sockets, frame, failure, cause>>

WriteLoop ==
    /\ pc = "loop"
    /\ \/ /\ frame = 0
          /\ pc' = "setRead"
          /\ UNCHANGED <<attempted, outcome>>
       \/ /\ frame > 0
          /\ Canceled
          /\ Return("ctx")
          /\ UNCHANGED attempted
       \/ /\ frame > 0
          /\ ~Canceled
          /\ attempted' = TRUE
          /\ pc' = "write"
          /\ UNCHANGED outcome
    /\ UNCHANGED <<setup, ctx, callback, sockets, frame, failure, cause>>

\* conn.Write takes n pieces; zero of them without an error ends the exchange.
Write(n) ==
    /\ pc = "write"
    /\ n <= frame
    /\ frame' = frame - n
    /\ \/ n > 0 /\ pc' = "loop" /\ UNCHANGED outcome
       \/ n = 0 /\ Return("connection")
    /\ UNCHANGED <<setup, ctx, callback, sockets, attempted, failure, cause>>

SetReadDeadline ==
    /\ pc = "setRead"
    /\ \/ /\ readDeadline' \in deadline(call[exchange])
          /\ pc' = "recheck"
          /\ UNCHANGED <<failure, cause>>
       \/ /\ Fail("connection", "none")
          /\ UNCHANGED readDeadline
    /\ UNCHANGED <<setup, ctx, callback, writeDeadline, frame, attempted,
                   outcome>>

\* MUTANT of Recheck: the reply is read whatever has happened to the context.
ReadAtOnce ==
    /\ pc = "recheck"
    /\ pc' = "read"
    /\ UNCHANGED <<setup, ctx, callback, sockets, local>>

Recheck ==
    /\ pc = "recheck"
    /\ \/ Canceled /\ Return("ctx")
       \/ ~Canceled /\ pc' = "read" /\ UNCHANGED outcome
    /\ UNCHANGED <<setup, ctx, callback, sockets, frame, attempted, failure,
                   cause>>

\* reply() reads a whole reply, which it accepts or rejects with an *Error.
Reply ==
    /\ pc = "read"
    /\ \E r \in {"ok", "rejected"} : Return(r)
    /\ UNCHANGED <<setup, ctx, callback, sockets, frame, attempted, failure,
                   cause>>

\* The operation that blocks the goroutine meets the deadline of the socket.
TimedOut ==
    /\ \/ pc = "write" /\ writeDeadline \in Past /\ Fail("timeout", writeDeadline)
       \/ pc = "read" /\ readDeadline \in Past /\ Fail("timeout", readDeadline)
    /\ UNCHANGED <<setup, ctx, callback, sockets, frame, attempted, outcome>>

\* The peer closes or resets the connection.
PeerFails ==
    /\ pc \in {"write", "read"}
    /\ Fail("connection", "none")
    /\ UNCHANGED <<setup, ctx, callback, sockets, frame, attempted, outcome>>

IoError ==
    /\ pc = "ioError"
    /\ Return(IF Canceled THEN "ctx" ELSE failure)
    /\ UNCHANGED <<setup, ctx, callback, sockets, frame, attempted, failure,
                   cause>>

\* MUTANT of Stop: a callback that runs already is not waited for.
StopOnly ==
    /\ pc = "stop"
    /\ callback' = [callback EXCEPT ![exchange] =
                       IF @ = "armed" THEN "stopped" ELSE @]
    /\ pc' = "idle"
    /\ UNCHANGED <<setup, ctx, sockets, local>>

\* The deferred stop().  It is true if it keeps the callback from starting,
\* also when the context is already done.
Stop ==
    /\ pc = "stop"
    /\ IF callback[exchange] = "armed"
       THEN /\ callback' = [callback EXCEPT ![exchange] = "stopped"]
            /\ pc' = "idle"
       ELSE /\ pc' = "wait"
            /\ UNCHANGED callback
    /\ UNCHANGED <<setup, ctx, sockets, local>>

\* <-done
Wait ==
    /\ pc = "wait"
    /\ callback[exchange] = "closed"
    /\ pc' = "idle"
    /\ UNCHANGED <<setup, ctx, callback, sockets, local>>

-----------------------------------------------------------------------------
(* Contexts, callbacks and the clock.                                      *)

Cancel(c) ==
    /\ ~Done(c)
    /\ ctx' = [ctx EXCEPT ![c] = IF @ = "due" THEN "expired" ELSE "canceled"]
    /\ UNCHANGED <<setup, pc, callback, sockets, local>>

DeadlinePasses(c) ==
    /\ bounded[c]
    /\ ctx[c] = "live"
    /\ ctx' = [ctx EXCEPT ![c] = "due"]
    /\ UNCHANGED <<setup, pc, callback, sockets, local>>

Fire(e) ==
    /\ callback[e] = "armed"
    /\ Done(call[e])
    /\ callback' = [callback EXCEPT ![e] = "running"]
    /\ UNCHANGED <<setup, pc, ctx, sockets, local>>

\* w.conn.SetDeadline(time.Now())
Interrupt(e) ==
    /\ callback[e] = "running"
    /\ callback' = [callback EXCEPT ![e] = "set"]
    /\ IF connection[e] = connection[exchange]
       THEN writeDeadline' = "fired" /\ readDeadline' = "fired"
       ELSE UNCHANGED sockets
    /\ UNCHANGED <<setup, pc, ctx, local>>

\* close(done)
CloseDone(e) ==
    /\ callback[e] = "set"
    /\ callback' = [callback EXCEPT ![e] = "closed"]
    /\ UNCHANGED <<setup, pc, ctx, sockets, local>>

\* What becomes of a deadline d that is ahead of us when its time comes.
Passed(d) == IF d = "configured" THEN "lapsed" ELSE "reached"
MayPass(d) == d = "configured" \/ (d = "context" /\ ctx[call[exchange]] # "live")

ExpireWrite ==
    /\ MayPass(writeDeadline)
    /\ writeDeadline' = Passed(writeDeadline)
    /\ UNCHANGED <<setup, pc, ctx, callback, readDeadline, local>>

ExpireRead ==
    /\ MayPass(readDeadline)
    /\ readDeadline' = Passed(readDeadline)
    /\ UNCHANGED <<setup, pc, ctx, callback, writeDeadline, local>>

-----------------------------------------------------------------------------
Init ==
    /\ exchange = 0
    /\ pc = "idle"
    /\ call = [e \in Exchanges |-> e]
    /\ bounded \in [Exchanges -> BOOLEAN]
    /\ ctx = [c \in Exchanges |-> "live"]
    /\ callback = [e \in Exchanges |-> "none"]
    /\ connection = [e \in Exchanges |-> e]
    /\ writeDeadline = "none"
    /\ readDeadline = "none"
    /\ frame = Frame
    /\ attempted = FALSE
    /\ failure = "none"
    /\ cause = "none"
    /\ outcome = "none"

\* The steps that do not depend on the peer.
Local ==
    \/ Start \/ SetWriteDeadline \/ AfterFunc \/ WriteLoop \/ SetReadDeadline
    \/ Recheck \/ TimedOut \/ IoError \/ Stop \/ Wait

Peer == Reply \/ PeerFails \/ \E n \in 0..Frame : Write(n)

Callback(e) == Fire(e) \/ Interrupt(e) \/ CloseDone(e)

Clock == ExpireWrite \/ ExpireRead \/ \E c \in Exchanges : DeadlinePasses(c)

Next ==
    \/ Begin \/ Local \/ Peer \/ Clock
    \/ \E c \in Exchanges : Cancel(c) \/ Callback(c)

Spec == Init /\ [][Next]_vars

\* Runnable goroutines are scheduled; peers may be silent for ever and clocks
\* may stand still.
PromptSpec ==
    /\ Spec
    /\ WF_vars(Local)
    /\ \A e \in Exchanges : WF_vars(Callback(e))

\* Time passes, too.
TimePasses ==
    /\ WF_vars(ExpireWrite) /\ WF_vars(ExpireRead)
    /\ \A c \in Exchanges : WF_vars(DeadlinePasses(c))
=============================================================================
