------------------------- MODULE ExchangeInvariants -------------------------
(***************************************************************************)
(* What wire.exchange promises to the calls that reuse its connection:     *)
(* properties of KoutenExchange.                                           *)
(***************************************************************************)
EXTENDS KoutenExchange

Deadlines == {"none"} \cup Ahead \cup Past

\* The values that the locals of exchange, the contexts, the callbacks and
\* the deadlines of the socket take (wire.go:155-209).
TypeOK ==
    /\ exchange \in 0..MaxExchanges
    /\ pc \in {"idle", "start", "setWrite", "arm", "loop", "write", "setRead",
               "recheck", "read", "ioError", "stop", "wait"}
    /\ pc # "idle" => exchange > 0
    /\ call \in [Exchanges -> Exchanges]
    /\ bounded \in [Exchanges -> BOOLEAN]
    /\ ctx \in [Exchanges -> {"live", "due", "expired", "canceled"}]
    /\ callback \in [Exchanges -> {"none", "armed", "running", "set", "closed",
                                   "stopped"}]
    /\ connection \in [Exchanges -> Exchanges]
    /\ writeDeadline \in Deadlines
    /\ readDeadline \in Deadlines
    /\ frame \in 0..Frame
    /\ attempted \in BOOLEAN
    /\ failure \in {"none", "timeout", "connection"}
    /\ cause \in {"none"} \cup Past
    /\ outcome \in {"none", "ok", "rejected", "ctx", "timeout", "connection",
                    "input"}

\* No exchange is interrupted by the cancellation of another one: a callback's
\* deadline never turns into a timeout of an exchange whose own context is
\* live (the wait for a running callback, wire.go:154, 175-179).
NoForeignInterrupt == outcome = "timeout" => cause # "fired"

\* Cancellation is not lost: while a goroutine is blocked in Write or in reply()
\* and its context is done, the socket's deadline has passed or the callback
\* that will make it pass is still to run.  SetReadDeadline could undo an
\* earlier callback (the comment on wire.go:197).
Interrupted(d) == d \in Past \/ callback[exchange] \in {"armed", "running"}
CancellationKept ==
    /\ pc = "write" /\ Canceled => Interrupted(writeDeadline)
    /\ pc = "read" /\ Canceled => Interrupted(readDeadline)

\* `attempted`, from which PutCodec decides whether the outcome of a write is
\* unknown (client.go:175), is set before the first byte may have left; and a
\* reply is accepted only after the whole frame has (wire.go:180-193).
AttemptedTruthful ==
    /\ frame < Frame => attempted
    /\ outcome \in {"ok", "rejected"} => frame = 0

\* docs/native-tcp.md:73-74 says of ErrTimeout "Configured connect/read/write
\* timeout", as opposed to the caller's deadline.  deadline() gives the socket
\* the caller's deadline when that is earlier (wire.go:145-151), and the read
\* may fail of it before ctx.Err() is set (errors.go:36-41).
TimeoutIsConfigured == outcome = "timeout" => cause = "lapsed"

-----------------------------------------------------------------------------
(* The inductive invariant.                                                *)

Over     == {"none", "stopped", "closed"}
Pending  == {"armed", "running", "set", "closed"}
Deferred == {"loop", "write", "setRead", "recheck", "read", "stop", "wait"}

\* Only the current exchange has a callback that may still run, none does
\* between exchanges, and one that has started was started by cancellation.
CallbackInv ==
    /\ \A e \in Exchanges : e # exchange => callback[e] \in Over
    /\ \A e \in Exchanges : e > exchange => callback[e] = "none"
    /\ pc = "idle" /\ exchange > 0 => callback[exchange] \in Over
    /\ pc \in {"start", "setWrite", "arm"} => callback[exchange] = "none"
    /\ pc = "ioError" => callback[exchange] \in Pending \cup {"none"}
    /\ pc \in Deferred => callback[exchange] \in Pending
    /\ exchange > 0 /\ callback[exchange] \in {"running", "set", "closed"}
           => Canceled

\* A deadline that the current exchange has set is "fired" only by its own
\* cancellation, and stays in the past once its callback has run.
DeadlineInv ==
    /\ pc \in {"arm", "loop", "write"} /\ writeDeadline = "fired" => Canceled
    /\ pc \in {"recheck", "read"} /\ readDeadline = "fired" => Canceled
    /\ pc = "ioError" /\ cause = "fired" => Canceled
    /\ pc \in {"loop", "write"} /\ callback[exchange] \in {"set", "closed"}
           => writeDeadline \in Past
    /\ pc = "read" /\ callback[exchange] \in {"set", "closed"}
           => readDeadline \in Past

\* What of the frame has left, and what the exchange has returned, by place.
FrameInv ==
    /\ pc \in {"start", "setWrite", "arm"} => frame = Frame /\ ~attempted
    /\ pc \in {"setRead", "recheck", "read"} => frame = 0
    /\ pc = "write" => attempted
    /\ pc = "ioError" /\ failure = "timeout" => attempted
    /\ pc = "ioError" => failure # "none"
    /\ pc \notin {"idle", "stop", "wait"} => outcome = "none"

ExchangeInv ==
    /\ TypeOK
    /\ CallbackInv
    /\ DeadlineInv
    /\ FrameInv
    /\ NoForeignInterrupt
    /\ AttemptedTruthful

-----------------------------------------------------------------------------
(* The contract.                                                           *)

Contract == INSTANCE ExchangeContract
    WITH phase <- IF pc \in {"idle", "stop", "wait"} THEN "idle" ELSE "running",
         canceled <- exchange > 0 /\ Canceled,
         delivered <- frame = 0

\* With its callback, its deadlines and its partial writes exchange does
\* nothing that its callers do not reckon with: what a method concludes from
\* the error and from `attempted` is right (wire.go:155-209).
ImplementsContract == Contract!Spec

-----------------------------------------------------------------------------
(* Liveness.                                                               *)

\* A canceled exchange returns, whatever the peer does and however long the
\* configured timeouts are (PromptSpec).
PromptCancel == (pc # "idle" /\ Canceled) ~> (pc = "idle")

\* When time passes an exchange returns also if the peer never answers and
\* nobody cancels, and even a canceled one does not wait for a callback that
\* never ends.
ExchangeReturns == TimePasses => (pc # "idle") ~> (pc = "idle")
=============================================================================
