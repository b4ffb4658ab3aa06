--------------------------- MODULE ClientExchange ---------------------------
(***************************************************************************)
(* The client over the contract of wire.exchange: where KoutenClient takes *)
(* an exchange by its effects (client.go:160-179, 187-199, 257-291), here  *)
(* PutCodec, Health and read call an exchange of which they know no more   *)
(* than ExchangeContract says, and act on the error that it returns and on *)
(* `attempted`.  Everything else is KoutenClient's.                        *)
(***************************************************************************)
EXTENDS ClientInvariants

VARIABLES exPhase, exCanceled, exAttempted, exDelivered, exOutcome

exVars == <<exPhase, exCanceled, exAttempted, exDelivered, exOutcome>>

\* The exchange of the call that holds the gate; the calls take turns.
Ex == INSTANCE ExchangeContract
    WITH phase <- exPhase, canceled <- exCanceled, attempted <- exAttempted,
         delivered <- exDelivered, outcome <- exOutcome

Exchanging(c) == pc[c] \in {"exchange", "write", "reply"}
Runs(c) == Exchanging(c) /\ exPhase = "running"

\* w.exchange(ctx, ...) is called.
Call(c) ==
    /\ pc[c] = "exchange"
    /\ Ex!Begin
    /\ exCanceled' = (ctx[c] = "done")
    /\ UNCHANGED vars

CancelCall(c) ==
    /\ Cancel(c)
    /\ IF Runs(c) THEN Ex!Cancel ELSE UNCHANGED exVars

\* From here on the server may have part of the request.
Attempt(c) ==
    /\ Runs(c)
    /\ ~exAttempted
    /\ Ex!Attempt
    /\ pc' = [pc EXCEPT ![c] = "write"]
    /\ UNCHANGED <<gate, closed, connections, op, ctx, node, hops, attempt,
                   result, sent, netVars>>

\* Only now has the server a request that it can act on.
Deliver(c) ==
    /\ Runs(c)
    /\ ~exDelivered
    /\ Ex!Deliver
    /\ Write(c)

\* MUTANT of Failed: the method does not ask whether the request was begun.
FailedUnasked(c) ==
    /\ Runs(c)
    /\ Ex!Finish
    /\ exOutcome' \in {"ctx", "timeout", "connection"}
    /\ ExchangeFailed(c, exOutcome', FALSE)
    /\ UNCHANGED <<gate, closed, op, ctx, sent, applied>>

\* The exchange returns an error of its own.  ErrInvalidInput is not among
\* them: the methods have checked what goes into a request (client.go:148,
\* 240), and what else a header holds is short.
Failed(c) ==
    /\ Runs(c)
    /\ Ex!Finish
    /\ exOutcome' \in {"ctx", "timeout", "connection"}
    /\ ExchangeFailed(c, exOutcome', exAttempted)
    /\ UNCHANGED <<gate, closed, op, ctx, sent, applied>>

\* The reply closure has accepted a reply, or refused it.
Replied(c) ==
    /\ Runs(c)
    /\ Ex!Finish
    /\ \/ exOutcome' = "ok" /\ (ReplyAccepted(c) \/ Redirected(c))
       \/ exOutcome' = "rejected" /\ ReplyRejected(c)

\* The steps that no exchange of a method is part of.
Apart(c) ==
    \/ \E o \in Ops : Invoke(c, o)
    \/ Acquire(c) \/ LockCanceled(c) \/ Unlock(c)
    \/ Ensure(c) \/ Dialed(c) \/ \E e \in DialErrors : DialFailed(c, e)

ComposedInit == Init /\ Ex!Init

ComposedNext ==
    \/ \E c \in Calls :
          \/ Apart(c) /\ UNCHANGED exVars
          \/ CancelCall(c)
          \/ Call(c) \/ Attempt(c) \/ Deliver(c) \/ Failed(c) \/ Replied(c)
    \/ Server /\ UNCHANGED exVars

ComposedSpec == ComposedInit /\ [][ComposedNext]_<<vars, exVars>>

-----------------------------------------------------------------------------
\* KoutenClient leaves out nothing that an exchange may do to a call: whatever
\* error it returns at whatever point, with its context done or not, what the
\* method makes of it is a step of the client (client.go:173-178, 189-199).
ImplementsClient == Spec

-----------------------------------------------------------------------------
(* The inductive invariant of the composition.                             *)

\* How the exchange and the call that is in it belong together.
ExchangeLink ==
    \A c \in Calls :
        /\ pc[c] \in {"write", "reply"} => exPhase = "running"
        /\ Runs(c) => /\ exCanceled = (ctx[c] = "done")
                      /\ exAttempted = (pc[c] # "exchange")
                      /\ exDelivered = (pc[c] = "reply")

\* Between the exchanges of a connection none is running.
ExchangeIdle ==
    (\A c \in Calls : ~Exchanging(c)) => exPhase = "idle"

ComposedInv ==
    /\ ClientInv
    /\ exPhase \in {"idle", "running"}
    /\ exCanceled \in BOOLEAN
    /\ ExchangeLink
    /\ ExchangeIdle
=============================================================================
