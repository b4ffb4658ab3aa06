-------------------------- MODULE RefinementProofs --------------------------
(***************************************************************************)
(* What the client implements, for any number of calls and peers: every    *)
(* step of KoutenClient is a step of KoutenContract or none, and every     *)
(* step of the client over the contract of its exchange (ClientExchange)   *)
(* is one of KoutenClient or none.                                         *)
(***************************************************************************)
EXTENDS ClientProofs, ClientExchange

\* What a put or a read can return.
ErrorsAndResults == {"ok", "absent", "ctx", "closed", "indeterminate"}
                        \cup DialErrors

\* A fresh Client is a fresh contract.
LEMMA ContractInit == Init => Contract!Init
BY DEF Init, Contract!Init, Phase

\* A step that a caller cannot see: no call moves to another phase.
LEMMA Unseen ==
    ASSUME UNCHANGED <<op, result, applied, closed>>,
           \A c \in Calls : Phase(c)' = Phase(c)
    PROVE  UNCHANGED Contract!vars
BY DEF Contract!vars

\* A put or a read fixes its result r.
LEMMA Finishes ==
    ASSUME ClientInv, ClientInv', NEW c \in Calls,
           pc[c] \in Active \cup {"lock"}, op[c] # "close",
           NEW r \in ErrorsAndResults,
           result' = [result EXCEPT ![c] = r],
           \/ pc' = [pc EXCEPT ![c] = "unlock"]
           \/ pc' = [pc EXCEPT ![c] = "done"],
           UNCHANGED <<op, applied, closed>>,
           op[c] # "put" => r # "indeterminate",
           closed => r \in {"closed", "ctx"},
           r = "closed" => closed
    PROVE  Contract!Next
<1>0. TypeOK /\ MethodInv /\ PutInv'
  BY DEF ClientInv
<1>1. op[c] \in {"put", "get", "health"}
  BY <1>0 DEF MethodInv, TypeOK, Active, Ops, Reads
<1>2. Phase(c) = "running" /\ Phase(c)' = "returned"
  BY <1>0 DEF Phase, TypeOK, Active
<1>3. \A d \in Calls \ {c} : Phase(d)' = Phase(d)
  BY <1>0 DEF Phase, TypeOK
<1>4. op[c] = "put" =>
          /\ r = "ok" => applied[c] = 1
          /\ r \notin {"ok", "indeterminate"} => applied[c] = 0
  BY <1>0 DEF TypeOK, PutInv, Unstored
<1>5. Contract!Finish(c, r)
  BY <1>1, <1>2, <1>3, <1>4 DEF Contract!Finish
<1> QED BY <1>5 DEF Contract!Next, ErrorsAndResults, DialErrors, IoErrors

\* Leaving an exchange or ensure with an error: the call returns or retries.
LEMMA FailureRefines ==
    ASSUME ClientInv, ClientInv', NEW c \in Calls, pc[c] \in Active,
           NEW e \in DialErrors \cup {"ctx"},
           \/ \E attempted \in BOOLEAN : ExchangeFailed(c, e, attempted)
           \/ op[c] \in Reads /\ ReadFailed(c, e),
           UNCHANGED <<op, applied, closed>>
    PROVE  Contract!Next \/ UNCHANGED Contract!vars
<1>0. TypeOK /\ MethodInv /\ ~closed
  BY DEF ClientInv, ClosedIsTerminal
<1>1. op[c] # "close"
  BY <1>0 DEF MethodInv, Reads
<1>2. ASSUME NEW attempted \in BOOLEAN, PutFailed(c, e, attempted), op[c] = "put"
      PROVE  Contract!Next
  <2>1. PutError(e, attempted) \in ErrorsAndResults \ {"closed"}
    BY DEF PutError, ErrorsAndResults, DialErrors, IoErrors
  <2> QED BY <1>0, <1>1, <1>2, <2>1, Finishes DEF PutFailed, Return
<1>3. CASE op[c] \in Reads /\ ReadFailed(c, e)
  <2>1. CASE StartAttempt(c, 1) /\ UNCHANGED result
    <3>1. \A d \in Calls : Phase(d)' = Phase(d)
      BY <1>0, <2>1 DEF StartAttempt, Phase, TypeOK, Active
    <3> QED BY <2>1, <3>1, Unseen
  <2>2. CASE Return(c, IoError(c, e))
    <3>1. IoError(c, e) \in ErrorsAndResults \ {"closed", "indeterminate"}
      BY DEF IoError, ErrorsAndResults, DialErrors, IoErrors
    <3> QED BY <1>0, <1>1, <2>2, <3>1, Finishes DEF Return
  <2> QED BY <1>3, <2>1, <2>2 DEF ReadFailed
<1> QED BY <1>2, <1>3 DEF ExchangeFailed

\* Every step of the client or the server is one of the contract, or unseen.
LEMMA ContractStep ==
    ASSUME ClientInv, ClientInv', [Next]_vars
    PROVE  Contract!Next \/ UNCHANGED Contract!vars
<1>0. TypeOK /\ MethodInv /\ PutInv /\ ClosedIsTerminal /\ GateExclusive
  BY DEF ClientInv
<1>1. ASSUME NEW c \in Calls, NEW o \in Ops, Invoke(c, o) PROVE Contract!Next
  <2>0. Phase(c) = "new" /\ \A d \in Calls \ {c} : Phase(d)' = Phase(d)
    BY <1>0, <1>1 DEF Invoke, Phase, TypeOK
  <2>1. CASE pc' = [pc EXCEPT ![c] = "lock"] /\ UNCHANGED result
    <3>1. Phase(c)' = "running"
      BY <1>0, <2>1 DEF Phase, TypeOK
    <3>2. Contract!Start(c, o)
      BY <1>1, <2>0, <2>1, <3>1 DEF Contract!Start, Invoke, netVars
    <3> QED BY <3>2 DEF Contract!Next, Ops, Reads
  <2>2. CASE /\ o \in {"put", "get"}
             /\ pc' = [pc EXCEPT ![c] = "done"]
             /\ result' = [result EXCEPT ![c] = "input"]
    <3>1. Phase(c)' = "returned"
      BY <1>0, <2>2 DEF Phase, TypeOK
    <3>2. Contract!Reject(c, o)
      BY <1>1, <2>0, <2>2, <3>1 DEF Contract!Reject, Invoke, netVars
    <3> QED BY <2>2, <3>2 DEF Contract!Next
  <2> QED BY <1>1, <2>1, <2>2 DEF Invoke
<1>2. ASSUME NEW c \in Calls,
             Cancel(c) \/ Unlock(c) \/ Ensure(c) \/ Dialed(c) \/ Write(c)
                 \/ Redirected(c)
      PROVE  UNCHANGED Contract!vars
  <2>1. UNCHANGED <<op, result, applied, closed>>
    BY <1>2 DEF Cancel, Unlock, Ensure, Dialed, Write, Redirected, netVars
  <2>2. \A d \in Calls : Phase(d)' = Phase(d)
    BY <1>0, <1>2 DEF Cancel, Unlock, Ensure, Dialed, Write, Redirected,
                      HasReply, Phase, TypeOK
  <2> QED BY <2>1, <2>2, Unseen
<1>3. ASSUME NEW c \in Calls, LockCanceled(c) PROVE Contract!Next
  BY <1>3, Finishes DEF LockCanceled, netVars, ErrorsAndResults
<1>4. ASSUME NEW c \in Calls, Lock(c)
      PROVE  Contract!Next \/ UNCHANGED Contract!vars
  <2>1. CASE StartAttempt(c, 0) /\ UNCHANGED result
    <3>1. \A d \in Calls : Phase(d)' = Phase(d)
      BY <1>0, <1>4, <2>1 DEF Lock, StartAttempt, Phase, TypeOK
    <3> QED BY <1>4, <2>1, <3>1, Unseen DEF Lock, netVars
  <2>2. /\ pc[c] = "lock" /\ op[c] # "close"
        /\ UNCHANGED <<closed, op, applied>>
    BY <1>4 DEF Lock, netVars
  <2>3. CASE Return(c, "ctx")
    BY <2>2, <2>3, Finishes DEF Return, ErrorsAndResults
  <2>4. CASE closed /\ Return(c, "closed")
    BY <2>2, <2>4, Finishes DEF Return, ErrorsAndResults
  <2> QED BY <1>4, <2>1, <2>3, <2>4 DEF Lock
<1>5. ASSUME NEW c \in Calls, Close(c) PROVE Contract!Next
  <2>1. Phase(c) = "running" /\ Phase(c)' = "returned"
    BY <1>0, <1>5 DEF Close, Return, Phase, TypeOK
  <2>2. \A d \in Calls \ {c} : Phase(d)' = Phase(d)
    BY <1>0, <1>5 DEF Close, Return, Phase, TypeOK
  <2>3. Contract!Seal(c)
    BY <1>5, <2>1, <2>2 DEF Contract!Seal, Close, Return
  <2> QED BY <2>3 DEF Contract!Next
<1>6. ASSUME NEW c \in Calls, NEW e \in DialErrors, DialFailed(c, e)
      PROVE  Contract!Next \/ UNCHANGED Contract!vars
  <2>1. /\ pc[c] \in Active /\ ~closed
        /\ UNCHANGED <<op, applied, closed>>
        /\ IoError(c, e) \in DialErrors \cup {"ctx"}
    BY <1>0, <1>6 DEF DialFailed, Active, ClosedIsTerminal, IoError
  <2>2. CASE op[c] = "put" /\ Return(c, IoError(c, e))
    <3>1. IoError(c, e) \in ErrorsAndResults \ {"closed"}
      BY <2>1 DEF ErrorsAndResults, DialErrors, IoErrors
    <3> QED BY <2>1, <2>2, <3>1, Finishes DEF Return
  <2>3. CASE op[c] \in Reads /\ ReadFailed(c, IoError(c, e))
    BY <2>1, <2>3, FailureRefines
  <2> QED BY <1>6, <2>2, <2>3 DEF DialFailed
<1>7. ASSUME NEW c \in Calls, Exchange(c)
      PROVE  Contract!Next \/ UNCHANGED Contract!vars
  <2>1. pc[c] \in Active /\ UNCHANGED <<op, applied, closed>>
    BY <1>7 DEF Exchange, Active
  <2>2. CASE pc' = [pc EXCEPT ![c] = "write"] /\ UNCHANGED result
    <3>1. \A d \in Calls : Phase(d)' = Phase(d)
      BY <1>0, <1>7, <2>2 DEF Exchange, Phase, TypeOK
    <3> QED BY <2>1, <2>2, <3>1, Unseen
  <2>3. ASSUME NEW e \in {"ctx", "connection"}, ExchangeFailed(c, e, FALSE)
        PROVE  Contract!Next \/ UNCHANGED Contract!vars
    BY <2>1, <2>3, FailureRefines DEF DialErrors, IoErrors
  <2> QED BY <1>7, <2>2, <2>3 DEF Exchange
<1>8. ASSUME NEW c \in Calls,
             \/ \E e \in IoErrors : WriteFailed(c, e) \/ ReplyFailed(c, e)
             \/ ReplyRejected(c)
      PROVE  Contract!Next \/ UNCHANGED Contract!vars
  <2>1. /\ pc[c] \in Active /\ UNCHANGED <<op, applied, closed>>
        /\ \E e \in DialErrors \cup {"ctx"} : ExchangeFailed(c, e, TRUE)
    BY <1>8 DEF WriteFailed, ReplyFailed, ReplyRejected, HasReply, Active,
                IoError, DialErrors
  <2> QED BY <2>1, FailureRefines
<1>9. ASSUME NEW c \in Calls, ReplyAccepted(c) PROVE Contract!Next
  <2>1. /\ pc[c] \in Active /\ UNCHANGED <<op, applied, closed>> /\ ~closed
        /\ \E r \in {"ok", "absent"} : Return(c, r)
    BY <1>0, <1>9 DEF ReplyAccepted, HasReply, Active, ClosedIsTerminal
  <2>2. op[c] # "close"
    BY <1>0, <2>1 DEF MethodInv, Reads
  <2> QED BY <2>1, <2>2, Finishes DEF Return, ErrorsAndResults
<1>10. ASSUME NEW n \in Nodes, Serve(n)
       PROVE  Contract!Next \/ UNCHANGED Contract!vars
  <2>1. /\ requests[n] # <<>>
        /\ UNCHANGED <<op, result, closed, pc>>
    BY <1>10 DEF Serve, callVars
  <2>2. PICK c \in Calls : Awaits(c, n)
    BY <2>1 DEF ClientInv, WireInv, Silent
  <2>3. /\ requests[n] = <<Request(c)>> /\ applied[c] = 0 /\ pc[c] = "reply"
    BY <2>1, <2>2 DEF Awaits
  <2>4. Head(requests[n]) = Request(c) /\ Request(c).call = c
    BY <1>0, <2>3, RequestTyped, SingletonSequences DEF Request
  <2>5. \/ applied' = applied
        \/ op[c] = "put" /\ applied' = [applied EXCEPT ![c] = 1]
    <3> DEFINE q == Head(requests[n])
    <3>1. \E kind \in ReplyKinds[op[q.call]], stored \in BOOLEAN :
             /\ stored => Stores(q, kind)
             /\ applied' = [applied EXCEPT ![q.call] =
                    IF stored THEN @ + 1 ELSE @]
      BY <1>10 DEF Serve
    <3>2. q.call = c
      BY <2>4
    <3> HIDE DEF q
    <3>3. PICK stored \in BOOLEAN :
             /\ stored => op[c] = "put"
             /\ applied' = [applied EXCEPT ![c] = IF stored THEN @ + 1 ELSE @]
      BY <3>1, <3>2 DEF Stores
    <3>4. CASE stored
      BY <2>3, <3>3, <3>4
    <3>5. CASE ~stored
      BY <1>0, <3>3, <3>5 DEF TypeOK
    <3> QED BY <3>4, <3>5
  <2>6. \A d \in Calls : Phase(d)' = Phase(d)
    BY <2>1 DEF Phase
  <2>7. CASE applied' = applied
    BY <2>1, <2>6, <2>7, Unseen
  <2>8. CASE op[c] = "put" /\ applied' = [applied EXCEPT ![c] = 1]
    <3>1. Phase(c) = "running" /\ ~closed
      BY <1>0, <2>3 DEF Phase, ClosedIsTerminal, Active
    <3>2. Contract!Store(c)
      BY <2>1, <2>3, <2>6, <2>8, <3>1 DEF Contract!Store
    <3> QED BY <3>2 DEF Contract!Next
  <2> QED BY <2>5, <2>7, <2>8
<1>11. ASSUME NEW c \in Calls, ServeStray(c) PROVE Contract!Next
  <2>1. /\ c \in strays
        /\ applied' = [applied EXCEPT ![c] = @ + 1]
        /\ UNCHANGED <<op, pc, result, closed>>
    BY <1>11 DEF ServeStray, callVars
  <2>2. /\ applied[c] = 0 /\ op[c] = "put" /\ pc[c] \in {"unlock", "done"}
        /\ result[c] = "indeterminate"
    BY <1>0, <2>1 DEF PutInv, Unstored, TypeOK, Places, Critical, Active
  <2>3. \A d \in Calls : Phase(d)' = Phase(d)
    BY <2>1 DEF Phase
  <2>4. Phase(c) = "returned"
    BY <2>2 DEF Phase
  <2>5. applied' = [applied EXCEPT ![c] = 1]
    BY <1>0, <2>1, <2>2 DEF TypeOK
  <2>6. Contract!Store(c)
    BY <2>1, <2>2, <2>3, <2>4, <2>5 DEF Contract!Store
  <2> QED BY <2>6 DEF Contract!Next
<1>12. CASE UNCHANGED vars
  BY <1>12 DEF vars, callVars, netVars, Contract!vars, Phase
<1> QED BY <1>1, <1>2, <1>3, <1>4, <1>5, <1>6, <1>7, <1>8, <1>9, <1>10, <1>11,
           <1>12 DEF Next, Acquire, Progress, Server

\* Whatever the client does with its gate, connections, retries and redirects
\* (client.go:41-315), its callers see the contract.
THEOREM ClientImplementsContract == Spec => ImplementsContract
<1>1. ClientInv /\ ClientInv' /\ [Next]_vars => [Contract!Next]_(Contract!vars)
  BY ContractStep
<1>2. Spec => Contract!Init /\ [][Contract!Next]_(Contract!vars)
  BY <1>1, ContractInit, ClientInvariant, PTL DEF Spec
<1> QED BY <1>2 DEF ImplementsContract, Contract!Spec

-----------------------------------------------------------------------------
(* The client over the contract of the exchange.                           *)

LEMMA ComposedInvInit == ComposedInit => ComposedInv
<1> SUFFICES ASSUME ComposedInit PROVE ComposedInv
  OBVIOUS
<1>1. ClientInv
  BY InvInit DEF ComposedInit
<1> QED BY <1>1 DEF ComposedInit, Init, Ex!Init, ComposedInv, ExchangeLink,
                    ExchangeIdle, Runs, Exchanging

\* Only one call is in an exchange.
LEMMA OneExchanges ==
    ASSUME GateExclusive, NEW c \in Calls, Exchanging(c)
    PROVE  \A d \in Calls \ {c} : ~Exchanging(d)
BY DEF GateExclusive, Exchanging, Critical, Active

\* Whichever error the exchange gives up with, and wherever, the client has
\* the step that the method makes of it.
LEMMA FailedIsClient ==
    ASSUME ComposedInv, NEW c \in Calls, Failed(c)
    PROVE  Next
<1>0. /\ TypeOK /\ exPhase = "running"
      /\ pc[c] \in {"exchange", "write", "reply"}
      /\ exCanceled = (ctx[c] = "done")
      /\ exAttempted = (pc[c] # "exchange")
      /\ ctx[c] \in {"live", "done"}
  BY DEF ComposedInv, ClientInv, ExchangeLink, Failed, Runs, Exchanging, TypeOK
<1>1. \/ exOutcome' = "ctx" /\ ctx[c] = "done"
      \/ exOutcome' = "timeout" /\ pc[c] # "exchange" /\ ctx[c] = "live"
      \/ exOutcome' = "connection"
  BY <1>0 DEF Failed, Ex!Finish, Ex!Allowed
<1>2. /\ ExchangeFailed(c, exOutcome', pc[c] # "exchange")
      /\ UNCHANGED <<gate, closed, op, ctx, sent, applied>>
  BY <1>0 DEF Failed
<1>3. CASE pc[c] = "exchange"
  <2>1. Exchange(c)
    BY <1>1, <1>2, <1>3 DEF Exchange
  <2> QED BY <2>1 DEF Next, Progress
<1>4. CASE pc[c] \in {"write", "reply"}
  <2>1. PICK e \in IoErrors : ExchangeFailed(c, IoError(c, e), TRUE)
    <3>1. CASE ctx[c] = "live"
      BY <1>1, <1>2, <1>4, <3>1 DEF IoError, IoErrors
    <3>2. CASE ctx[c] = "done" /\ exOutcome' = "ctx"
      BY <1>2, <1>4, <3>2 DEF IoError, IoErrors
    <3>3. CASE ctx[c] = "done" /\ exOutcome' = "connection"
      <4>1. ExchangeFailed(c, "connection", TRUE)
        BY <1>2, <1>4, <3>3
      <4>2. ExchangeFailed(c, "ctx", TRUE)
        BY <3>3, <4>1 DEF ExchangeFailed, PutFailed, PutError, ReadFailed,
                          Retryable, IoError
      <4> QED BY <3>3, <4>2 DEF IoError, IoErrors
    <3> QED BY <1>0, <1>1, <3>1, <3>2, <3>3
  <2>2. WriteFailed(c, e) \/ ReplyFailed(c, e)
    BY <1>2, <1>4, <2>1 DEF WriteFailed, ReplyFailed
  <2> QED BY <2>2 DEF Next, Progress
<1> QED BY <1>0, <1>3, <1>4

LEMMA ComposedStepIsClient ==
    ASSUME ComposedInv, [ComposedNext]_<<vars, exVars>>
    PROVE  [Next]_vars
<1>1. ASSUME NEW c \in Calls, Apart(c) PROVE Next
  BY <1>1 DEF Apart, Next, Progress
<1>2. ASSUME NEW c \in Calls, CancelCall(c) PROVE Next
  BY <1>2 DEF CancelCall, Next
<1>3. ASSUME NEW c \in Calls, Call(c) PROVE UNCHANGED vars
  BY <1>3 DEF Call
<1>4. ASSUME NEW c \in Calls, Attempt(c) PROVE Next
  <2>1. pc[c] = "exchange" /\ ctx[c] = "live"
    BY <1>4 DEF Attempt, Runs, Exchanging, Ex!Attempt, ComposedInv, ClientInv,
                TypeOK, ExchangeLink
  <2>2. Exchange(c)
    BY <1>4, <2>1 DEF Attempt, Exchange, netVars
  <2> QED BY <2>2 DEF Next, Progress
<1>5. ASSUME NEW c \in Calls, Deliver(c) PROVE Next
  BY <1>5 DEF Deliver, Next, Progress
<1>6. ASSUME NEW c \in Calls, Failed(c) PROVE Next
  BY <1>6, FailedIsClient
<1>7. ASSUME NEW c \in Calls, Replied(c) PROVE Next
  BY <1>7 DEF Replied, Next, Progress
<1>8. CASE Server
  BY <1>8 DEF Next
<1>9. CASE UNCHANGED <<vars, exVars>>
  BY <1>9
<1> QED BY <1>1, <1>2, <1>3, <1>4, <1>5, <1>6, <1>7, <1>8, <1>9
           DEF ComposedNext

\* While the exchange stays as it is, the link can only break where a call
\* enters an exchange, leaves one, goes on in one or has its context canceled.
LEMMA LinkFrame ==
    ASSUME ComposedInv, UNCHANGED exVars,
           \A c \in Calls : \/ UNCHANGED <<pc[c], ctx[c]>>
                            \/ ~Exchanging(c) /\ ~Exchanging(c)'
    PROVE  ExchangeLink' /\ ExchangeIdle'
BY DEF ComposedInv, ExchangeLink, ExchangeIdle, Runs, Exchanging, exVars

\* Where no call is in an exchange, the next to enter one finds none running.
LEMMA LinkEntered ==
    ASSUME ComposedInv, UNCHANGED exVars, NEW c \in Calls,
           pc[c] \in {"ensure", "dial"},
           pc' = [pc EXCEPT ![c] = "exchange"]
    PROVE  ExchangeLink' /\ ExchangeIdle'
<1>1. \A d \in Calls : ~Exchanging(d)
  BY DEF ComposedInv, ClientInv, GateExclusive, Exchanging, Critical, Active
<1>2. exPhase' = "idle"
  BY <1>1 DEF ComposedInv, ExchangeIdle, exVars
<1>3. \A d \in Calls : pc'[d] \notin {"write", "reply"}
  BY <1>1 DEF Exchanging, ComposedInv, ClientInv, TypeOK
<1> QED BY <1>2, <1>3 DEF ExchangeLink, ExchangeIdle, Runs

\* An exchange ends together with its call's part in it.
LEMMA LinkLeft ==
    ASSUME ComposedInv, NEW c \in Calls, Exchanging(c), exPhase' = "idle",
           \/ pc' = [pc EXCEPT ![c] = "ensure"]
           \/ pc' = [pc EXCEPT ![c] = "unlock"]
    PROVE  ExchangeLink' /\ ExchangeIdle'
<1>1. \A d \in Calls : pc'[d] \notin {"write", "reply"}
  BY OneExchanges DEF ComposedInv, ClientInv, TypeOK, Exchanging
<1> QED BY <1>1 DEF ExchangeLink, ExchangeIdle, Runs

\* An exchange begins or goes on, and the call that is in it with it.
LEMMA LinkKept ==
    ASSUME ComposedInv, NEW c \in Calls, Exchanging(c), Exchanging(c)',
           NEW l \in Places, pc' = [pc EXCEPT ![c] = l], UNCHANGED ctx,
           exPhase' = "running",
           exCanceled' = (ctx[c] = "done"),
           exAttempted' = (l # "exchange"),
           exDelivered' = (l = "reply")
    PROVE  ExchangeLink' /\ ExchangeIdle'
<1>1. pc'[c] = l /\ \A d \in Calls \ {c} : ~Exchanging(d)'
  BY OneExchanges DEF ComposedInv, ClientInv, TypeOK, Exchanging
<1> QED BY <1>1 DEF ExchangeLink, ExchangeIdle, Runs, Exchanging

LEMMA ApartLink ==
    ASSUME ComposedInv, NEW c \in Calls, Apart(c), UNCHANGED exVars
    PROVE  ExchangeLink' /\ ExchangeIdle'
<1>0. TypeOK
  BY DEF ComposedInv, ClientInv
<1>1. UNCHANGED ctx
  BY DEF Apart, Invoke, Acquire, Lock, Close, LockCanceled, Unlock, Ensure,
         Dialed, DialFailed
<1>2. CASE /\ pc[c] \in {"ensure", "dial"}
           /\ pc' = [pc EXCEPT ![c] = "exchange"]
  BY <1>2, LinkEntered
<1>3. ASSUME pc[c] \in {"idle", "lock", "unlock", "ensure", "dial"},
             NEW l \in {"lock", "done", "ensure", "unlock", "dial"},
             pc' = [pc EXCEPT ![c] = l]
      PROVE  ExchangeLink' /\ ExchangeIdle'
  <2>1. ~Exchanging(c) /\ ~Exchanging(c)'
    BY <1>0, <1>3 DEF Exchanging, TypeOK
  <2>2. \A d \in Calls \ {c} : pc'[d] = pc[d]
    BY <1>0, <1>3 DEF TypeOK
  <2> QED BY <1>1, <2>1, <2>2, LinkFrame
<1>4. ASSUME NEW o \in Ops, Invoke(c, o) PROVE ExchangeLink' /\ ExchangeIdle'
  BY <1>3, <1>4 DEF Invoke
<1>5. CASE Lock(c) \/ Close(c) \/ LockCanceled(c) \/ Unlock(c)
  BY <1>3, <1>5 DEF Lock, Close, LockCanceled, Unlock, Return, StartAttempt
<1>6. CASE Ensure(c) \/ Dialed(c)
  BY <1>2, <1>3, <1>6 DEF Ensure, Dialed
<1>7. ASSUME NEW e \in DialErrors, DialFailed(c, e)
      PROVE  ExchangeLink' /\ ExchangeIdle'
  BY <1>3, <1>7 DEF DialFailed, ReadFailed, Return, StartAttempt
<1> QED BY <1>4, <1>5, <1>6, <1>7 DEF Apart, Acquire

\* The context of any call is canceled: the exchange learns of it if it runs
\* with that context.
LEMMA CancelLink ==
    ASSUME ComposedInv, NEW c \in Calls, CancelCall(c)
    PROVE  ExchangeLink' /\ ExchangeIdle'
<1>0. TypeOK /\ GateExclusive /\ ExchangeLink /\ ExchangeIdle
  BY DEF ComposedInv, ClientInv
<1>1. /\ pc' = pc /\ ctx' = [ctx EXCEPT ![c] = "done"]
      /\ UNCHANGED <<exPhase, exAttempted, exDelivered>>
      /\ exCanceled' = IF Runs(c) THEN TRUE ELSE exCanceled
  BY DEF CancelCall, Cancel, Ex!Cancel, exVars
<1>2. ASSUME NEW d \in Calls
      PROVE  /\ pc'[d] \in {"write", "reply"} => exPhase' = "running"
             /\ Runs(d)' => /\ exCanceled' = (ctx'[d] = "done")
                            /\ exAttempted' = (pc'[d] # "exchange")
                            /\ exDelivered' = (pc'[d] = "reply")
  <2>1. Runs(d)' <=> Runs(d)
    BY <1>1 DEF Runs, Exchanging
  <2>2. Runs(d) => exCanceled' = (ctx'[d] = "done")
    <3>1. CASE d = c
      BY <1>0, <1>1, <3>1 DEF TypeOK
    <3>2. CASE d # c /\ Runs(d)
      <4>1. ~Runs(c) /\ ctx'[d] = ctx[d]
        BY <1>0, <1>1, <3>2, OneExchanges DEF TypeOK, Runs
      <4> QED BY <1>0, <1>1, <3>2, <4>1 DEF ExchangeLink
    <3> QED BY <3>1, <3>2
  <2> QED BY <1>0, <1>1, <2>1, <2>2 DEF ExchangeLink
<1>3. ExchangeIdle'
  BY <1>0, <1>1 DEF ExchangeIdle, Exchanging
<1> QED BY <1>2, <1>3 DEF ExchangeLink

LEMMA ExchangeStepLink ==
    ASSUME ComposedInv, NEW c \in Calls,
           Call(c) \/ Attempt(c) \/ Deliver(c) \/ Failed(c) \/ Replied(c)
    PROVE  ExchangeLink' /\ ExchangeIdle'
<1>0. TypeOK /\ ExchangeLink /\ exPhase \in {"idle", "running"}
  BY DEF ComposedInv, ClientInv
<1>1. CASE Call(c)
  <2>1. Exchanging(c) /\ Exchanging(c)' /\ UNCHANGED <<pc, ctx>>
    BY <1>1 DEF Call, Exchanging, vars, callVars
  <2>2. pc' = [pc EXCEPT ![c] = "exchange"] /\ "exchange" \in Places
    BY <1>0, <1>1, <2>1 DEF Call, TypeOK, Places, Critical, Active
  <2> QED BY <1>1, <2>1, <2>2, LinkKept DEF Call, Ex!Begin
<1>2. CASE Attempt(c)
  <2>1. Exchanging(c) /\ pc' = [pc EXCEPT ![c] = "write"] /\ UNCHANGED ctx
    BY <1>2 DEF Attempt, Runs
  <2>2. Exchanging(c)' /\ "write" \in Places
    BY <1>0, <2>1 DEF Exchanging, TypeOK, Places, Critical, Active
  <2>3. /\ exPhase' = "running" /\ exCanceled' = (ctx[c] = "done")
        /\ exAttempted' = TRUE /\ exDelivered' = FALSE
    BY <1>0, <1>2 DEF Attempt, Runs, Exchanging, Ex!Attempt, ExchangeLink
  <2> QED BY <2>1, <2>2, <2>3, LinkKept
<1>3. CASE Deliver(c)
  <2>1. Exchanging(c) /\ pc' = [pc EXCEPT ![c] = "reply"] /\ UNCHANGED ctx
    BY <1>3 DEF Deliver, Runs, Write
  <2>2. Exchanging(c)' /\ "reply" \in Places
    BY <1>0, <2>1 DEF Exchanging, TypeOK, Places, Critical, Active
  <2>3. /\ exPhase' = "running" /\ exCanceled' = (ctx[c] = "done")
        /\ exAttempted' = TRUE /\ exDelivered' = TRUE
    BY <1>0, <1>3 DEF Deliver, Runs, Exchanging, Ex!Deliver, ExchangeLink, Write
  <2> QED BY <2>1, <2>2, <2>3, LinkKept
<1>4. CASE Failed(c) \/ Replied(c)
  <2>1. Exchanging(c) /\ exPhase' = "idle"
    BY <1>4 DEF Failed, Replied, Runs, Ex!Finish
  <2>2. \/ pc' = [pc EXCEPT ![c] = "ensure"]
        \/ pc' = [pc EXCEPT ![c] = "unlock"]
    BY <1>4 DEF Failed, Replied, ReplyAccepted, Redirected, ReplyRejected,
                ExchangeFailed, PutFailed, ReadFailed, Return, StartAttempt
  <2> QED BY <2>1, <2>2, LinkLeft
<1> QED BY <1>1, <1>2, <1>3, <1>4

LEMMA ComposedInvInductive ==
    ComposedInv /\ [ComposedNext]_<<vars, exVars>> => ComposedInv'
<1> SUFFICES ASSUME ComposedInv, [ComposedNext]_<<vars, exVars>>
             PROVE  ComposedInv'
  OBVIOUS
<1>1. ClientInv'
  BY ComposedStepIsClient, ClientInvInductive DEF ComposedInv
<1>2. exPhase' \in {"idle", "running"} /\ exCanceled' \in BOOLEAN
  BY DEF ComposedInv, ComposedNext, CancelCall, Call, Attempt, Deliver, Failed,
         Replied, Ex!Begin, Ex!Cancel, Ex!Attempt, Ex!Deliver, Ex!Finish, exVars
<1>3. ExchangeLink' /\ ExchangeIdle'
  <2>1. ASSUME NEW c \in Calls,
               \/ Apart(c) /\ UNCHANGED exVars
               \/ CancelCall(c)
               \/ Call(c) \/ Attempt(c) \/ Deliver(c) \/ Failed(c) \/ Replied(c)
        PROVE  ExchangeLink' /\ ExchangeIdle'
    BY <2>1, ApartLink, CancelLink, ExchangeStepLink
  <2>2. CASE Server /\ UNCHANGED exVars
    <3>1. UNCHANGED <<pc, ctx>>
      BY <2>2 DEF Server, Serve, ServeStray, callVars
    <3> QED BY <2>2, <3>1, LinkFrame
  <2>3. CASE UNCHANGED <<vars, exVars>>
    <3>1. UNCHANGED <<pc, ctx>>
      BY <2>3 DEF vars, callVars
    <3> QED BY <2>3, <3>1, LinkFrame
  <2> QED BY <2>1, <2>2, <2>3 DEF ComposedNext
<1> QED BY <1>1, <1>2, <1>3 DEF ComposedInv

THEOREM ComposedInvariant == ComposedSpec => []ComposedInv
BY ComposedInvInit, ComposedInvInductive, PTL DEF ComposedSpec

\* Whatever the exchange does within its contract (wire.go:153-209), with the
\* context of its call done or not, what the methods make of the error that
\* it returns and of `attempted` (client.go:173-178, 189-199) is a step of the
\* client: the abstraction that KoutenClient makes loses no behaviour.
THEOREM ComposedImplementsClient == ComposedSpec => ImplementsClient
<1>1. ComposedInv /\ [ComposedNext]_<<vars, exVars>> => [Next]_vars
  BY ComposedStepIsClient
<1>2. ComposedInit => Init
  BY DEF ComposedInit
<1>3. ComposedSpec => Init /\ [][Next]_vars
  BY <1>1, <1>2, ComposedInvariant, PTL DEF ComposedSpec
<1> QED BY <1>3 DEF ImplementsClient, Spec

\* So callers of the client over the exchange's contract see KoutenContract.
THEOREM ComposedImplementsContract == ComposedSpec => ImplementsContract
BY ComposedImplementsClient, ClientImplementsContract DEF ImplementsClient
=============================================================================
