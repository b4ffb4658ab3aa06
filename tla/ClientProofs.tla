---------------------------- MODULE ClientProofs ----------------------------
(***************************************************************************)
(* ClientInv is an inductive invariant of KoutenClient, and the safety     *)
(* properties of ClientInvariants follow from it, for any set of calls and *)
(* peers and any number of redirects.                                      *)
(***************************************************************************)
EXTENDS ClientInvariants, TLAPS

\* The sequences on the wire are empty or hold one message.
LEMMA SingletonSequences ==
    ASSUME NEW S, NEW x \in S
    PROVE  /\ Append(<<>>, x) = <<x>>
           /\ <<x>> \in Seq(S)
           /\ <<>> \in Seq(S)
           /\ Head(<<x>>) = x
           /\ Tail(<<x>>) = <<>>
           /\ <<x>> # <<>>
           /\ DOMAIN <<x>> = {1}
           /\ DOMAIN <<>> = {}
           /\ <<x>>[1] = x
OBVIOUS

\* What Write puts on the wire is a request.
LEMMA RequestTyped ==
    ASSUME TypeOK, NEW c \in Calls
    PROVE  Request(c) \in RequestType
BY DEF TypeOK, Request, RequestType

\* A Client that Dial has returned (client.go:33-39).
LEMMA InvInit == Init => ClientInv
<1> SUFFICES ASSUME Init PROVE ClientInv
  OBVIOUS
<1> USE ClientAssumption DEF Init
<1>1. TypeOK
  <2>1. /\ requests \in [Nodes -> Seq(RequestType)]
        /\ replies \in [Nodes -> Seq(ReplyType)]
    BY SingletonSequences
  <2> QED BY <2>1 DEF TypeOK, Places, Critical, Active, Ops, Results, DialErrors
<1>2. GateExclusive
  BY DEF GateExclusive, Critical, Active
<1>3. WireInv
  BY DEF WireInv, Silent
<1>4. ConnectionInv /\ MethodInv /\ PutInv /\ ClosedIsTerminal
  BY DEF ConnectionInv, MethodInv, PutInv, Unstored, ClosedIsTerminal, Active
<1> QED BY <1>1, <1>2, <1>3, <1>4 DEF ClientInv

\* The connections are silent, but for the one on which the call that holds
\* the gate waits.
LEMMA HolderOnly ==
    ASSUME ClientInv, NEW c \in Calls, pc[c] \in Critical
    PROVE  /\ \A n \in Nodes : Silent(n) \/ Awaits(c, n)
           /\ pc[c] # "reply" => \A n \in Nodes : Silent(n)
           /\ \A d \in Calls \ {c} : pc[d] \notin Critical
           /\ ~gate
BY DEF ClientInv, GateExclusive, WireInv, Awaits, Critical, Active

\* A step that leaves the network alone and does not move a call that awaits
\* its reply.
LEMMA WireFrame ==
    ASSUME WireInv, UNCHANGED <<requests, replies, applied>>,
           \A c \in Calls : pc[c] = "reply" =>
               /\ pc'[c] = pc[c] /\ op'[c] = op[c] /\ node'[c] = node[c]
               /\ hops'[c] = hops[c] /\ attempt'[c] = attempt[c]
    PROVE  WireInv'
<1> SUFFICES ASSUME NEW n \in Nodes
             PROVE  (Silent(n) \/ \E c \in Calls : Awaits(c, n))'
  BY DEF WireInv
<1>1. CASE Silent(n)
  BY <1>1 DEF Silent
<1>2. ASSUME NEW c \in Calls, Awaits(c, n) PROVE Awaits(c, n)'
  BY <1>2 DEF Awaits, AwaitedAnswer, Request
<1> QED BY <1>1, <1>2 DEF WireInv

\* readOperation's loop starts with locals of the right type.
LEMMA StartTyped ==
    ASSUME TypeOK, NEW c \in Calls, NEW k \in {0, 1}, StartAttempt(c, k)
    PROVE  /\ node' \in [Calls -> Nodes]
           /\ hops' \in [Calls -> 0..MaxRedirects]
           /\ attempt' \in [Calls -> {0, 1}]
<1>1. 0 \in Nodes /\ 0 \in 0..MaxRedirects
  BY ClientAssumption
<1> QED BY <1>1 DEF TypeOK, StartAttempt

\* The steps that neither use the network nor close connections.
LEMMA LocalStep ==
    ASSUME ClientInv, NEW c \in Calls,
           \/ \E o \in Ops : Invoke(c, o)
           \/ Cancel(c) \/ LockCanceled(c) \/ Lock(c) \/ Unlock(c) \/ Ensure(c)
    PROVE  ClientInv'
<1> USE ClientAssumption
<1>0. TypeOK /\ WireInv /\ GateExclusive /\ ConnectionInv /\ MethodInv
      /\ PutInv /\ ClosedIsTerminal
  BY DEF ClientInv
<1>1. ASSUME NEW o \in Ops, Invoke(c, o) PROVE ClientInv'
  <2>1. TypeOK'
    BY <1>0, <1>1 DEF TypeOK, Invoke, netVars, Places, Critical, Active, Results
  <2>2. GateExclusive'
    <3>1. /\ UNCHANGED gate
          /\ \A d \in Calls : pc'[d] \in Critical <=> pc[d] \in Critical
      BY <1>0, <1>1 DEF Invoke, TypeOK, Critical, Active
    <3> QED BY <1>0, <3>1 DEF GateExclusive
  <2>3. WireInv'
    BY <1>0, <1>1, WireFrame DEF Invoke, TypeOK, netVars
  <2>4. ConnectionInv' /\ MethodInv' /\ PutInv' /\ ClosedIsTerminal'
    BY <1>0, <1>1 DEF Invoke, TypeOK, netVars, ConnectionInv, MethodInv, PutInv,
                      Unstored, ClosedIsTerminal, Active, Ops, Reads
  <2> QED BY <2>1, <2>2, <2>3, <2>4 DEF ClientInv
<1>2. CASE Cancel(c)
  <2>1. TypeOK' /\ GateExclusive'
    BY <1>0, <1>2 DEF TypeOK, Cancel, netVars, GateExclusive
  <2>3. WireInv'
    BY <1>0, <1>2, WireFrame DEF Cancel, netVars
  <2>4. ConnectionInv' /\ MethodInv' /\ PutInv' /\ ClosedIsTerminal'
    BY <1>0, <1>2 DEF Cancel, netVars, ConnectionInv, MethodInv, PutInv,
                      Unstored, ClosedIsTerminal
  <2> QED BY <2>1, <2>3, <2>4 DEF ClientInv
<1>3. CASE LockCanceled(c)
  <2>1. TypeOK'
    BY <1>0, <1>3 DEF TypeOK, LockCanceled, netVars, Places, Results
  <2>2. GateExclusive'
    BY <1>0, <1>3 DEF GateExclusive, LockCanceled, TypeOK, Critical, Active
  <2>3. WireInv'
    BY <1>0, <1>3, WireFrame DEF LockCanceled, TypeOK, netVars
  <2>4. ConnectionInv' /\ MethodInv' /\ PutInv' /\ ClosedIsTerminal'
    BY <1>0, <1>3 DEF LockCanceled, TypeOK, netVars, ConnectionInv, MethodInv,
                      PutInv, Unstored, ClosedIsTerminal, Active
  <2> QED BY <2>1, <2>2, <2>3, <2>4 DEF ClientInv
<1>4. CASE Lock(c)
  <2>0. /\ \/ pc' = [pc EXCEPT ![c] = "unlock"]
           \/ (pc' = [pc EXCEPT ![c] = "ensure"] /\ ~closed)
        /\ pc[c] = "lock" /\ op[c] # "close" /\ gate /\ ~gate'
        /\ UNCHANGED <<closed, connections, op, ctx, sent, netVars>>
    BY <1>4 DEF Lock, Return, StartAttempt
  <2>1. TypeOK'
    <3>1. /\ pc' \in [Calls -> Places] /\ result' \in [Calls -> Results]
          /\ gate' \in BOOLEAN
      BY <1>0, <1>4, <2>0 DEF TypeOK, Lock, Return, Places, Critical, Active,
                              Results
    <3>2. /\ node' \in [Calls -> Nodes]
          /\ hops' \in [Calls -> 0..MaxRedirects]
          /\ attempt' \in [Calls -> {0, 1}]
      <4>1. CASE UNCHANGED <<node, hops, attempt>>
        BY <1>0, <4>1 DEF TypeOK
      <4>2. CASE StartAttempt(c, 0)
        BY <1>0, <4>2, StartTyped
      <4> QED BY <1>4, <4>1, <4>2 DEF Lock
    <3> QED BY <1>0, <2>0, <3>1, <3>2 DEF TypeOK, netVars
  <2>2. GateExclusive'
    BY <1>0, <2>0 DEF GateExclusive, TypeOK, Critical, Active
  <2>3. WireInv'
    BY <1>0, <1>4, WireFrame DEF Lock, Return, StartAttempt, TypeOK, netVars
  <2>4. MethodInv' /\ ClosedIsTerminal'
    BY <1>0, <2>0 DEF TypeOK, MethodInv, ClosedIsTerminal, Active, Ops
  <2>6. ConnectionInv'
    BY <1>0, <1>4, <2>0 DEF TypeOK, ConnectionInv, Lock, StartAttempt
  <2>5. PutInv'
    BY <1>0, <1>4 DEF Lock, Return, StartAttempt, TypeOK, netVars, PutInv,
                      Unstored
  <2> QED BY <2>1, <2>2, <2>3, <2>4, <2>5, <2>6 DEF ClientInv
<1>5. CASE Unlock(c)
  <2>1. TypeOK'
    BY <1>0, <1>5 DEF TypeOK, Unlock, netVars, Places
  <2>2. GateExclusive'
    BY <1>0, <1>5 DEF GateExclusive, Unlock, TypeOK, Critical, Active
  <2>3. WireInv'
    BY <1>0, <1>5, WireFrame DEF Unlock, TypeOK, netVars
  <2>4. ConnectionInv' /\ MethodInv' /\ PutInv' /\ ClosedIsTerminal'
    BY <1>0, <1>5 DEF Unlock, TypeOK, netVars, ConnectionInv, MethodInv,
                      PutInv, Unstored, ClosedIsTerminal, Active
  <2> QED BY <2>1, <2>2, <2>3, <2>4 DEF ClientInv
<1>6. CASE Ensure(c)
  <2>1. TypeOK'
    BY <1>0, <1>6 DEF TypeOK, Ensure, netVars, Places, Critical, Active
  <2>2. GateExclusive'
    BY <1>0, <1>6 DEF GateExclusive, Ensure, TypeOK, Critical, Active
  <2>3. WireInv'
    BY <1>0, <1>6, WireFrame DEF Ensure, TypeOK, netVars
  <2>4. ConnectionInv' /\ MethodInv' /\ PutInv' /\ ClosedIsTerminal'
    BY <1>0, <1>6 DEF Ensure, TypeOK, netVars, ConnectionInv, MethodInv,
                      PutInv, Unstored, ClosedIsTerminal, Active
  <2> QED BY <2>1, <2>2, <2>3, <2>4 DEF ClientInv
<1> QED BY <1>1, <1>2, <1>3, <1>4, <1>5, <1>6

\* What drop does while c holds the gate: only the PUTR that c itself waits on
\* can become a stray.
LEMMA Dropped ==
    ASSUME ClientInv, NEW c \in Calls, pc[c] \in Critical, drop
    PROVE  /\ connections' = {}
           /\ \A n \in Nodes : Silent(n)'
           /\ requests' \in [Nodes -> Seq(RequestType)]
           /\ replies' \in [Nodes -> Seq(ReplyType)]
           /\ strays' \in SUBSET Calls
           /\ strays \subseteq strays' /\ strays' \subseteq strays \cup {c}
           /\ c \in strays' /\ c \notin strays =>
                 /\ pc[c] = "reply" /\ op[c] = "put" /\ applied[c] = 0
                 /\ \E n \in Nodes : requests[n] # <<>>
<1>1. /\ connections' = {}
      /\ \A n \in Nodes : Silent(n)'
      /\ requests' \in [Nodes -> Seq(RequestType)]
      /\ replies' \in [Nodes -> Seq(ReplyType)]
  BY SingletonSequences DEF drop, Silent
<1>2. strays' \in SUBSET Calls /\ strays \subseteq strays'
  BY DEF drop, ClientInv, TypeOK
<1>3. ASSUME NEW d \in Calls, d \in strays', d \notin strays
      PROVE  /\ d = c /\ pc[c] = "reply" /\ op[c] = "put" /\ applied[c] = 0
             /\ \E n \in Nodes : requests[n] # <<>>
  <2>1. PICK n \in Nodes : \E i \in DOMAIN requests[n] : requests[n][i].call = d
    BY <1>3 DEF drop
  <2>2. op[d] = "put"
    BY <1>3 DEF drop
  <2>3. requests[n] # <<>>
    BY <2>1
  <2>4. Awaits(c, n)
    BY <2>3, HolderOnly DEF Silent
  <2>5. requests[n] = <<Request(c)>> /\ pc[c] = "reply" /\ applied[c] = 0
    BY <2>3, <2>4 DEF Awaits
  <2>6. d = c
    BY <2>1, <2>5 DEF Request
  <2> QED BY <2>2, <2>3, <2>5, <2>6
<1> QED BY <1>1, <1>2, <1>3

\* Leaving an exchange, or ensure, with an error: the connections are dropped
\* and the call returns r or, a read, starts over.
LEMMA FailureStep ==
    ASSUME ClientInv, NEW c \in Calls, pc[c] \in Active, drop,
           UNCHANGED <<gate, closed, op, ctx, sent, applied>>,
           node' \in [Calls -> Nodes],
           hops' \in [Calls -> 0..MaxRedirects],
           attempt' \in [Calls -> {0, 1}],
           \/ /\ op[c] \in Reads
              /\ pc' = [pc EXCEPT ![c] = "ensure"]
              /\ UNCHANGED result
           \/ /\ pc' = [pc EXCEPT ![c] = "unlock"]
              /\ \E r \in Results :
                    /\ result' = [result EXCEPT ![c] = r]
                    /\ op[c] = "put" =>
                          /\ r # "ok"
                          /\ r # "indeterminate" => Unstored(c) /\ c \notin strays'
    PROVE  ClientInv'
<1>0. TypeOK /\ WireInv /\ GateExclusive /\ ConnectionInv /\ MethodInv
      /\ PutInv /\ ClosedIsTerminal
  BY DEF ClientInv
<1>1. /\ pc' \in [Calls -> Places]
      /\ \A d \in Calls \ {c} : pc'[d] = pc[d] /\ pc[d] \notin Critical
      /\ pc'[c] = "unlock" \/ (pc'[c] = "ensure" /\ op[c] \in Reads)
  BY <1>0, HolderOnly DEF TypeOK, Places, Critical, Active
<1>2. TypeOK'
  <2>1. result' \in [Calls -> Results]
    BY <1>0 DEF TypeOK
  <2> QED BY <1>0, <1>1, <2>1, Dropped DEF TypeOK, Critical
<1>3. GateExclusive'
  BY <1>0, <1>1 DEF GateExclusive, Critical, Active
<1>4. WireInv'
  BY Dropped DEF WireInv, Critical
<1>5. ConnectionInv' /\ MethodInv' /\ ClosedIsTerminal'
  <2>1. ConnectionInv'
    BY <1>1 DEF ConnectionInv, Critical, Active
  <2>2. MethodInv'
    BY <1>0, <1>1 DEF MethodInv, Critical, Active
  <2>3. ClosedIsTerminal'
    BY <1>0, <1>1, Dropped DEF ClosedIsTerminal, Critical, Active
  <2> QED BY <2>1, <2>2, <2>3
<1>6. PutInv'
  <2> SUFFICES ASSUME NEW d \in Calls
               PROVE  /\ op'[d] # "put" => Unstored(d)'
                      /\ pc'[d] \in {"idle", "lock", "ensure", "dial",
                                     "exchange", "write"} => Unstored(d)'
                      /\ pc'[d] = "reply" => d \notin strays'
                      /\ d \in strays' => applied'[d] = 0
                      /\ applied'[d] <= 1
                      /\ op'[d] = "put" /\ pc'[d] \in {"unlock", "done"} =>
                            /\ result'[d] = "ok" => applied'[d] = 1
                            /\ result'[d] \notin {"ok", "indeterminate"} =>
                                   Unstored(d)'
    BY DEF PutInv
  <2>1. CASE d # c
    <3>1. /\ pc'[d] = pc[d] /\ result'[d] = result[d]
          /\ op'[d] = op[d] /\ applied'[d] = applied[d]
      BY <1>0, <2>1 DEF TypeOK
    <3>2. d \in strays' <=> d \in strays
      BY <2>1, Dropped DEF Critical
    <3> QED BY <1>0, <3>1, <3>2 DEF PutInv, Unstored
  <2>2. CASE d = c
    <3>1. c \in strays' => applied[c] = 0
      BY <1>0, Dropped DEF PutInv, Critical
    <3>2. op[c] # "put" => applied[c] = 0 /\ c \notin strays'
      BY <1>0, Dropped DEF PutInv, Critical, Unstored
    <3>3. pc'[c] \in {"unlock", "ensure"} /\ applied[c] <= 1
      BY <1>0 DEF TypeOK, PutInv
    <3>4. CASE op[c] # "put"
      BY <2>2, <3>1, <3>2, <3>3, <3>4 DEF Unstored
    <3>5. CASE op[c] = "put"
      <4>1. pc'[c] = "unlock"
        BY <1>0, <3>5 DEF TypeOK, Reads
      <4>2. CASE result'[c] = "indeterminate"
        BY <2>2, <3>1, <3>3, <3>5, <4>1, <4>2 DEF Unstored
      <4>3. CASE result'[c] # "indeterminate"
        <5>1. result'[c] # "ok" /\ Unstored(c) /\ c \notin strays'
          BY <1>0, <3>5, <4>1, <4>3 DEF TypeOK
        <5> QED BY <2>2, <3>1, <3>3, <3>5, <4>1, <4>3, <5>1 DEF Unstored
      <4> QED BY <4>2, <4>3
    <3> QED BY <3>4, <3>5
  <2> QED BY <2>1, <2>2
<1> QED BY <1>2, <1>3, <1>4, <1>5, <1>6 DEF ClientInv

\* A read whose operation failed (client.go:189-199).
LEMMA ReadFailedStep ==
    ASSUME ClientInv, NEW c \in Calls, pc[c] \in Active, op[c] \in Reads,
           NEW e \in DialErrors \cup {"ctx"}, ReadFailed(c, e),
           UNCHANGED <<gate, closed, op, ctx, sent, applied>>
    PROVE  ClientInv'
<1>0. TypeOK /\ op[c] # "put"
  BY DEF ClientInv, Reads
<1>1. drop
  BY DEF ReadFailed
<1>2. CASE StartAttempt(c, 1) /\ UNCHANGED result
  <2>1. /\ node' \in [Calls -> Nodes]
        /\ hops' \in [Calls -> 0..MaxRedirects]
        /\ attempt' \in [Calls -> {0, 1}]
    BY <1>0, <1>2, StartTyped
  <2>2. pc' = [pc EXCEPT ![c] = "ensure"]
    BY <1>2 DEF StartAttempt
  <2> QED BY <1>1, <1>2, <2>1, <2>2, FailureStep
<1>3. CASE Return(c, IoError(c, e)) /\ UNCHANGED <<node, hops, attempt>>
  <2>1. /\ node' \in [Calls -> Nodes]
        /\ hops' \in [Calls -> 0..MaxRedirects]
        /\ attempt' \in [Calls -> {0, 1}]
    BY <1>0, <1>3 DEF TypeOK
  <2>2. IoError(c, e) \in Results
    BY DEF IoError, Results
  <2>3. /\ pc' = [pc EXCEPT ![c] = "unlock"]
        /\ result' = [result EXCEPT ![c] = IoError(c, e)]
    BY <1>3 DEF Return
  <2> QED BY <1>0, <1>1, <2>1, <2>2, <2>3, FailureStep
<1> QED BY <1>2, <1>3 DEF ReadFailed

\* An exchange that fails: a put that is not reported as indeterminate must
\* not be stored, now or later.
LEMMA ExchangeFailedStep ==
    ASSUME ClientInv, NEW c \in Calls, pc[c] \in Active,
           NEW e \in DialErrors \cup {"ctx"}, NEW attempted \in BOOLEAN,
           ExchangeFailed(c, e, attempted),
           UNCHANGED <<gate, closed, op, ctx, sent, applied>>,
           op[c] = "put" =>
              \/ PutError(e, attempted) = "indeterminate"
              \/ Unstored(c) /\ \A n \in Nodes : requests[n] = <<>>
    PROVE  ClientInv'
<1>0. TypeOK
  BY DEF ClientInv
<1>1. CASE op[c] = "put" /\ PutFailed(c, e, attempted)
  <2>1. drop /\ UNCHANGED <<node, hops, attempt>>
    BY <1>1 DEF PutFailed
  <2>2. /\ node' \in [Calls -> Nodes]
        /\ hops' \in [Calls -> 0..MaxRedirects]
        /\ attempt' \in [Calls -> {0, 1}]
    BY <1>0, <2>1 DEF TypeOK
  <2>3. PutError(e, attempted) \in Results \ {"ok"}
    BY DEF PutError, Results, DialErrors, IoErrors
  <2>4. PutError(e, attempted) # "indeterminate" =>
            Unstored(c) /\ c \notin strays'
    BY <1>1, <2>1, Dropped DEF Critical, Unstored
  <2>5. /\ pc' = [pc EXCEPT ![c] = "unlock"]
        /\ result' = [result EXCEPT ![c] = PutError(e, attempted)]
    BY <1>1 DEF PutFailed, Return
  <2> QED BY <2>1, <2>2, <2>3, <2>4, <2>5, FailureStep
<1>2. CASE op[c] \in Reads /\ ReadFailed(c, e)
  BY <1>2, ReadFailedStep
<1> QED BY <1>1, <1>2 DEF ExchangeFailed

\* A write error: nothing the server could act on has left, or the outcome is
\* reported as unknown.
LEMMA FailedActions ==
    ASSUME ClientInv, NEW c \in Calls,
           \/ \E e \in IoErrors : WriteFailed(c, e) \/ ReplyFailed(c, e)
           \/ ReplyRejected(c)
    PROVE  ClientInv'
<1>0. TypeOK /\ PutInv
  BY DEF ClientInv
<1>1. ASSUME NEW e \in IoErrors, WriteFailed(c, e) \/ ReplyFailed(c, e)
      PROVE  ClientInv'
  <2>1. IoError(c, e) \in DialErrors \cup {"ctx"}
    BY DEF IoError, DialErrors
  <2>2. PutError(IoError(c, e), TRUE) = "indeterminate"
    BY DEF PutError, IoError, IoErrors
  <2>3. /\ pc[c] \in Active
        /\ ExchangeFailed(c, IoError(c, e), TRUE)
        /\ UNCHANGED <<gate, closed, op, ctx, sent, applied>>
    BY <1>1 DEF WriteFailed, ReplyFailed, Active
  <2> QED BY <2>1, <2>2, <2>3, ExchangeFailedStep
<1>2. CASE ReplyRejected(c)
  <2>1. /\ pc[c] = "reply" /\ pc[c] \in Active /\ pc[c] \in Critical
        /\ replies[node[c]] # <<>> /\ node[c] \in Nodes
        /\ UNCHANGED <<gate, closed, op, ctx, sent, applied>>
    BY <1>0, <1>2 DEF ReplyRejected, HasReply, Active, Critical, TypeOK
  <2>2. Awaits(c, node[c])
    BY <2>1, HolderOnly DEF Silent
  <2>3. AwaitedAnswer(c, Reply(c))
    BY <2>1, <2>2, SingletonSequences DEF Awaits, Reply
  <2>4. \A n \in Nodes : requests[n] = <<>>
    BY <2>1, <2>2, HolderOnly DEF Awaits, Silent
  <2>5. CASE Reply(c).kind = "ERR" /\ ExchangeFailed(c, "server", TRUE)
    <3>1. op[c] = "put" => Unstored(c)
      BY <1>0, <2>1, <2>3, <2>5 DEF AwaitedAnswer, PutInv, Unstored
    <3> QED BY <2>1, <2>4, <2>5, <3>1, ExchangeFailedStep DEF DialErrors
  <2>6. CASE ExchangeFailed(c, "protocol", TRUE)
    <3>1. PutError("protocol", TRUE) = "indeterminate"
      BY DEF PutError
    <3> QED BY <2>1, <2>6, <3>1, ExchangeFailedStep DEF DialErrors
  <2> QED BY <1>2, <2>5, <2>6 DEF ReplyRejected
<1> QED BY <1>1, <1>2

\* Close (client.go:72-82): no PUTR is on the wire when it has the gate.
LEMMA CloseStep ==
    ASSUME ClientInv, NEW c \in Calls, Close(c)
    PROVE  ClientInv'
<1>0. TypeOK /\ GateExclusive /\ WireInv /\ MethodInv /\ PutInv
  BY DEF ClientInv
<1>1. /\ gate /\ gate' = FALSE /\ closed' = TRUE /\ drop
      /\ pc[c] = "lock" /\ op[c] = "close"
      /\ pc' = [pc EXCEPT ![c] = "unlock"]
      /\ result' = [result EXCEPT ![c] = "ok"]
      /\ UNCHANGED <<op, ctx, node, hops, attempt, sent, applied>>
  BY DEF Close, Return
<1>2. \A d \in Calls : pc[d] \notin Critical
  BY <1>0, <1>1 DEF GateExclusive
<1>3. \A n \in Nodes : Silent(n)
  BY <1>0, <1>2 DEF WireInv, Awaits, Critical, Active
<1>4. /\ connections' = {} /\ strays' = strays
      /\ \A n \in Nodes : Silent(n)'
      /\ requests' \in [Nodes -> Seq(RequestType)]
      /\ replies' \in [Nodes -> Seq(ReplyType)]
  BY <1>1, <1>3, SingletonSequences DEF drop, Silent
<1>5. TypeOK'
  <2>1. pc' \in [Calls -> Places] /\ result' \in [Calls -> Results]
    BY <1>0, <1>1 DEF TypeOK, Places, Critical, Results
  <2> QED BY <1>0, <1>1, <1>4, <2>1 DEF TypeOK
<1>6. GateExclusive' /\ WireInv'
  BY <1>0, <1>1, <1>2, <1>4 DEF GateExclusive, WireInv, TypeOK, Critical
<1>7. ConnectionInv' /\ MethodInv' /\ ClosedIsTerminal'
  BY <1>0, <1>1, <1>2, <1>4 DEF ConnectionInv, MethodInv, ClosedIsTerminal,
                                TypeOK, Critical, Active
<1>8. PutInv'
  BY <1>0, <1>1, <1>4 DEF PutInv, Unstored, TypeOK
<1> QED BY <1>5, <1>6, <1>7, <1>8 DEF ClientInv

\* ensure (client.go:83-131), which opens a connection or fails.
LEMMA DialStep ==
    ASSUME ClientInv, NEW c \in Calls,
           Dialed(c) \/ \E e \in DialErrors : DialFailed(c, e)
    PROVE  ClientInv'
<1>0. TypeOK /\ WireInv /\ GateExclusive /\ ConnectionInv /\ MethodInv
      /\ PutInv /\ ClosedIsTerminal
  BY DEF ClientInv
<1>1. pc[c] = "dial" /\ pc[c] \in Active /\ pc[c] \in Critical
      /\ node[c] \in Nodes
  BY <1>0 DEF Dialed, DialFailed, Active, Critical, TypeOK
<1>2. /\ \A n \in Nodes : Silent(n)
      /\ \A d \in Calls \ {c} : pc[d] \notin Critical
  BY <1>1, HolderOnly
<1>3. CASE Dialed(c)
  <2>1. requests' = requests /\ replies' = replies
    BY <1>0, <1>1, <1>2, <1>3 DEF Dialed, Silent, TypeOK
  <2>2. /\ pc' = [pc EXCEPT ![c] = "exchange"]
        /\ connections' = connections \cup {node[c]}
        /\ UNCHANGED <<gate, closed, op, ctx, node, hops, attempt, result,
                       sent, strays, applied>>
    BY <1>3 DEF Dialed
  <2>3. TypeOK'
    <3>1. pc' \in [Calls -> Places] /\ connections' \in SUBSET Nodes
      BY <1>0, <1>1, <2>2 DEF TypeOK, Places, Critical, Active
    <3> QED BY <1>0, <2>1, <2>2, <3>1 DEF TypeOK
  <2>4. GateExclusive'
    BY <1>0, <1>1, <2>2 DEF GateExclusive, TypeOK, Critical, Active
  <2>5. WireInv'
    BY <1>2, <2>1 DEF WireInv, Silent
  <2>6. ConnectionInv' /\ MethodInv' /\ PutInv' /\ ClosedIsTerminal'
    BY <1>0, <1>1, <2>2 DEF ConnectionInv, MethodInv, PutInv, Unstored,
                            ClosedIsTerminal, TypeOK, Active
  <2> QED BY <2>3, <2>4, <2>5, <2>6 DEF ClientInv
<1>4. ASSUME NEW e \in DialErrors, DialFailed(c, e) PROVE ClientInv'
  <2>1. IoError(c, e) \in DialErrors \cup {"ctx"}
    BY DEF IoError
  <2>2. UNCHANGED <<gate, closed, op, ctx, sent, applied>>
    BY <1>4 DEF DialFailed
  <2>3. CASE op[c] \in Reads /\ ReadFailed(c, IoError(c, e))
    BY <1>1, <2>1, <2>2, <2>3, ReadFailedStep
  <2>4. CASE op[c] = "put" /\ ~(ReadFailed(c, IoError(c, e)) /\ op[c] \in Reads)
    <3>1. /\ pc' = [pc EXCEPT ![c] = "unlock"]
          /\ result' = [result EXCEPT ![c] = IoError(c, e)]
          /\ UNCHANGED <<connections, requests, replies, strays, node, hops,
                         attempt>>
      BY <1>4, <2>4 DEF DialFailed, Return
    <3>2. IoError(c, e) \in Results \ {"ok", "indeterminate"}
      BY <2>1 DEF Results, DialErrors, IoErrors
    <3>3. TypeOK'
      <4>1. pc' \in [Calls -> Places] /\ result' \in [Calls -> Results]
        BY <1>0, <3>1, <3>2 DEF TypeOK, Places, Critical
      <4> QED BY <1>0, <2>2, <3>1, <4>1 DEF TypeOK
    <3>4. GateExclusive'
      BY <1>0, <1>1, <2>2, <3>1 DEF GateExclusive, TypeOK, Critical, Active
    <3>5. WireInv'
      BY <1>2, <3>1 DEF WireInv, Silent
    <3>6. ConnectionInv' /\ MethodInv' /\ ClosedIsTerminal'
      BY <1>0, <1>1, <2>2, <3>1 DEF ConnectionInv, MethodInv,
                                    ClosedIsTerminal, TypeOK, Active
    <3>7. PutInv'
      BY <1>0, <1>1, <2>2, <3>1, <3>2 DEF PutInv, Unstored, TypeOK
    <3> QED BY <3>3, <3>4, <3>5, <3>6, <3>7 DEF ClientInv
  <2> QED BY <1>4, <2>3, <2>4 DEF DialFailed
<1> QED BY <1>3, <1>4

\* The call that holds the gate starts an exchange or writes its request.
LEMMA SendStep ==
    ASSUME ClientInv, NEW c \in Calls, Exchange(c) \/ Write(c)
    PROVE  ClientInv'
<1>0. TypeOK /\ WireInv /\ GateExclusive /\ ConnectionInv /\ MethodInv
      /\ PutInv /\ ClosedIsTerminal
  BY DEF ClientInv
<1>1. /\ pc[c] \in {"exchange", "write"} /\ pc[c] \in Active
      /\ pc[c] \in Critical /\ node[c] \in Nodes
  BY <1>0 DEF Exchange, Write, Active, Critical, TypeOK
<1>2. /\ \A n \in Nodes : Silent(n)
      /\ \A d \in Calls \ {c} : pc[d] \notin Critical
  BY <1>1, HolderOnly
<1>3. Unstored(c)
  BY <1>0, <1>1 DEF PutInv
<1>4. CASE Exchange(c)
  <2>1. UNCHANGED <<gate, closed, op, ctx, sent, applied>>
    BY <1>4 DEF Exchange
  <2>2. CASE /\ pc' = [pc EXCEPT ![c] = "write"]
             /\ UNCHANGED <<connections, requests, replies, strays, node, hops,
                            attempt, result>>
    <3>1. TypeOK'
      <4>1. pc' \in [Calls -> Places]
        BY <1>0, <2>2 DEF TypeOK, Places, Critical, Active
      <4> QED BY <1>0, <2>1, <2>2, <4>1 DEF TypeOK
    <3>2. GateExclusive' /\ WireInv'
      BY <1>0, <1>1, <1>2, <2>1, <2>2 DEF GateExclusive, WireInv, Silent,
                                          TypeOK, Critical, Active
    <3>3. ConnectionInv' /\ MethodInv' /\ PutInv' /\ ClosedIsTerminal'
      BY <1>0, <1>1, <2>1, <2>2, <1>3, <1>4
         DEF Exchange, ConnectionInv, MethodInv, PutInv, Unstored,
             ClosedIsTerminal, TypeOK, Active
    <3> QED BY <3>1, <3>2, <3>3 DEF ClientInv
  <2>3. ASSUME NEW e \in {"ctx", "connection"}, ExchangeFailed(c, e, FALSE)
        PROVE  ClientInv'
    <3>1. e \in DialErrors \cup {"ctx"}
      BY DEF DialErrors, IoErrors
    <3>2. \A n \in Nodes : requests[n] = <<>>
      BY <1>2 DEF Silent
    <3> QED BY <1>1, <1>3, <2>1, <2>3, <3>1, <3>2, ExchangeFailedStep
  <2> QED BY <1>4, <2>2, <2>3 DEF Exchange
<1>5. CASE Write(c)
  <2>1. /\ pc[c] = "write" /\ pc' = [pc EXCEPT ![c] = "reply"]
        /\ UNCHANGED <<gate, closed, connections, op, ctx, node, hops,
                       attempt, result, replies, strays, applied>>
    BY <1>5 DEF Write
  <2>2. requests' = [requests EXCEPT ![node[c]] = <<Request(c)>>]
    BY <1>0, <1>1, <1>2, <1>5, RequestTyped, SingletonSequences
       DEF Write, Silent
  <2>3. TypeOK'
    <3>1. pc' \in [Calls -> Places] /\ sent' \in [Calls -> Nat]
      BY <1>0, <1>5 DEF TypeOK, Write, Places, Critical, Active
    <3>2. requests' \in [Nodes -> Seq(RequestType)]
      BY <1>0, <2>2, RequestTyped, SingletonSequences DEF TypeOK
    <3> QED BY <1>0, <2>1, <3>1, <3>2 DEF TypeOK
  <2>4. GateExclusive'
    BY <1>0, <1>1, <2>1 DEF GateExclusive, TypeOK, Critical, Active
  <2>5. WireInv'
    <3>1. Awaits(c, node[c])'
      BY <1>0, <1>1, <1>2, <1>3, <2>1, <2>2
         DEF Awaits, Silent, Unstored, Request, TypeOK
    <3>2. \A n \in Nodes \ {node[c]} : Silent(n)'
      BY <1>0, <1>2, <2>1, <2>2 DEF Silent, TypeOK
    <3> QED BY <2>1, <3>1, <3>2 DEF WireInv
  <2>6. ConnectionInv' /\ MethodInv' /\ PutInv' /\ ClosedIsTerminal'
    BY <1>0, <1>1, <1>3, <2>1 DEF ConnectionInv, MethodInv, PutInv, Unstored,
                                  ClosedIsTerminal, TypeOK, Active
  <2> QED BY <2>3, <2>4, <2>5, <2>6 DEF ClientInv
<1> QED BY <1>4, <1>5

\* The call takes the one reply there is, and the connection is silent again.
LEMMA ReplyStep ==
    ASSUME ClientInv, NEW c \in Calls, ReplyAccepted(c) \/ Redirected(c)
    PROVE  ClientInv'
<1>0. TypeOK /\ WireInv /\ GateExclusive /\ ConnectionInv /\ MethodInv
      /\ PutInv /\ ClosedIsTerminal
  BY DEF ClientInv
<1>1. /\ pc[c] = "reply" /\ pc[c] \in Active /\ pc[c] \in Critical
      /\ node[c] \in Nodes /\ replies[node[c]] # <<>>
      /\ Consume(c)
      /\ UNCHANGED <<gate, closed, op, ctx, attempt, sent, applied>>
  BY <1>0 DEF ReplyAccepted, Redirected, HasReply, Active, Critical, TypeOK
<1>2. /\ \A n \in Nodes : Silent(n) \/ Awaits(c, n)
      /\ \A d \in Calls \ {c} : pc[d] \notin Critical
  BY <1>1, HolderOnly
<1>3. /\ requests[node[c]] = <<>>
      /\ Reply(c) \in ReplyType
      /\ replies[node[c]] = <<Reply(c)>>
      /\ AwaitedAnswer(c, Reply(c))
  BY <1>1, <1>2, SingletonSequences DEF Awaits, Silent, Reply
<1>4. replies' = [replies EXCEPT ![node[c]] = <<>>]
      /\ UNCHANGED <<connections, requests, strays>>
  BY <1>0, <1>1, <1>3, SingletonSequences DEF Consume
<1>5. \A n \in Nodes : Silent(n)'
  BY <1>0, <1>1, <1>2, <1>3, <1>4 DEF Silent, Awaits, TypeOK
<1>6. replies' \in [Nodes -> Seq(ReplyType)]
  BY <1>0, <1>3, <1>4, SingletonSequences DEF TypeOK
<1>7. WireInv'
  BY <1>5 DEF WireInv
<1>8. CASE ReplyAccepted(c)
  <2>1. /\ pc' = [pc EXCEPT ![c] = "unlock"]
        /\ \E r \in {"ok", "absent"} :
              /\ result' = [result EXCEPT ![c] = r]
              /\ r = "ok" => Reply(c).kind \in {"ID", "VAL", "OK"}
              /\ r = "absent" => Reply(c).kind = "MISS"
        /\ UNCHANGED <<node, hops>>
    BY <1>8 DEF ReplyAccepted, Return
  <2>2. op[c] = "put" => result'[c] = "ok" /\ applied[c] = 1
    BY <1>0, <1>3, <2>1 DEF AwaitedAnswer, ReplyKinds, TypeOK
  <2>3. TypeOK'
    <3>1. pc' \in [Calls -> Places] /\ result' \in [Calls -> Results]
      BY <1>0, <2>1 DEF TypeOK, Places, Critical, Results
    <3> QED BY <1>0, <1>1, <1>4, <1>6, <2>1, <3>1 DEF TypeOK
  <2>4. GateExclusive'
    BY <1>0, <1>1, <2>1 DEF GateExclusive, TypeOK, Critical, Active
  <2>5. ConnectionInv' /\ MethodInv' /\ ClosedIsTerminal'
    BY <1>0, <1>1, <1>4, <2>1 DEF ConnectionInv, MethodInv, ClosedIsTerminal,
                                  TypeOK, Active
  <2>6. PutInv'
    BY <1>0, <1>1, <1>4, <2>1, <2>2 DEF PutInv, Unstored, TypeOK
  <2> QED BY <1>7, <2>3, <2>4, <2>5, <2>6 DEF ClientInv
<1>9. CASE Redirected(c)
  <2>1. /\ Reply(c).kind = "FWD" /\ hops[c] < MaxRedirects
        /\ pc' = [pc EXCEPT ![c] = "ensure"]
        /\ node' = [node EXCEPT ![c] = Reply(c).node]
        /\ hops' = [hops EXCEPT ![c] = @ + 1]
        /\ UNCHANGED result
    BY <1>9 DEF Redirected, MayRedirect
  <2>2. op[c] # "put"
    BY <1>3, <2>1 DEF AwaitedAnswer, ReplyKinds
  <2>3. TypeOK'
    <3>1. pc' \in [Calls -> Places] /\ node' \in [Calls -> Nodes]
      BY <1>0, <1>3, <2>1 DEF TypeOK, Places, Critical, Active, ReplyType
    <3>2. hops' \in [Calls -> 0..MaxRedirects]
      BY <1>0, <2>1, ClientAssumption DEF TypeOK
    <3> QED BY <1>0, <1>1, <1>4, <1>6, <2>1, <3>1, <3>2 DEF TypeOK
  <2>4. GateExclusive'
    BY <1>0, <1>1, <2>1 DEF GateExclusive, TypeOK, Critical, Active
  <2>5. ConnectionInv' /\ MethodInv' /\ ClosedIsTerminal'
    BY <1>0, <1>1, <1>4, <2>1 DEF ConnectionInv, MethodInv, ClosedIsTerminal,
                                  TypeOK, Active
  <2>6. PutInv'
    BY <1>0, <1>1, <1>4, <2>1, <2>2 DEF PutInv, Unstored, TypeOK
  <2> QED BY <1>7, <2>3, <2>4, <2>5, <2>6 DEF ClientInv
<1> QED BY <1>8, <1>9

\* The server answers the one request there is, or executes a stray PUTR.
LEMMA ServerStep ==
    ASSUME ClientInv, Server
    PROVE  ClientInv'
<1>0. TypeOK /\ WireInv /\ GateExclusive /\ ConnectionInv /\ MethodInv
      /\ PutInv /\ ClosedIsTerminal
  BY DEF ClientInv
<1>1. ASSUME NEW n \in Nodes, Serve(n) PROVE ClientInv'
  <2>1. /\ requests[n] # <<>>
        /\ UNCHANGED <<gate, closed, connections, op, pc, ctx, node, hops,
                       attempt, result, sent, strays>>
    BY <1>1 DEF Serve, callVars
  <2>2. PICK c \in Calls : Awaits(c, n)
    BY <1>0, <2>1 DEF WireInv, Silent
  <2>3. /\ requests[n] = <<Request(c)>> /\ replies[n] = <<>>
        /\ applied[c] = 0 /\ pc[c] = "reply" /\ node[c] = n
        /\ pc[c] \in Critical /\ pc[c] \in Active
    BY <2>1, <2>2 DEF Awaits, Critical, Active
  <2>4. op[c] \in {"put", "get", "health"}
    BY <1>0, <2>3 DEF MethodInv, Reads
  <2>5. /\ Head(requests[n]) = Request(c)
        /\ Tail(requests[n]) = <<>>
        /\ Request(c) \in RequestType
        /\ Request(c).call = c
    <3>1. Request(c) \in RequestType
      BY <1>0, RequestTyped
    <3> QED BY <2>3, <3>1, SingletonSequences DEF Request
  <2>6. PICK kind \in ReplyKinds[op[c]], m \in Nodes, stored \in BOOLEAN :
            /\ stored => Stores(Request(c), kind)
            /\ kind = "ID" => stored
            /\ replies' = [replies EXCEPT ![n] =
                   Append(@, [req |-> Request(c), kind |-> kind, node |-> m])]
            /\ applied' = [applied EXCEPT ![c] = IF stored THEN @ + 1 ELSE @]
    <3> DEFINE q == Head(requests[n])
    <3>1. \E kind \in ReplyKinds[op[q.call]], m \in Nodes, stored \in BOOLEAN :
            /\ stored => Stores(q, kind)
            /\ kind = "ID" => stored
            /\ replies' = [replies EXCEPT ![n] =
                   Append(@, [req |-> q, kind |-> kind, node |-> m])]
            /\ applied' = [applied EXCEPT ![q.call] =
                   IF stored THEN @ + 1 ELSE @]
      BY <1>1 DEF Serve
    <3>2. q = Request(c) /\ q.call = c
      BY <2>5
    <3> HIDE DEF q
    <3> QED BY <3>1, <3>2
  <2>7. requests' = [requests EXCEPT ![n] = <<>>]
    BY <1>1, <2>5 DEF Serve
  <2>8. PICK r \in ReplyType :
            r = [req |-> Request(c), kind |-> kind, node |-> m]
    <3>1. kind \in {"ID", "VAL", "MISS", "FWD", "OK", "ERR", "BAD"}
      BY <2>4 DEF ReplyKinds
    <3>2. [req |-> Request(c), kind |-> kind, node |-> m] \in ReplyType
      BY <2>5, <3>1 DEF ReplyType
    <3> QED BY <3>2
  <2>9. replies' = [replies EXCEPT ![n] = <<r>>]
    BY <1>0, <2>3, <2>6, <2>8, SingletonSequences DEF TypeOK
  <2>10. /\ applied' \in [Calls -> Nat]
         /\ applied'[c] \in {0, 1}
         /\ applied'[c] = 1 <=> stored
         /\ \A d \in Calls \ {c} : applied'[d] = applied[d]
    BY <1>0, <2>3, <2>6 DEF TypeOK
  <2>11. op[c] = "put" => /\ kind = "ID" => applied'[c] = 1
                          /\ kind = "ERR" => applied'[c] = 0
    BY <2>6, <2>10 DEF Stores
  <2>12. op[c] # "put" => applied'[c] = 0
    BY <2>5, <2>6, <2>10 DEF Stores
  <2>13. TypeOK'
    <3>1. requests' \in [Nodes -> Seq(RequestType)]
      BY <1>0, <2>5, <2>7, SingletonSequences DEF TypeOK
    <3>2. replies' \in [Nodes -> Seq(ReplyType)]
      BY <1>0, <2>8, <2>9, SingletonSequences DEF TypeOK
    <3> QED BY <1>0, <2>1, <2>10, <3>1, <3>2 DEF TypeOK
  <2>14. WireInv'
    <3>1. Awaits(c, n)'
      <4>1. requests'[n] = <<>> /\ replies'[n] = <<r>>
        BY <1>0, <2>7, <2>9 DEF TypeOK
      <4>2. AwaitedAnswer(c, r)'
        BY <2>1, <2>8, <2>11 DEF AwaitedAnswer, Request
      <4> QED BY <2>1, <2>3, <2>8, <4>1, <4>2 DEF Awaits
    <3>2. \A k \in Nodes \ {n} : Silent(k)'
      <4>1. \A k \in Nodes \ {n} : Silent(k)
        BY <2>3, HolderOnly DEF Awaits
      <4> QED BY <1>0, <2>7, <2>9, <4>1 DEF Silent, TypeOK
    <3> QED BY <3>1, <3>2 DEF WireInv
  <2>15. GateExclusive' /\ ConnectionInv' /\ MethodInv' /\ ClosedIsTerminal'
    BY <1>0, <2>1 DEF GateExclusive, ConnectionInv, MethodInv,
                      ClosedIsTerminal
  <2>16. PutInv'
    BY <1>0, <2>1, <2>3, <2>10, <2>12 DEF PutInv, Unstored
  <2> QED BY <2>13, <2>14, <2>15, <2>16 DEF ClientInv
<1>2. ASSUME NEW c \in Calls, ServeStray(c) PROVE ClientInv'
  <2>1. /\ c \in strays /\ strays' = strays \ {c}
        /\ applied' = [applied EXCEPT ![c] = @ + 1]
        /\ UNCHANGED <<gate, closed, connections, op, pc, ctx, node, hops,
                       attempt, result, sent, requests, replies>>
    BY <1>2 DEF ServeStray, callVars
  <2>2. /\ applied[c] = 0 /\ op[c] = "put" /\ pc[c] \in {"unlock", "done"}
        /\ result[c] = "indeterminate"
    BY <1>0, <2>1 DEF PutInv, Unstored, TypeOK, Places, Critical, Active
  <2>3. TypeOK'
    BY <1>0, <2>1 DEF TypeOK
  <2>4. WireInv'
    <3>1. ASSUME NEW n \in Nodes, NEW d \in Calls, Awaits(d, n)
          PROVE  Awaits(d, n)'
      <4>1. d # c /\ applied'[d] = applied[d]
        BY <1>0, <2>1, <2>2, <3>1 DEF Awaits, TypeOK
      <4> QED BY <2>1, <3>1, <4>1 DEF Awaits, AwaitedAnswer, Request
    <3>2. \A n \in Nodes : Silent(n) => Silent(n)'
      BY <2>1 DEF Silent
    <3> QED BY <1>0, <3>1, <3>2 DEF WireInv
  <2>5. GateExclusive' /\ ConnectionInv' /\ MethodInv' /\ ClosedIsTerminal'
    BY <1>0, <2>1 DEF GateExclusive, ConnectionInv, MethodInv,
                      ClosedIsTerminal
  <2>6. PutInv'
    BY <1>0, <2>1, <2>2 DEF PutInv, Unstored, TypeOK
  <2> QED BY <2>3, <2>4, <2>5, <2>6 DEF ClientInv
<1> QED BY <1>1, <1>2 DEF Server

\* Every step of the client or the server preserves the invariant.
THEOREM ClientInvInductive == ClientInv /\ [Next]_vars => ClientInv'
<1> SUFFICES ASSUME ClientInv, [Next]_vars PROVE ClientInv'
  OBVIOUS
<1>1. ASSUME NEW c \in Calls, Progress(c) PROVE ClientInv'
  BY <1>1, LocalStep, DialStep, SendStep, ReplyStep, FailedActions DEF Progress
<1>2. ASSUME NEW c \in Calls, Acquire(c) PROVE ClientInv'
  BY <1>2, LocalStep, CloseStep DEF Acquire
<1>3. ASSUME NEW c \in Calls, (\E o \in Ops : Invoke(c, o)) \/ Cancel(c)
      PROVE  ClientInv'
  BY <1>3, LocalStep
<1>4. CASE Server
  BY <1>4, ServerStep
<1>5. CASE UNCHANGED vars
  <2> USE <1>5 DEF vars, callVars, netVars
  <2>1. TypeOK' /\ GateExclusive'
    BY DEF ClientInv, TypeOK, GateExclusive
  <2>2. WireInv'
    BY WireFrame DEF ClientInv
  <2>3. ConnectionInv' /\ MethodInv' /\ PutInv' /\ ClosedIsTerminal'
    BY DEF ClientInv, ConnectionInv, MethodInv, PutInv, Unstored,
           ClosedIsTerminal
  <2> QED BY <2>1, <2>2, <2>3 DEF ClientInv
<1> QED BY <1>1, <1>2, <1>3, <1>4, <1>5 DEF Next

\* The inductive invariant holds in every reachable state, whatever the number
\* of calls and peers.
THEOREM ClientInvariant == Spec => []ClientInv
  BY InvInit, ClientInvInductive, PTL DEF Spec

\* The fields of Client and the locals of its methods keep their types.
THEOREM TypeCorrect == Spec => []TypeOK
<1>1. ClientInv => TypeOK
  BY DEF ClientInv
<1> QED BY <1>1, ClientInvariant, PTL

\* Client.gate is a mutex: lock, unlock and Close (client.go:41-63, 76-77).
THEOREM MutualExclusion == Spec => []GateExclusive
<1>1. ClientInv => GateExclusive
  BY DEF ClientInv
<1> QED BY <1>1, ClientInvariant, PTL

\* No call reads the reply to another request, although connections are reused
\* after failures and replies carry no request number (client.go:174, 192).
THEOREM RepliesMatchRequests == Spec => []NoForeignReply
<1>1. ClientInv => NoForeignReply
  <2> SUFFICES ASSUME ClientInv, NEW c \in Calls, pc[c] = "reply",
                      NEW i \in DOMAIN replies[node[c]]
               PROVE  replies[node[c]][i].req = Request(c)
    BY DEF NoForeignReply
  <2>1. replies[node[c]] # <<>>
    OBVIOUS
  <2>2. node[c] \in Nodes
    BY DEF ClientInv, TypeOK
  <2>3. Awaits(c, node[c])
    BY <2>1, <2>2, HolderOnly DEF Silent, Critical, Active
  <2>4. PICK r \in ReplyType : replies[node[c]] = <<r>> /\ r.req = Request(c)
    BY <2>1, <2>3 DEF Awaits, AwaitedAnswer
  <2>5. i = 1 /\ replies[node[c]][i] = r
    BY <2>4, SingletonSequences
  <2> QED BY <2>4, <2>5
<1> QED BY <1>1, ClientInvariant, PTL

\* A PUTR is in flight for the call that waits on it, or is a stray.
LEMMA InFlightMeans ==
    ASSUME ClientInv, NEW c \in Calls, InFlight(c)
    PROVE  /\ applied[c] = 0
           /\ c \in strays \/ pc[c] = "reply"
<1>1. CASE c \in strays
  BY <1>1 DEF ClientInv, PutInv
<1>2. CASE \E n \in Nodes : \E i \in DOMAIN requests[n] :
               requests[n][i].call = c
  <2>1. PICK n \in Nodes : \E i \in DOMAIN requests[n] : requests[n][i].call = c
    BY <1>2
  <2>2. requests[n] # <<>>
    BY <2>1
  <2>3. PICK d \in Calls : Awaits(d, n)
    BY <2>2 DEF ClientInv, WireInv, Silent
  <2>4. requests[n] = <<Request(d)>> /\ applied[d] = 0 /\ pc[d] = "reply"
    BY <2>2, <2>3 DEF Awaits
  <2>5. d = c
    BY <2>1, <2>4 DEF Request
  <2> QED BY <2>4, <2>5
<1> QED BY <1>1, <1>2 DEF InFlight

\* PutCodec never sends its record twice (client.go:133, 160-178).
THEOREM PutNeverReplayed == Spec => []PutAtMostOnce
<1>1. ClientInv => PutAtMostOnce
  <2> SUFFICES ASSUME ClientInv, NEW c \in Calls
               PROVE  applied[c] + (IF InFlight(c) THEN 1 ELSE 0) <= 1
    BY DEF PutAtMostOnce
  <2>1. applied[c] \in Nat /\ applied[c] <= 1
    BY DEF ClientInv, TypeOK, PutInv
  <2>2. InFlight(c) => applied[c] = 0
    BY InFlightMeans
  <2> QED BY <2>1, <2>2
<1> QED BY <1>1, ClientInvariant, PTL

\* The error of a put tells the caller what happened to the record, for good
\* (client.go:173-178, docs/native-tcp.md:85-89).
THEOREM PutErrorsTruthful == Spec => []PutOutcomeTruthful
<1>1. ClientInv => PutOutcomeTruthful
  <2> SUFFICES ASSUME ClientInv, NEW c \in Calls, op[c] = "put",
                      pc[c] \in {"unlock", "done"}
               PROVE  /\ result[c] = "ok" => applied[c] = 1
                      /\ result[c] \notin {"ok", "indeterminate"} =>
                             applied[c] = 0 /\ ~InFlight(c)
    BY DEF PutOutcomeTruthful
  <2>1. /\ result[c] = "ok" => applied[c] = 1
        /\ result[c] \notin {"ok", "indeterminate"} => Unstored(c)
    BY DEF ClientInv, PutInv
  <2>2. Unstored(c) => applied[c] = 0 /\ ~InFlight(c)
    BY InFlightMeans DEF Unstored
  <2> QED BY <2>1, <2>2
<1> QED BY <1>1, ClientInvariant, PTL

\* Close is terminal for the calls that were waiting on the gate, too
\* (client.go:56-59, 76-79, 84).
THEOREM CloseIsFinal == Spec => []ClosedIsTerminal
<1>1. ClientInv => ClosedIsTerminal
  BY DEF ClientInv
<1> QED BY <1>1, ClientInvariant, PTL

-----------------------------------------------------------------------------
(* The requests of a call.                                                 *)

\* What the work of one call says; WorkInv and WorkBounded say it of all.
Work(c) ==
    /\ pc[c] \in {"idle", "lock"} => sent[c] = 0
    /\ pc[c] \in Active => /\ sent[c] <= Written(c)
                          /\ hops[c] < Budget(c)
                          /\ attempt[c] < Attempts(c)
    /\ sent[c] <= Attempts(c) * Budget(c)

LEMMA WorkOfEach == WorkInv /\ WorkBounded <=> \A c \in Calls : Work(c)
BY DEF WorkInv, WorkBounded, Work

\* The products that the bound is made of.
LEMMA WorkArithmetic ==
    ASSUME TypeOK, NEW c \in Calls
    PROVE  /\ Budget(c) \in Nat /\ Budget(c) >= 1
           /\ Attempts(c) \in {1, 2}
           /\ Attempts(c) = 1 => Attempts(c) * Budget(c) = Budget(c)
           /\ Attempts(c) = 2 => Attempts(c) * Budget(c) = Budget(c) + Budget(c)
           /\ attempt[c] \in {0, 1} /\ hops[c] \in Nat /\ sent[c] \in Nat
           /\ attempt[c] = 0 => attempt[c] * Budget(c) = 0
           /\ attempt[c] = 1 => attempt[c] * Budget(c) = Budget(c)
<1>1. Budget(c) \in Nat /\ Budget(c) >= 1
  BY ClientAssumption DEF Budget
<1>2. Attempts(c) \in {1, 2}
  BY DEF Attempts
<1>3. attempt[c] \in {0, 1} /\ hops[c] \in Nat /\ sent[c] \in Nat
  BY ClientAssumption DEF TypeOK
<1> QED BY <1>1, <1>2, <1>3

\* A call is within the bound of its attempt once it is within its parts.
LEMMA WithinBound ==
    ASSUME TypeOK, NEW c \in Calls, hops[c] < Budget(c),
           attempt[c] < Attempts(c), sent[c] <= Written(c)
    PROVE  /\ sent[c] <= Attempts(c) * Budget(c)
           /\ attempt[c] = 0 => sent[c] <= Budget(c)
<1> DEFINE b == Budget(c)
<1>1. /\ b \in Nat /\ Attempts(c) \in {1, 2} /\ attempt[c] \in {0, 1}
      /\ hops[c] \in Nat /\ sent[c] \in Nat
  BY WorkArithmetic
<1>2. sent[c] <= attempt[c] * b + hops[c] + 1
  <2>1. attempt[c] * b \in Nat
    BY <1>1
  <2> QED BY <1>1, <2>1 DEF Written
<1>3. CASE attempt[c] = 0
  <2>1. sent[c] <= b
    BY <1>1, <1>2, <1>3, WorkArithmetic
  <2> QED BY <1>1, <2>1, WorkArithmetic
<1>4. CASE attempt[c] = 1
  <2>1. sent[c] <= b + b
    BY <1>1, <1>2, <1>4, WorkArithmetic
  <2>2. Attempts(c) = 2
    BY <1>1, <1>4
  <2> QED BY <1>4, <2>1, <2>2, WorkArithmetic
<1> QED BY <1>1, <1>3, <1>4

\* A step of c leaves the work of every other call alone.
LEMMA OthersWork ==
    ASSUME TypeOK, WorkInv, WorkBounded, NEW c \in Calls,
           \A d \in Calls \ {c} :
               /\ pc'[d] = pc[d] /\ op'[d] = op[d] /\ sent'[d] = sent[d]
               /\ hops'[d] = hops[d] /\ attempt'[d] = attempt[d],
           Work(c)'
    PROVE  WorkInv' /\ WorkBounded'
<1>1. ASSUME NEW d \in Calls \ {c} PROVE Work(d)'
  <2>1. Work(d)
    BY WorkOfEach
  <2>2. /\ Written(d)' = Written(d) /\ Budget(d)' = Budget(d)
        /\ Attempts(d)' = Attempts(d)
    BY DEF Written, Budget, Attempts
  <2> QED BY <2>1, <2>2 DEF Work
<1>2. \A d \in Calls : Work(d)'
  BY <1>1
<1> QED BY <1>2 DEF WorkInv, WorkBounded, Work

\* A call that writes nothing and returns.
LEMMA ReturnWork ==
    ASSUME TypeOK, WorkInv, WorkBounded, NEW c \in Calls,
           NEW p \in {"unlock", "done"}, pc' = [pc EXCEPT ![c] = p],
           UNCHANGED <<op, sent>>,
           \A d \in Calls \ {c} : hops'[d] = hops[d] /\ attempt'[d] = attempt[d]
    PROVE  WorkInv' /\ WorkBounded'
<1>1. pc'[c] = p /\ \A d \in Calls \ {c} : pc'[d] = pc[d]
  BY DEF TypeOK
<1>2. Work(c)'
  <2>1. Budget(c)' = Budget(c) /\ Attempts(c)' = Attempts(c)
    BY DEF Budget, Attempts
  <2> QED BY <1>1, <2>1 DEF WorkBounded, Work, Active
<1> QED BY <1>1, <1>2, OthersWork

\* A call that goes on within its attempt without writing.
LEMMA GoOnWork ==
    ASSUME TypeOK, WorkInv, WorkBounded, NEW c \in Calls,
           NEW p \in {"dial", "exchange", "write"},
           pc[c] \in {"ensure", "dial", "exchange"},
           pc' = [pc EXCEPT ![c] = p],
           UNCHANGED <<op, sent, hops, attempt>>
    PROVE  WorkInv' /\ WorkBounded'
<1>1. pc'[c] = p /\ \A d \in Calls \ {c} : pc'[d] = pc[d]
  BY DEF TypeOK
<1>2. Work(c)'
  <2>1. Budget(c)' = Budget(c) /\ Attempts(c)' = Attempts(c)
    BY DEF Budget, Attempts
  <2>2. Written(c)' = Written(c)
    BY <1>1, <2>1 DEF Written
  <2> QED BY <1>1, <2>1, <2>2, WorkOfEach DEF Work, Active
<1> QED BY <1>1, <1>2, OthersWork

\* A read that failed: it starts its second attempt, for which what it has
\* written leaves room, or returns (client.go:189-199).
LEMMA ReadFailedWork ==
    ASSUME TypeOK, WorkInv, WorkBounded, NEW c \in Calls, pc[c] \in Active,
           op[c] \in Reads, NEW e, ReadFailed(c, e), UNCHANGED <<op, sent>>
    PROVE  WorkInv' /\ WorkBounded'
<1>1. CASE Retryable(c, e) /\ StartAttempt(c, 1)
  <2>1. /\ attempt[c] = 0 /\ RetryReads
        /\ pc'[c] = "ensure" /\ hops'[c] = 0 /\ attempt'[c] = 1
        /\ sent'[c] = sent[c] /\ op'[c] = op[c]
        /\ \A d \in Calls \ {c} : /\ pc'[d] = pc[d] /\ hops'[d] = hops[d]
                                  /\ attempt'[d] = attempt[d]
    BY <1>1 DEF Retryable, StartAttempt, TypeOK
  <2>2. Budget(c)' = Budget(c) /\ Attempts(c)' = 2 /\ Attempts(c) = 2
    BY <2>1 DEF Budget, Attempts
  <2>3. sent[c] <= Budget(c) /\ sent[c] <= Attempts(c) * Budget(c)
    BY <2>1, WithinBound DEF WorkInv
  <2>4. Written(c)' = Budget(c) /\ 0 < Budget(c)
    BY <2>1, <2>2, WorkArithmetic DEF Written
  <2>5. Work(c)'
    BY <2>1, <2>2, <2>3, <2>4 DEF Work, Active
  <2> QED BY <2>1, <2>5, OthersWork
<1>2. CASE Return(c, IoError(c, e)) /\ UNCHANGED <<node, hops, attempt>>
  BY <1>2, ReturnWork DEF Return
<1> QED BY <1>1, <1>2 DEF ReadFailed

\* An exchange that fails, of a put or a read.
LEMMA FailureWork ==
    ASSUME TypeOK, WorkInv, WorkBounded, NEW c \in Calls, pc[c] \in Active,
           NEW e, NEW attempted, ExchangeFailed(c, e, attempted),
           UNCHANGED <<op, sent>>
    PROVE  WorkInv' /\ WorkBounded'
<1>1. CASE PutFailed(c, e, attempted)
  BY <1>1, ReturnWork DEF PutFailed, Return
<1>2. CASE op[c] \in Reads /\ ReadFailed(c, e)
  BY <1>2, ReadFailedWork
<1> QED BY <1>1, <1>2 DEF ExchangeFailed

\* The request that is written is the one its hop has room for.
LEMMA WriteWork ==
    ASSUME TypeOK, WorkInv, WorkBounded, NEW c \in Calls, Write(c)
    PROVE  WorkInv' /\ WorkBounded'
<1>1. /\ pc[c] = "write" /\ pc'[c] = "reply" /\ sent'[c] = sent[c] + 1
      /\ UNCHANGED <<op, hops, attempt>>
      /\ \A d \in Calls \ {c} : pc'[d] = pc[d] /\ sent'[d] = sent[d]
  BY DEF Write, TypeOK
<1>2. /\ Budget(c)' = Budget(c) /\ Attempts(c)' = Attempts(c)
      /\ sent[c] <= Written(c)
      /\ hops[c] < Budget(c) /\ attempt[c] < Attempts(c)
  BY <1>1 DEF Budget, Attempts, WorkInv, Active
<1>3. sent'[c] <= Written(c)'
  <2>1. attempt[c] * Budget(c) \in Nat /\ hops[c] \in Nat /\ sent[c] \in Nat
    BY WorkArithmetic
  <2> QED BY <1>1, <1>2, <2>1 DEF Written
<1>4. sent'[c] <= Attempts(c) * Budget(c)
  <2>1. sent'[c] <= attempt[c] * Budget(c) + hops[c] + 1
    BY <1>1, <1>2, <1>3 DEF Written
  <2>2. CASE attempt[c] = 0
    BY <1>1, <1>2, <2>1, <2>2, WorkArithmetic
  <2>3. CASE attempt[c] = 1
    BY <1>1, <1>2, <2>1, <2>3, WorkArithmetic
  <2> QED BY <2>2, <2>3, WorkArithmetic
<1>5. Work(c)'
  BY <1>1, <1>2, <1>3, <1>4 DEF Work, Active
<1> QED BY <1>1, <1>5, OthersWork

\* A redirect goes to a hop that the budget of a get still has.
LEMMA RedirectWork ==
    ASSUME ClientInv, WorkInv, WorkBounded, NEW c \in Calls, Redirected(c)
    PROVE  WorkInv' /\ WorkBounded'
<1>0. TypeOK /\ MethodInv
  BY DEF ClientInv
<1>1. /\ pc[c] = "reply" /\ pc'[c] = "ensure" /\ hops'[c] = hops[c] + 1
      /\ hops[c] < MaxRedirects /\ Reply(c).kind = "FWD"
      /\ node[c] \in Nodes /\ replies[node[c]] # <<>>
      /\ UNCHANGED <<op, sent, attempt>>
      /\ \A d \in Calls \ {c} : pc'[d] = pc[d] /\ hops'[d] = hops[d]
  BY <1>0 DEF Redirected, MayRedirect, HasReply, TypeOK
<1>2. op[c] = "get"
  <2>1. Awaits(c, node[c])
    BY <1>1, HolderOnly DEF Silent, Critical, Active
  <2>2. Reply(c).kind \in ReplyKinds[op[c]]
    BY <1>1, <2>1, SingletonSequences DEF Awaits, AwaitedAnswer, Reply
  <2>3. op[c] \in {"put", "get", "health"}
    BY <1>0, <1>1 DEF MethodInv, Reads, Active
  <2> QED BY <1>1, <2>2, <2>3 DEF ReplyKinds
<1>3. /\ Budget(c)' = Budget(c) /\ Attempts(c)' = Attempts(c)
      /\ sent[c] <= Written(c) /\ attempt[c] < Attempts(c)
      /\ sent[c] <= Attempts(c) * Budget(c)
  BY <1>1 DEF Budget, Attempts, WorkInv, WorkBounded, Active
<1>4. Written(c)' = Written(c)
  <2>1. attempt[c] * Budget(c) \in Nat /\ hops[c] \in Nat
    BY <1>0, WorkArithmetic
  <2> QED BY <1>1, <1>3, <2>1 DEF Written
<1>5. hops'[c] < Budget(c)
  BY <1>0, <1>1, <1>2, WorkArithmetic, ClientAssumption DEF Budget
<1>6. Work(c)'
  BY <1>1, <1>3, <1>4, <1>5 DEF Work, Active
<1> QED BY <1>0, <1>1, <1>6, OthersWork

\* A method is entered, with nothing written so far.
LEMMA InvokeWork ==
    ASSUME TypeOK, WorkInv, WorkBounded, NEW c \in Calls, NEW o \in Ops,
           Invoke(c, o)
    PROVE  WorkInv' /\ WorkBounded'
<1>1. /\ pc[c] = "idle" /\ pc'[c] \in {"lock", "done"} /\ sent'[c] = sent[c]
      /\ UNCHANGED <<hops, attempt, sent>> /\ op' = [op EXCEPT ![c] = o]
      /\ \A d \in Calls \ {c} : pc'[d] = pc[d] /\ op'[d] = op[d]
  BY DEF Invoke, TypeOK
<1>2. sent'[c] = 0
  BY <1>1 DEF WorkInv
<1>3. 0 <= Attempts(c)' * Budget(c)'
  <2>1. Attempts(c)' \in Nat /\ Budget(c)' \in Nat
    BY ClientAssumption DEF Attempts, Budget
  <2> QED BY <2>1
<1>4. Work(c)'
  BY <1>1, <1>2, <1>3 DEF Work, Active
<1> QED BY <1>1, <1>4, OthersWork

\* lock starts the first attempt, or the call returns.
LEMMA LockWork ==
    ASSUME TypeOK, WorkInv, WorkBounded, NEW c \in Calls, Lock(c)
    PROVE  WorkInv' /\ WorkBounded'
<1>1. pc[c] = "lock" /\ sent[c] = 0 /\ UNCHANGED <<op, sent>>
  BY DEF Lock, WorkInv
<1>2. CASE StartAttempt(c, 0)
  <2>1. /\ pc'[c] = "ensure" /\ hops'[c] = 0 /\ attempt'[c] = 0
        /\ \A d \in Calls \ {c} : /\ pc'[d] = pc[d] /\ hops'[d] = hops[d]
                                  /\ attempt'[d] = attempt[d]
    BY <1>2 DEF StartAttempt, TypeOK
  <2>2. Budget(c)' = Budget(c) /\ Attempts(c)' = Attempts(c)
    BY <1>1 DEF Budget, Attempts
  <2>3. 0 < Budget(c) /\ 0 < Attempts(c)
    BY WorkArithmetic
  <2>4. sent'[c] <= Written(c)'
    BY <1>1, <2>1, <2>2, WorkArithmetic DEF Written
  <2>5. Work(c)'
    BY <1>1, <2>1, <2>2, <2>3, <2>4 DEF Work, WorkBounded, Active
  <2> QED BY <1>1, <2>1, <2>5, OthersWork
<1>3. CASE \E r : Return(c, r) /\ UNCHANGED <<node, hops, attempt>>
  BY <1>1, <1>3, ReturnWork DEF Return
<1> QED BY <1>2, <1>3 DEF Lock

\* Every step of the client or the server preserves the bound.
LEMMA WorkInductive ==
    ASSUME ClientInv, WorkInv, WorkBounded, [Next]_vars
    PROVE  WorkInv' /\ WorkBounded'
<1>0. TypeOK
  BY DEF ClientInv
<1>1. ASSUME UNCHANGED <<op, pc, hops, attempt, sent>>
      PROVE  WorkInv' /\ WorkBounded'
  BY <1>1 DEF WorkInv, WorkBounded, Written, Budget, Attempts
<1>2. ASSUME NEW c \in Calls, NEW o \in Ops, Invoke(c, o)
      PROVE  WorkInv' /\ WorkBounded'
  BY <1>0, <1>2, InvokeWork
<1>3. ASSUME NEW c \in Calls, Cancel(c) PROVE WorkInv' /\ WorkBounded'
  BY <1>1, <1>3 DEF Cancel
<1>4. ASSUME NEW c \in Calls, Acquire(c) PROVE WorkInv' /\ WorkBounded'
  <2>1. CASE Lock(c)
    BY <1>0, <2>1, LockWork
  <2>2. CASE Close(c)
    BY <1>0, <2>2, ReturnWork DEF Close, Return
  <2> QED BY <1>4, <2>1, <2>2 DEF Acquire
<1>5. ASSUME NEW c \in Calls, Progress(c) PROVE WorkInv' /\ WorkBounded'
  <2>1. CASE LockCanceled(c) \/ ReplyAccepted(c)
    BY <1>0, <2>1, ReturnWork DEF LockCanceled, ReplyAccepted, Return
  <2>2. CASE Unlock(c)
    <3>1. \A d \in Calls \ {c} : hops'[d] = hops[d] /\ attempt'[d] = attempt[d]
      BY <1>0, <2>2 DEF Unlock, TypeOK
    <3> QED BY <1>0, <2>2, <3>1, ReturnWork DEF Unlock
  <2>3. CASE Ensure(c)
    <3>1. \E p \in {"dial", "exchange"} : pc' = [pc EXCEPT ![c] = p]
      BY <2>3 DEF Ensure
    <3> QED BY <1>0, <2>3, <3>1, GoOnWork DEF Ensure
  <2>4. CASE Dialed(c)
    BY <1>0, <2>4, GoOnWork DEF Dialed
  <2>5. CASE Exchange(c)
    <3>1. CASE \E e : ExchangeFailed(c, e, FALSE)
      BY <1>0, <2>5, <3>1, FailureWork DEF Exchange, Active
    <3>2. CASE pc' = [pc EXCEPT ![c] = "write"] /\ UNCHANGED <<hops, attempt>>
      BY <1>0, <2>5, <3>2, GoOnWork DEF Exchange
    <3> QED BY <2>5, <3>1, <3>2 DEF Exchange
  <2>6. CASE Write(c)
    BY <1>0, <2>6, WriteWork
  <2>7. CASE Redirected(c)
    BY <2>7, RedirectWork
  <2>8. CASE ReplyRejected(c)
    <3>1. \E e : ExchangeFailed(c, e, TRUE)
      BY <2>8 DEF ReplyRejected
    <3> QED BY <1>0, <2>8, <3>1, FailureWork DEF ReplyRejected, HasReply, Active
  <2>9. ASSUME NEW e \in DialErrors, DialFailed(c, e)
        PROVE  WorkInv' /\ WorkBounded'
    <3>1. pc[c] \in Active /\ UNCHANGED <<op, sent>>
      BY <2>9 DEF DialFailed, Active
    <3>2. CASE Return(c, IoError(c, e)) /\ UNCHANGED <<hops, attempt>>
      BY <1>0, <3>1, <3>2, ReturnWork DEF Return
    <3>3. CASE op[c] \in Reads /\ ReadFailed(c, IoError(c, e))
      BY <1>0, <3>1, <3>3, ReadFailedWork
    <3> QED BY <2>9, <3>2, <3>3 DEF DialFailed
  <2>10. ASSUME NEW e \in IoErrors, WriteFailed(c, e) \/ ReplyFailed(c, e)
         PROVE  WorkInv' /\ WorkBounded'
    BY <1>0, <2>10, FailureWork DEF WriteFailed, ReplyFailed, Active
  <2> QED BY <1>5, <2>1, <2>2, <2>3, <2>4, <2>5, <2>6, <2>7, <2>8, <2>9, <2>10
          DEF Progress
<1>6. CASE Server
  BY <1>1, <1>6 DEF Server, Serve, ServeStray, callVars
<1>7. CASE UNCHANGED vars
  BY <1>1, <1>7 DEF vars, callVars
<1> QED BY <1>2, <1>3, <1>4, <1>5, <1>6, <1>7 DEF Next

\* The inductive invariant of the contract's run, with the bound on requests.
THEOREM ClientInductive == Spec => []InductiveInv
<1>1. Init => InductiveInv
  <2> SUFFICES ASSUME Init PROVE InductiveInv
    OBVIOUS
  <2>1. ClientInv /\ TypeOK
    BY InvInit DEF ClientInv
  <2>2. WorkInv
    BY DEF Init, WorkInv, Active
  <2>3. WorkBounded
    <3> SUFFICES ASSUME NEW c \in Calls PROVE sent[c] <= Attempts(c) * Budget(c)
      BY DEF WorkBounded
    <3>1. sent[c] = 0
      BY DEF Init
    <3> QED BY <2>1, <3>1, WorkArithmetic
  <2> QED BY <2>1, <2>2, <2>3 DEF InductiveInv
<1>2. InductiveInv /\ [Next]_vars => InductiveInv'
  BY ClientInvInductive, WorkInductive DEF InductiveInv
<1> QED BY <1>1, <1>2, PTL DEF Spec

\* No chain of redirects, and no retry, makes a call write more requests than
\* its options allow (client.go:186-200, 267-291).
THEOREM WorkIsBounded == Spec => []WorkBounded
<1>1. InductiveInv => WorkBounded
  BY DEF InductiveInv
<1> QED BY <1>1, ClientInductive, PTL
=============================================================================
