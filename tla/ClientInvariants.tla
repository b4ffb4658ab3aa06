-------------------------- MODULE ClientInvariants --------------------------
(***************************************************************************)
(* What the TCP client promises: properties of KoutenClient, and the parts *)
(* of the inductive invariant they follow from.                            *)
(***************************************************************************)
EXTENDS KoutenClient

RequestType == [call : Calls, attempt : {0, 1}, hop : 0..MaxRedirects]
ReplyType   == [req : RequestType,
                kind : {"ID", "VAL", "MISS", "FWD", "OK", "ERR", "BAD"},
                node : Nodes]

\* The values the fields of Client (client.go:15-22), the locals of its
\* methods and the sockets take.
TypeOK ==
    /\ gate \in BOOLEAN
    /\ closed \in BOOLEAN
    /\ connections \in SUBSET Nodes
    /\ op \in [Calls -> Ops \cup {"none"}]
    /\ pc \in [Calls -> Places]
    /\ ctx \in [Calls -> {"live", "done"}]
    /\ node \in [Calls -> Nodes]
    /\ hops \in [Calls -> 0..MaxRedirects]
    /\ attempt \in [Calls -> {0, 1}]
    /\ result \in [Calls -> Results]
    /\ sent \in [Calls -> Nat]
    /\ requests \in [Nodes -> Seq(RequestType)]
    /\ replies \in [Nodes -> Seq(ReplyType)]
    /\ strays \in SUBSET Calls
    /\ applied \in [Calls -> Nat]

\* Client.gate is a mutex: its token is out exactly while one call is between
\* lock and unlock, on every early return of lock, readOperation and Close.
\* A second unlock would block its goroutine for good, a missing one every
\* later call.
GateExclusive ==
    /\ gate <=> \A c \in Calls : pc[c] \notin Critical
    /\ \A c, d \in Calls : pc[c] \in Critical /\ pc[d] \in Critical => c = d

\* A call never reads the reply to a request other than the one it is waiting
\* on: not one of a call that timed out or was canceled, and not one of its
\* own first attempt.  The protocol has no request numbers, so this rests on
\* drop after every failed exchange (client.go:174, 192).
NoForeignReply ==
    \A c \in Calls : pc[c] = "reply" =>
        \A i \in DOMAIN replies[node[c]] :
            replies[node[c]][i].req = Request(c)

\* The server may still store the record of c.
InFlight(c) ==
    \/ c \in strays
    \/ \E n \in Nodes : \E i \in DOMAIN requests[n] :
           requests[n][i].call = c

\* A PUTR is never replayed: the server stores a record at most once for a
\* call of PutCodec, also counting a copy left behind on a closed connection.
PutAtMostOnce ==
    \A c \in Calls : op[c] = "put" =>
        applied[c] + (IF InFlight(c) THEN 1 ELSE 0) <= 1

\* What Put reports is the truth for good: success means the record is stored,
\* and any error other than ErrIndeterminateWrite (client.go:173-178) means
\* that it is not stored and never will be.
PutOutcomeTruthful ==
    \A c \in Calls : op[c] = "put" /\ pc[c] \in {"unlock", "done"} =>
        /\ result[c] = "ok" => applied[c] = 1
        /\ result[c] \notin {"ok", "indeterminate"} =>
              applied[c] = 0 /\ ~InFlight(c)

\* Close is terminal: afterwards no connection is open, none is opened and
\* nothing is sent, whatever was queued on the gate when Close ran.
ClosedIsTerminal ==
    closed => /\ connections = {}
              /\ \A c \in Calls : pc[c] \notin Active

\* A read writes at most MaxRedirects + 1 requests per attempt and makes at
\* most two attempts, whatever FWD replies (a cycle, say) it is given; a put
\* writes at most one.
Budget(c) == IF op[c] = "get" THEN MaxRedirects + 1 ELSE 1
Attempts(c) == IF op[c] \in Reads /\ RetryReads THEN 2 ELSE 1
WorkBounded == \A c \in Calls : sent[c] <= Attempts(c) * Budget(c)

-----------------------------------------------------------------------------
(* The inductive invariant.                                                *)

\* Nothing is owed on the connection to n.
Silent(n) == requests[n] = <<>> /\ replies[n] = <<>>

\* c waits for its reply from n: its request is with the server or the answer
\* to it is on the way, and nothing else is.
AwaitedAnswer(c, r) ==
    /\ r.req = Request(c)
    /\ r.kind \in ReplyKinds[op[c]]
    /\ op[c] = "put" => /\ r.kind = "ID" => applied[c] = 1
                        /\ r.kind = "ERR" => applied[c] = 0
Awaits(c, n) ==
    /\ pc[c] = "reply"
    /\ node[c] = n
    /\ \/ /\ requests[n] = <<Request(c)>>
          /\ replies[n] = <<>>
          /\ applied[c] = 0
       \/ /\ requests[n] = <<>>
          /\ \E r \in ReplyType : replies[n] = <<r>> /\ AwaitedAnswer(c, r)

\* A connection is silent unless the call that holds the gate awaits a reply
\* on it, so the next call may use it without resynchronizing.
WireInv == \A n \in Nodes : Silent(n) \/ \E c \in Calls : Awaits(c, n)

\* A connection is used only while it is in the map.
ConnectionInv ==
    \A c \in Calls :
        pc[c] \in {"exchange", "write", "reply"} => node[c] \in connections

\* Calls that are idle have no method yet, and only they.
MethodInv ==
    \A c \in Calls :
        /\ op[c] = "none" <=> pc[c] = "idle"
        /\ pc[c] \in Active => op[c] \in Reads \cup {"put"}

\* The record of c is not stored, and no request for it is under way.
Unstored(c) == applied[c] = 0 /\ c \notin strays

PutInv ==
    \A c \in Calls :
        /\ op[c] # "put" => Unstored(c)
        /\ pc[c] \in {"idle", "lock", "ensure", "dial", "exchange", "write"}
               => Unstored(c)
        /\ pc[c] = "reply" => c \notin strays
        /\ c \in strays => applied[c] = 0
        /\ applied[c] <= 1
        /\ op[c] = "put" /\ pc[c] \in {"unlock", "done"} =>
              /\ result[c] = "ok" => applied[c] = 1
              /\ result[c] \notin {"ok", "indeterminate"} => Unstored(c)

ClientInv ==
    /\ TypeOK
    /\ GateExclusive
    /\ WireInv
    /\ ConnectionInv
    /\ MethodInv
    /\ PutInv
    /\ ClosedIsTerminal

\* The requests c has at most written: all of an attempt before this one, one
\* for every redirect of this one, and the one whose reply it awaits.
Written(c) == attempt[c] * Budget(c) + hops[c]
              + (IF pc[c] = "reply" THEN 1 ELSE 0)

WorkInv ==
    \A c \in Calls :
        /\ pc[c] \in {"idle", "lock"} => sent[c] = 0
        /\ pc[c] \in Active => /\ sent[c] <= Written(c)
                              /\ hops[c] < Budget(c)
                              /\ attempt[c] < Attempts(c)

InductiveInv ==
    /\ ClientInv
    /\ WorkInv
    /\ WorkBounded

-----------------------------------------------------------------------------
(* The contract.                                                           *)

\* A call has returned once its result is fixed; the deferred unlock that may
\* follow is invisible to its caller.
Phase(c) ==
    IF pc[c] = "idle" THEN "new"
    ELSE IF pc[c] \in {"unlock", "done"} THEN "returned" ELSE "running"

Contract == INSTANCE KoutenContract
    WITH kind <- op, phase <- [c \in Calls |-> Phase(c)], outcome <- result,
         stored <- applied, sealed <- closed

\* The client, with its gate, reused connections, retries, redirects and the
\* server's late executions, does nothing the contract does not allow.
ImplementsContract == Contract!Spec

-----------------------------------------------------------------------------
(* Liveness.                                                               *)

\* Where every goroutine is scheduled every call returns: nobody waits on the
\* gate for ever and neither retries nor redirects go on without end.
CallsReturn ==
    Fairness => \A c \in Calls : (pc[c] = "lock") ~> (pc[c] = "done")
=============================================================================
