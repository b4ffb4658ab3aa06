--------------------------- MODULE ExchangeProofs ---------------------------
(***************************************************************************)
(* The safety of wire.exchange for any number of exchanges on a connection *)
(* and any way of writing frames: proofs of the properties of              *)
(* ExchangeInvariants.                                                     *)
(***************************************************************************)
EXTENDS ExchangeInvariants, TLAPS

\* Before the first exchange.
LEMMA ExchangeInit == Init => ExchangeInv
<1> SUFFICES ASSUME Init PROVE ExchangeInv
  OBVIOUS
<1>1. TypeOK
  <2>1. 0 \in 0..MaxExchanges /\ Frame \in 0..Frame
    BY ExchangeAssumption
  <2> QED BY <2>1 DEF Init, TypeOK, Deadlines
<1>2. CallbackInv /\ DeadlineInv /\ FrameInv /\ NoForeignInterrupt
      /\ AttemptedTruthful
  BY ExchangeAssumption
     DEF Init, CallbackInv, DeadlineInv, FrameInv, NoForeignInterrupt,
         AttemptedTruthful, Over, Deferred
<1> QED BY <1>1, <1>2 DEF ExchangeInv

\* Begin renews everything that belongs to the current exchange.
LEMMA BeginStep ==
    ASSUME ExchangeInv, Begin
    PROVE  ExchangeInv'
<1>0. TypeOK /\ CallbackInv
  BY DEF ExchangeInv
<1>1. /\ exchange' = exchange + 1 /\ exchange' \in 0..MaxExchanges
      /\ exchange' \in Exchanges /\ exchange' > 0 /\ exchange' > exchange
      /\ exchange > 0 => exchange \in Exchanges
      /\ \A e \in Exchanges : e > exchange' => e > exchange
  <2>1. exchange \in 0..MaxExchanges /\ exchange < MaxExchanges
        /\ exchange' = exchange + 1
    BY <1>0 DEF TypeOK, Begin
  <2> QED BY <2>1, ExchangeAssumption DEF Exchanges
<1>2. /\ call' \in [Exchanges -> Exchanges]
      /\ connection' \in [Exchanges -> Exchanges]
      /\ writeDeadline' \in Deadlines /\ readDeadline' \in Deadlines
  BY <1>0, <1>1 DEF TypeOK, Begin, sockets, Deadlines
<1>3. /\ pc = "idle" /\ pc' = "start"
      /\ frame' = Frame /\ attempted' = FALSE /\ failure' = "none"
      /\ cause' = "none" /\ outcome' = "none"
      /\ UNCHANGED <<bounded, ctx, callback>>
  BY DEF Begin
<1>4. TypeOK'
  <2>1. Frame \in 0..Frame
    BY ExchangeAssumption
  <2> QED BY <1>0, <1>1, <1>2, <1>3, <2>1 DEF TypeOK
<1>5. CallbackInv'
  <2>1. \A e \in Exchanges : e # exchange' => callback[e] \in Over
    <3>1. \A e \in Exchanges : e = exchange => exchange > 0
      BY <1>0 DEF TypeOK, Exchanges
    <3> QED BY <1>0, <1>3, <3>1 DEF CallbackInv
  <2>2. callback[exchange'] = "none"
    BY <1>0, <1>1 DEF CallbackInv
  <2>3. \A e \in Exchanges : e > exchange' => callback[e] = "none"
    BY <1>0, <1>1 DEF CallbackInv
  <2> QED BY <1>3, <2>1, <2>2, <2>3 DEF CallbackInv, Deferred
<1>6. DeadlineInv' /\ FrameInv' /\ NoForeignInterrupt' /\ AttemptedTruthful'
  BY <1>3, ExchangeAssumption
     DEF DeadlineInv, FrameInv, NoForeignInterrupt, AttemptedTruthful
<1> QED BY <1>4, <1>5, <1>6 DEF ExchangeInv

\* Every step of the goroutine, the callbacks, the contexts and the clock
\* preserves the invariant.
THEOREM ExchangeInductive == ExchangeInv /\ [Next]_vars => ExchangeInv'
<1> SUFFICES ASSUME ExchangeInv, [Next]_vars PROVE ExchangeInv'
  OBVIOUS
<1>0. TypeOK /\ CallbackInv /\ DeadlineInv /\ FrameInv /\ NoForeignInterrupt
      /\ AttemptedTruthful
  BY DEF ExchangeInv
<1>e. exchange > 0 => exchange \in Exchanges
  BY <1>0, ExchangeAssumption DEF TypeOK, Exchanges
<1> USE <1>0, <1>e DEF setup, sockets, local, Return, Fail
<1>1. CASE Begin
  BY <1>1, BeginStep
<1>2. CASE Start
  <2>1. TypeOK'
    BY <1>2 DEF TypeOK, Start
  <2>2. CallbackInv'
    BY <1>2
       DEF TypeOK, Start, CallbackInv, Over, Pending, Deferred, Canceled, Done
  <2>3. DeadlineInv'
    BY <1>2
       DEF TypeOK, Start, CallbackInv, DeadlineInv, Over, Pending, Deferred,
           Canceled, Done, Past
  <2>4. FrameInv' /\ NoForeignInterrupt' /\ AttemptedTruthful'
    BY <1>2 DEF TypeOK, Start, FrameInv, NoForeignInterrupt, AttemptedTruthful
  <2> QED BY <2>1, <2>2, <2>3, <2>4 DEF ExchangeInv
<1>3. CASE SetWriteDeadline
  <2>1. TypeOK'
    BY <1>3 DEF TypeOK, SetWriteDeadline, Deadlines, Ahead, Past, deadline
  <2>2. CallbackInv'
    BY <1>3
       DEF TypeOK, SetWriteDeadline, CallbackInv, Over, Pending, Deferred,
           Canceled, Done
  <2>3. DeadlineInv'
    BY <1>3
       DEF TypeOK, SetWriteDeadline, CallbackInv, DeadlineInv, Over, Pending,
           Deferred, Canceled, Done, Past, Ahead, deadline
  <2>4. FrameInv' /\ NoForeignInterrupt' /\ AttemptedTruthful'
    BY <1>3
       DEF TypeOK, SetWriteDeadline, FrameInv, NoForeignInterrupt,
           AttemptedTruthful
  <2> QED BY <2>1, <2>2, <2>3, <2>4 DEF ExchangeInv
<1>4. CASE AfterFunc
  <2>1. TypeOK'
    BY <1>4 DEF TypeOK, AfterFunc
  <2>2. CallbackInv'
    BY <1>4
       DEF TypeOK, AfterFunc, CallbackInv, Over, Pending, Deferred, Canceled,
           Done
  <2>3. DeadlineInv'
    BY <1>4
       DEF TypeOK, AfterFunc, CallbackInv, DeadlineInv, Over, Pending,
           Deferred, Canceled, Done, Past
  <2>4. FrameInv' /\ NoForeignInterrupt' /\ AttemptedTruthful'
    BY <1>4
       DEF TypeOK, AfterFunc, FrameInv, NoForeignInterrupt, AttemptedTruthful
  <2> QED BY <2>1, <2>2, <2>3, <2>4 DEF ExchangeInv
<1>5. CASE WriteLoop
  <2>0. /\ pc' \in {"setRead", "stop", "idle", "write"}
        /\ outcome' \in {"ctx", outcome} /\ attempted' \in {TRUE, attempted}
    BY <1>5 DEF WriteLoop
  <2>1. TypeOK'
    BY <1>5, <2>0 DEF WriteLoop, TypeOK
  <2>2. CallbackInv'
    BY <1>5
       DEF TypeOK, WriteLoop, CallbackInv, Over, Pending, Deferred, Canceled,
           Done
  <2>3. DeadlineInv'
    BY <1>5
       DEF TypeOK, WriteLoop, CallbackInv, DeadlineInv, Over, Pending,
           Deferred, Canceled, Done, Past
  <2>4. FrameInv' /\ NoForeignInterrupt' /\ AttemptedTruthful'
    BY <1>5
       DEF TypeOK, WriteLoop, FrameInv, NoForeignInterrupt, AttemptedTruthful
  <2> QED BY <2>1, <2>2, <2>3, <2>4 DEF ExchangeInv
<1>6. ASSUME NEW n \in 0..Frame, Write(n) PROVE ExchangeInv'
  <2>0. frame - n \in 0..Frame
    BY <1>6, ExchangeAssumption DEF Write, TypeOK
  <2>1. TypeOK'
    BY <1>6, <2>0 DEF Write, TypeOK
  <2>2. CallbackInv'
    BY <1>6
       DEF TypeOK, Write, CallbackInv, Over, Pending, Deferred, Canceled, Done
  <2>3. DeadlineInv'
    BY <1>6
       DEF TypeOK, Write, CallbackInv, DeadlineInv, Over, Pending, Deferred,
           Canceled, Done, Past
  <2>4. FrameInv' /\ NoForeignInterrupt' /\ AttemptedTruthful'
    BY <1>6, ExchangeAssumption
       DEF TypeOK, Write, FrameInv, NoForeignInterrupt, AttemptedTruthful
  <2> QED BY <2>1, <2>2, <2>3, <2>4 DEF ExchangeInv
<1>7. CASE SetReadDeadline
  <2>1. TypeOK'
    BY <1>7 DEF TypeOK, SetReadDeadline, Deadlines, Ahead, Past, deadline
  <2>2. CallbackInv'
    BY <1>7
       DEF TypeOK, SetReadDeadline, CallbackInv, Over, Pending, Deferred,
           Canceled, Done
  <2>3. DeadlineInv'
    BY <1>7
       DEF TypeOK, SetReadDeadline, CallbackInv, DeadlineInv, Over, Pending,
           Deferred, Canceled, Done, Past, Ahead, deadline
  <2>4. FrameInv' /\ NoForeignInterrupt' /\ AttemptedTruthful'
    BY <1>7
       DEF TypeOK, SetReadDeadline, FrameInv, NoForeignInterrupt,
           AttemptedTruthful
  <2> QED BY <2>1, <2>2, <2>3, <2>4 DEF ExchangeInv
<1>8. CASE Recheck
  <2>1. TypeOK'
    BY <1>8 DEF TypeOK, Recheck
  <2>2. CallbackInv'
    BY <1>8
       DEF TypeOK, Recheck, CallbackInv, Over, Pending, Deferred, Canceled,
           Done
  <2>3. DeadlineInv'
    BY <1>8
       DEF TypeOK, Recheck, CallbackInv, DeadlineInv, Over, Pending, Deferred,
           Canceled, Done, Past
  <2>4. FrameInv' /\ NoForeignInterrupt' /\ AttemptedTruthful'
    BY <1>8
       DEF TypeOK, Recheck, FrameInv, NoForeignInterrupt, AttemptedTruthful
  <2> QED BY <2>1, <2>2, <2>3, <2>4 DEF ExchangeInv
<1>9. CASE Reply
  <2>1. TypeOK'
    BY <1>9 DEF TypeOK, Reply
  <2>2. CallbackInv'
    BY <1>9
       DEF TypeOK, Reply, CallbackInv, Over, Pending, Deferred, Canceled, Done
  <2>3. DeadlineInv'
    BY <1>9
       DEF TypeOK, Reply, CallbackInv, DeadlineInv, Over, Pending, Deferred,
           Canceled, Done, Past
  <2>4. FrameInv' /\ NoForeignInterrupt' /\ AttemptedTruthful'
    BY <1>9 DEF TypeOK, Reply, FrameInv, NoForeignInterrupt, AttemptedTruthful
  <2> QED BY <2>1, <2>2, <2>3, <2>4 DEF ExchangeInv
<1>10. CASE TimedOut
  <2>1. TypeOK'
    BY <1>10 DEF TypeOK, TimedOut, Past
  <2>2. CallbackInv'
    BY <1>10
       DEF TypeOK, TimedOut, CallbackInv, Over, Pending, Deferred, Canceled,
           Done
  <2>3. DeadlineInv'
    BY <1>10
       DEF TypeOK, TimedOut, CallbackInv, DeadlineInv, Over, Pending, Deferred,
           Canceled, Done, Past
  <2>4. FrameInv' /\ NoForeignInterrupt' /\ AttemptedTruthful'
    <3>1. frame < Frame => attempted
      BY DEF AttemptedTruthful
    <3>2. pc = "read" => frame < Frame
      BY ExchangeAssumption DEF FrameInv
    <3>3. attempted
      BY <1>10, <3>1, <3>2 DEF TimedOut, FrameInv
    <3>4. pc' = "ioError" /\ failure' = "timeout"
          /\ UNCHANGED <<frame, attempted, outcome>>
      BY <1>10 DEF TimedOut
    <3>5. outcome' = "none"
      BY <1>10, <3>4 DEF TimedOut, FrameInv
    <3> QED BY <3>1, <3>3, <3>4, <3>5
            DEF FrameInv, NoForeignInterrupt, AttemptedTruthful
  <2> QED BY <2>1, <2>2, <2>3, <2>4 DEF ExchangeInv
<1>11. CASE PeerFails
  <2>1. TypeOK'
    BY <1>11 DEF TypeOK, PeerFails
  <2>2. CallbackInv'
    BY <1>11
       DEF TypeOK, PeerFails, CallbackInv, Over, Pending, Deferred, Canceled,
           Done
  <2>3. DeadlineInv'
    BY <1>11
       DEF TypeOK, PeerFails, CallbackInv, DeadlineInv, Over, Pending,
           Deferred, Canceled, Done, Past
  <2>4. FrameInv' /\ NoForeignInterrupt' /\ AttemptedTruthful'
    BY <1>11
       DEF TypeOK, PeerFails, FrameInv, NoForeignInterrupt, AttemptedTruthful
  <2> QED BY <2>1, <2>2, <2>3, <2>4 DEF ExchangeInv
<1>12. CASE IoError
  <2>1. TypeOK'
    BY <1>12 DEF TypeOK, IoError
  <2>2. CallbackInv'
    BY <1>12
       DEF TypeOK, IoError, CallbackInv, Over, Pending, Deferred, Canceled,
           Done
  <2>3. DeadlineInv'
    BY <1>12
       DEF TypeOK, IoError, CallbackInv, DeadlineInv, Over, Pending, Deferred,
           Canceled, Done, Past
  <2>4. FrameInv' /\ NoForeignInterrupt' /\ AttemptedTruthful'
    BY <1>12
       DEF TypeOK, IoError, FrameInv, NoForeignInterrupt, AttemptedTruthful,
           DeadlineInv
  <2> QED BY <2>1, <2>2, <2>3, <2>4 DEF ExchangeInv
<1>13. CASE Stop
  <2>1. TypeOK'
    BY <1>13 DEF TypeOK, Stop
  <2>2. CallbackInv'
    BY <1>13
       DEF TypeOK, Stop, CallbackInv, Over, Pending, Deferred, Canceled, Done
  <2>3. DeadlineInv'
    BY <1>13
       DEF TypeOK, Stop, CallbackInv, DeadlineInv, Over, Pending, Deferred,
           Canceled, Done, Past
  <2>4. FrameInv' /\ NoForeignInterrupt' /\ AttemptedTruthful'
    BY <1>13 DEF TypeOK, Stop, FrameInv, NoForeignInterrupt, AttemptedTruthful
  <2> QED BY <2>1, <2>2, <2>3, <2>4 DEF ExchangeInv
<1>14. CASE Wait
  <2>1. TypeOK'
    BY <1>14 DEF TypeOK, Wait
  <2>2. CallbackInv'
    BY <1>14
       DEF TypeOK, Wait, CallbackInv, Over, Pending, Deferred, Canceled, Done
  <2>3. DeadlineInv'
    BY <1>14
       DEF TypeOK, Wait, CallbackInv, DeadlineInv, Over, Pending, Deferred,
           Canceled, Done, Past
  <2>4. FrameInv' /\ NoForeignInterrupt' /\ AttemptedTruthful'
    BY <1>14 DEF TypeOK, Wait, FrameInv, NoForeignInterrupt, AttemptedTruthful
  <2> QED BY <2>1, <2>2, <2>3, <2>4 DEF ExchangeInv
<1>15. ASSUME NEW c \in Exchanges, Cancel(c) PROVE ExchangeInv'
  <2>1. TypeOK'
    BY <1>15 DEF TypeOK, Cancel
  <2>2. CallbackInv'
    BY <1>15
       DEF TypeOK, Cancel, CallbackInv, Over, Pending, Deferred, Canceled, Done
  <2>3. DeadlineInv'
    BY <1>15
       DEF TypeOK, Cancel, CallbackInv, DeadlineInv, Over, Pending, Deferred,
           Canceled, Done, Past
  <2>4. FrameInv' /\ NoForeignInterrupt' /\ AttemptedTruthful'
    BY <1>15
       DEF TypeOK, Cancel, FrameInv, NoForeignInterrupt, AttemptedTruthful
  <2> QED BY <2>1, <2>2, <2>3, <2>4 DEF ExchangeInv
<1>16. ASSUME NEW c \in Exchanges, DeadlinePasses(c) PROVE ExchangeInv'
  <2>1. TypeOK'
    BY <1>16 DEF TypeOK, DeadlinePasses
  <2>2. CallbackInv'
    BY <1>16
       DEF TypeOK, DeadlinePasses, CallbackInv, Over, Pending, Deferred,
           Canceled, Done
  <2>3. DeadlineInv'
    BY <1>16
       DEF TypeOK, DeadlinePasses, CallbackInv, DeadlineInv, Over, Pending,
           Deferred, Canceled, Done, Past
  <2>4. FrameInv' /\ NoForeignInterrupt' /\ AttemptedTruthful'
    BY <1>16
       DEF TypeOK, DeadlinePasses, FrameInv, NoForeignInterrupt,
           AttemptedTruthful
  <2> QED BY <2>1, <2>2, <2>3, <2>4 DEF ExchangeInv
<1>17. ASSUME NEW e \in Exchanges, Fire(e) PROVE ExchangeInv'
  <2>1. TypeOK'
    BY <1>17 DEF TypeOK, Fire
  <2>2. CallbackInv'
    BY <1>17
       DEF TypeOK, Fire, CallbackInv, Over, Pending, Deferred, Canceled, Done
  <2>3. DeadlineInv'
    BY <1>17
       DEF TypeOK, Fire, CallbackInv, DeadlineInv, Over, Pending, Deferred,
           Canceled, Done, Past
  <2>4. FrameInv' /\ NoForeignInterrupt' /\ AttemptedTruthful'
    BY <1>17 DEF TypeOK, Fire, FrameInv, NoForeignInterrupt, AttemptedTruthful
  <2> QED BY <2>1, <2>2, <2>3, <2>4 DEF ExchangeInv
<1>18. ASSUME NEW e \in Exchanges, Interrupt(e) PROVE ExchangeInv'
  <2>1. TypeOK'
    BY <1>18 DEF TypeOK, Interrupt, Deadlines, Past
  <2>2. CallbackInv'
    BY <1>18
       DEF TypeOK, Interrupt, CallbackInv, Over, Pending, Deferred, Canceled,
           Done
  <2>3. DeadlineInv'
    BY <1>18
       DEF TypeOK, Interrupt, CallbackInv, DeadlineInv, Over, Pending,
           Deferred, Canceled, Done, Past
  <2>4. FrameInv' /\ NoForeignInterrupt' /\ AttemptedTruthful'
    BY <1>18
       DEF TypeOK, Interrupt, FrameInv, NoForeignInterrupt, AttemptedTruthful
  <2> QED BY <2>1, <2>2, <2>3, <2>4 DEF ExchangeInv
<1>19. ASSUME NEW e \in Exchanges, CloseDone(e) PROVE ExchangeInv'
  <2>1. TypeOK'
    BY <1>19 DEF TypeOK, CloseDone
  <2>2. CallbackInv'
    BY <1>19
       DEF TypeOK, CloseDone, CallbackInv, Over, Pending, Deferred, Canceled,
           Done
  <2>3. DeadlineInv'
    BY <1>19
       DEF TypeOK, CloseDone, CallbackInv, DeadlineInv, Over, Pending,
           Deferred, Canceled, Done, Past
  <2>4. FrameInv' /\ NoForeignInterrupt' /\ AttemptedTruthful'
    BY <1>19
       DEF TypeOK, CloseDone, FrameInv, NoForeignInterrupt, AttemptedTruthful
  <2> QED BY <2>1, <2>2, <2>3, <2>4 DEF ExchangeInv
<1>20. CASE ExpireWrite
  <2>1. TypeOK'
    BY <1>20 DEF TypeOK, ExpireWrite, Deadlines, Past, Passed
  <2>2. CallbackInv'
    BY <1>20
       DEF TypeOK, ExpireWrite, CallbackInv, Over, Pending, Deferred, Canceled,
           Done
  <2>3. DeadlineInv'
    BY <1>20
       DEF TypeOK, ExpireWrite, CallbackInv, DeadlineInv, Over, Pending,
           Deferred, Canceled, Done, Past, Passed, MayPass
  <2>4. FrameInv' /\ NoForeignInterrupt' /\ AttemptedTruthful'
    BY <1>20
       DEF TypeOK, ExpireWrite, FrameInv, NoForeignInterrupt, AttemptedTruthful
  <2> QED BY <2>1, <2>2, <2>3, <2>4 DEF ExchangeInv
<1>21. CASE ExpireRead
  <2>1. TypeOK'
    BY <1>21 DEF TypeOK, ExpireRead, Deadlines, Past, Passed
  <2>2. CallbackInv'
    BY <1>21
       DEF TypeOK, ExpireRead, CallbackInv, Over, Pending, Deferred, Canceled,
           Done
  <2>3. DeadlineInv'
    BY <1>21
       DEF TypeOK, ExpireRead, CallbackInv, DeadlineInv, Over, Pending,
           Deferred, Canceled, Done, Past, Passed, MayPass
  <2>4. FrameInv' /\ NoForeignInterrupt' /\ AttemptedTruthful'
    BY <1>21
       DEF TypeOK, ExpireRead, FrameInv, NoForeignInterrupt, AttemptedTruthful
  <2> QED BY <2>1, <2>2, <2>3, <2>4 DEF ExchangeInv
<1>22. CASE UNCHANGED vars
  BY <1>22 DEF vars, ExchangeInv, TypeOK, CallbackInv, DeadlineInv, FrameInv,
     NoForeignInterrupt, AttemptedTruthful, Canceled, Done
<1> QED
  BY <1>1, <1>2, <1>3, <1>4, <1>5, <1>6, <1>7, <1>8, <1>9, <1>10, <1>11,
     <1>12, <1>13, <1>14, <1>15, <1>16, <1>17, <1>18, <1>19, <1>20, <1>21, <1>22
     DEF Next, Local, Peer, Clock, Callback

\* The invariant holds for any number of exchanges and any way in which a frame
\* is cut into writes.
THEOREM ExchangeInvariant == Spec => []ExchangeInv
  BY ExchangeInit, ExchangeInductive, PTL DEF Spec

\* The cancellation of one exchange never shows as a timeout of a later one on
\* the same connection (wire.go:154, 175-179).
THEOREM InterruptsAreOwn == Spec => []NoForeignInterrupt
<1>1. ExchangeInv => NoForeignInterrupt
  BY DEF ExchangeInv
<1> QED BY <1>1, ExchangeInvariant, PTL

\* The rechecks of ctx.Err() (wire.go:181, 198) close the window in which a
\* deadline set late would undo a cancellation.
THEOREM CancellationIsKept == Spec => []CancellationKept
<1>1. ExchangeInv => CancellationKept
  <2> SUFFICES ASSUME ExchangeInv
               PROVE  /\ pc = "write" => Interrupted(writeDeadline)
                      /\ pc = "read" => Interrupted(readDeadline)
    BY DEF CancellationKept
  <2>1. pc \in {"write", "read"} => callback[exchange] \in Pending
    BY DEF ExchangeInv, CallbackInv, Deferred
  <2> QED BY <2>1 DEF ExchangeInv, DeadlineInv, Interrupted, Pending
<1> QED BY <1>1, ExchangeInvariant, PTL

\* `attempted` is set whenever a byte may have left (wire.go:184).
THEOREM AttemptedIsTruthful == Spec => []AttemptedTruthful
<1>1. ExchangeInv => AttemptedTruthful
  BY DEF ExchangeInv
<1> QED BY <1>1, ExchangeInvariant, PTL

\* The fields keep their types.
THEOREM TypesKept == Spec => []TypeOK
<1>1. ExchangeInv => TypeOK
  BY DEF ExchangeInv
<1> QED BY <1>1, ExchangeInvariant, PTL

-----------------------------------------------------------------------------
(* The contract.                                                           *)

Running == pc \notin {"idle", "stop", "wait"}

\* A step that neither begins nor ends an exchange, and takes no bytes.
LEMMA Stutters ==
    ASSUME Running' <=> Running, frame' = 0 <=> frame = 0,
           UNCHANGED <<exchange, call, ctx, attempted, outcome>>
    PROVE  UNCHANGED Contract!vars
BY DEF Running, Contract!vars, Canceled, Done

\* A return statement, in any place.
LEMMA Returns ==
    ASSUME NEW r \in {"ok", "rejected", "ctx", "timeout", "input",
                      "connection"},
           Running, Return(r), UNCHANGED <<exchange, call, ctx, attempted>>,
           frame' = 0 <=> frame = 0,
           \/ r \in {"ok", "rejected"} /\ frame = 0
           \/ r = "ctx" /\ exchange > 0 /\ Canceled
           \/ r = "timeout" /\ attempted /\ ~Canceled
           \/ r = "input" /\ ~attempted
           \/ r = "connection"
    PROVE  Contract!Finish
<1>1. outcome' = r /\ pc' \in {"idle", "stop"}
  BY DEF Return
<1>2. (exchange > 0 /\ Canceled)' = (exchange > 0 /\ Canceled)
  BY DEF Canceled, Done
<1>3. Contract!Allowed(r)
  BY DEF Contract!Allowed
<1>4. Contract!Allowed(outcome')
  BY <1>1, <1>3
<1> QED BY <1>1, <1>2, <1>4 DEF Running, Contract!Finish

LEMMA MapsInit == Init => Contract!Init
BY ExchangeAssumption DEF Init, Contract!Init

\* Every step of the goroutine is one of the contract, or a stutter.
LEMMA MapsStep ==
    ASSUME ExchangeInv, [Next]_vars
    PROVE  [Contract!Next]_(Contract!vars)
<1>0. TypeOK /\ FrameInv /\ AttemptedTruthful
  BY DEF ExchangeInv
<1> USE DEF setup, sockets, local, Fail
<1>1. CASE Begin
  <2>1. /\ pc = "idle" /\ pc' = "start" /\ attempted' = FALSE
        /\ ~(frame' = 0) /\ outcome' = "none"
    BY <1>1, ExchangeAssumption DEF Begin
  <2>2. Contract!Begin
    BY <2>1 DEF Contract!Begin
  <2> QED BY <2>2 DEF Contract!Next
<1>2. CASE Start
  <2>0. exchange > 0 /\ Running /\ UNCHANGED <<exchange, call, ctx, attempted, frame>>
    BY <1>0, <1>2 DEF Start, TypeOK, Running
  <2>1. CASE pc' = "setWrite" /\ UNCHANGED outcome
    BY <2>0, <2>1, Stutters DEF Running
  <2>2. CASE Canceled /\ Return("ctx")
    BY <2>0, <2>2, Returns DEF Contract!Next
  <2>3. CASE \E r \in {"input", "connection"} : Return(r)
    <3>1. ~attempted
      BY <1>0, <1>2 DEF Start, FrameInv
    <3> QED BY <2>0, <2>3, <3>1, Returns DEF Contract!Next
  <2> QED BY <1>2, <2>1, <2>2, <2>3 DEF Start
<1>3. CASE SetWriteDeadline \/ AfterFunc \/ SetReadDeadline \/ TimedOut
           \/ PeerFails
  BY <1>3, Stutters
     DEF SetWriteDeadline, AfterFunc, SetReadDeadline, TimedOut, PeerFails,
         Running
<1>4. CASE WriteLoop
  <2>0. /\ exchange > 0 /\ Running /\ UNCHANGED <<exchange, call, ctx, frame>>
        /\ (exchange > 0 /\ Canceled)' = (exchange > 0 /\ Canceled)
    BY <1>0, <1>4 DEF WriteLoop, TypeOK, Running, Canceled, Done
  <2>1. CASE pc' = "setRead" /\ UNCHANGED <<attempted, outcome>>
    BY <2>0, <2>1, Stutters DEF Running
  <2>2. CASE Canceled /\ Return("ctx") /\ UNCHANGED attempted
    BY <2>0, <2>2, Returns DEF Contract!Next
  <2>3. CASE ~Canceled /\ attempted' = TRUE /\ pc' = "write" /\ UNCHANGED outcome
    <3>1. Contract!Attempt
      BY <2>0, <2>3 DEF Contract!Attempt, Running
    <3> QED BY <3>1 DEF Contract!Next
  <2> QED BY <1>4, <2>1, <2>2, <2>3 DEF WriteLoop
<1>5. ASSUME NEW n \in 0..Frame, Write(n)
      PROVE  [Contract!Next]_(Contract!vars)
  <2>0. /\ Running /\ attempted /\ UNCHANGED <<exchange, call, ctx, attempted>>
        /\ frame \in Nat /\ n \in Nat /\ n <= frame /\ frame' = frame - n
        /\ (exchange > 0 /\ Canceled)' = (exchange > 0 /\ Canceled)
    BY <1>0, <1>5, ExchangeAssumption
       DEF Write, TypeOK, FrameInv, Running, Canceled, Done
  <2>1. CASE n = 0
    <3>1. frame' = frame
      BY <2>0, <2>1
    <3>2. Return("connection")
      BY <1>5, <2>1 DEF Write
    <3> QED BY <2>0, <3>1, <3>2, Returns DEF Contract!Next
  <2>2. CASE n > 0
    <3>1. pc' = "loop" /\ UNCHANGED outcome
      BY <1>5, <2>2 DEF Write
    <3>2. CASE frame' # 0
      <4>1. frame # 0
        BY <2>0, <2>2
      <4> QED BY <2>0, <3>1, <3>2, <4>1, Stutters DEF Running
    <3>3. CASE frame' = 0
      <4>1. Contract!Deliver
        BY <2>0, <3>1, <3>3 DEF Contract!Deliver, Running
      <4> QED BY <4>1 DEF Contract!Next
    <3> QED BY <3>2, <3>3
  <2> QED BY <2>0, <2>1, <2>2
<1>6. CASE Recheck
  <2>0. exchange > 0 /\ Running /\ UNCHANGED <<exchange, call, ctx, attempted, frame>>
    BY <1>0, <1>6 DEF Recheck, TypeOK, Running
  <2>1. CASE Canceled /\ Return("ctx")
    BY <2>0, <2>1, Returns DEF Contract!Next
  <2>2. CASE pc' = "read" /\ UNCHANGED outcome
    BY <2>0, <2>2, Stutters DEF Running
  <2> QED BY <1>6, <2>1, <2>2 DEF Recheck
<1>7. CASE Reply
  <2>0. Running /\ frame = 0 /\ UNCHANGED <<exchange, call, ctx, attempted, frame>>
    BY <1>0, <1>7 DEF Reply, FrameInv, Running
  <2> QED BY <1>7, <2>0, Returns DEF Reply, Contract!Next
<1>8. CASE IoError
  <2>0. exchange > 0 /\ Running /\ UNCHANGED <<exchange, call, ctx, attempted, frame>>
    BY <1>0, <1>8 DEF IoError, TypeOK, Running
  <2>1. CASE Canceled
    <3>1. Return("ctx")
      BY <1>8, <2>1 DEF IoError
    <3> QED BY <2>0, <2>1, <3>1, Returns DEF Contract!Next
  <2>2. CASE ~Canceled
    <3>1. Return(failure) /\ failure \in {"timeout", "connection"}
          /\ (failure = "timeout" => attempted)
      BY <1>0, <1>8, <2>2 DEF IoError, TypeOK, FrameInv
    <3> QED BY <2>0, <2>2, <3>1, Returns DEF Contract!Next
  <2> QED BY <2>1, <2>2
<1>9. CASE Stop \/ Wait \/ ExpireWrite \/ ExpireRead
           \/ \E e \in Exchanges : Callback(e)
  BY <1>9, Stutters
     DEF Stop, Wait, ExpireWrite, ExpireRead, Callback, Fire, Interrupt,
         CloseDone, Running
<1>10. ASSUME NEW c \in Exchanges, Cancel(c) \/ DeadlinePasses(c)
       PROVE  [Contract!Next]_(Contract!vars)
  <2>0. UNCHANGED <<exchange, call, pc, attempted, frame, outcome>>
    BY <1>10 DEF Cancel, DeadlinePasses
  <2>1. exchange > 0 => call[exchange] \in Exchanges
    BY <1>0, ExchangeAssumption DEF TypeOK, Exchanges
  <2>2. \A d \in Exchanges : Done(d) => Done(d)'
    BY <1>0, <1>10 DEF Cancel, DeadlinePasses, Done, TypeOK
  <2>3. (exchange > 0 /\ Canceled) => (exchange > 0 /\ Canceled)'
    BY <2>0, <2>1, <2>2 DEF Canceled
  <2>4. CASE (exchange > 0 /\ Canceled)' = (exchange > 0 /\ Canceled)
    BY <2>0, <2>4 DEF Contract!vars
  <2>5. CASE (exchange > 0 /\ Canceled)' /\ ~(exchange > 0 /\ Canceled)
    BY <2>0, <2>5 DEF Contract!Next, Contract!Cancel
  <2> QED BY <2>3, <2>4, <2>5
<1>11. CASE UNCHANGED vars
  BY <1>11, Stutters DEF vars, Running
<1> QED
  BY <1>1, <1>2, <1>3, <1>4, <1>5, <1>6, <1>7, <1>8, <1>9, <1>10, <1>11
     DEF Next, Local, Peer, Clock

\* Callers need to know no more of an exchange than its contract.
THEOREM ExchangeImplementsContract == Spec => ImplementsContract
<1>1. ExchangeInv /\ [Next]_vars => [Contract!Next]_(Contract!vars)
  BY MapsStep
<1> QED BY <1>1, MapsInit, ExchangeInvariant, PTL
       DEF Spec, ImplementsContract, Contract!Spec
=============================================================================
