--------------------------- MODULE AdapterProofs ----------------------------
(***************************************************************************)
(* What AdapterInvariants states, for inputs of any length.                *)
(***************************************************************************)
EXTENDS AdapterInvariants, TLAPS

\* kind names an error by what it is; only the alias of closed is shared.
LEMMA NameOfKind ==
    ASSUME NEW e \in ErrorType
    PROVE  /\ NameOf(e) \in Names \ {"ok"}
           /\ e.kind = "indeterminate"
                 => NameOf(e) = "IndeterminateWriteException"
           /\ e.kind # "indeterminate" /\ e.cause = "none" =>
                 /\ NameOf(e) # "IndeterminateWriteException"
                 /\ e.kind \in {"connection", "closed"}
                       => NameOf(e) = "ConnectionException"
                 /\ e.kind = "timeout"
                       => NameOf(e) = "ConnectionTimeoutException"
                 /\ e.kind \notin {"input", "ctx"}
                       => NameOf(e) # "InvalidInputException"
BY DEF NameOf, Is, IsKind, ErrorType, Kinds, Names

\* Errors without a cause.
LEMMA ErrorTyped ==
    ASSUME NEW k \in Kinds
    PROVE  /\ Error(k) \in ErrorType /\ Error(k) # NoError
           /\ Error(k).kind = k /\ Error(k).cause = "none"
BY DEF Error, NoError, ErrorType, Kinds

LEMMA NoErrorKind == NoError.kind = "none" /\ NoError.cause = "none"
BY DEF NoError, Error

\* What a step of a client does to the call c, and what it leaves alone.
LEMMA StartEffect ==
    ASSUME NEW k, NEW c, NEW m, Client(k)!Start(c, m)
    PROVE  /\ phase[c] = "new"
           /\ method' = [method EXCEPT ![c] = m]
           /\ phase' = [phase EXCEPT ![c] = "running"]
           /\ UNCHANGED <<outcome, stored>>
BY DEF Client!Start

LEMMA RejectEffect ==
    ASSUME NEW k, NEW c, NEW m, Client(k)!Reject(c, m)
    PROVE  /\ phase[c] = "new" /\ m \in {"put", "get"}
           /\ method' = [method EXCEPT ![c] = m]
           /\ phase' = [phase EXCEPT ![c] = "returned"]
           /\ outcome' = [outcome EXCEPT ![c] = "input"]
           /\ UNCHANGED stored
BY DEF Client!Reject

LEMMA SealEffect ==
    ASSUME NEW k, NEW c, Client(k)!Seal(c)
    PROVE  /\ phase[c] = "running" /\ method[c] = "close"
           /\ phase' = [phase EXCEPT ![c] = "returned"]
           /\ outcome' = [outcome EXCEPT ![c] = "ok"]
           /\ UNCHANGED <<method, stored>>
BY DEF Client!Seal

LEMMA FinishEffect ==
    ASSUME NEW k, NEW c, NEW r, Client(k)!Finish(c, r)
    PROVE  /\ phase[c] = "running"
           /\ method[c] = "put" =>
                 /\ r = "ok" => stored[c] = 1
                 /\ r \notin {"ok", "indeterminate"} => stored[c] = 0
           /\ method[c] # "put" => r # "indeterminate"
           /\ phase' = [phase EXCEPT ![c] = "returned"]
           /\ outcome' = [outcome EXCEPT ![c] = r]
           /\ UNCHANGED <<method, stored>>
BY DEF Client!Finish

LEMMA StoreEffect ==
    ASSUME NEW k, NEW c, Client(k)!Store(c)
    PROVE  /\ method[c] = "put" /\ stored[c] = 0
           /\ \/ phase[c] = "running"
              \/ phase[c] = "returned" /\ outcome[c] = "indeterminate"
           /\ stored' = [stored EXCEPT ![c] = 1]
           /\ UNCHANGED <<method, phase, outcome>>
BY DEF Client!Store

LEMMA InitHolds == Init => AdapterInv
<1> SUFFICES ASSUME Init PROVE AdapterInv
  OBVIOUS
<1>1. TypeOK
  BY AdapterAssumption DEF Init, TypeOK, Calls, Lines, nil, Names, Kinds, Methods
<1>2. LineInv
  BY DEF Init, LineInv, Calls, Lines, nil, This, Requests
<1>3. CallInv
  BY DEF Init, CallInv
<1> QED BY <1>1, <1>2, <1>3
        DEF Init, AdapterInv, ConnectedLine, PutAnswersTruthful, AnswersNamed, ClientsClosed

-----------------------------------------------------------------------------
(* Steps that leave the calls and the clients alone.                       *)

LEMMA QuietStep ==
    ASSUME AdapterInv,
           Scan \/ EndOfInput \/ Exit \/ AnswerAtOnce
    PROVE  AdapterInv'
<1>0. TypeOK /\ LineInv /\ CallInv /\ PutAnswersTruthful /\ AnswersNamed
      /\ ClientsClosed
  BY DEF AdapterInv
<1>1. UNCHANGED <<answers, method, phase, outcome, stored, sealed, client>>
  BY DEF Scan, EndOfInput, Exit, AnswerAtOnce, calls
<1>2. CallInv' /\ PutAnswersTruthful' /\ AnswersNamed'
  BY <1>0, <1>1 DEF CallInv, PutAnswersTruthful, AnswersNamed
<1>3. CASE Scan
  <2>1. TypeOK'
    BY <1>0, <1>1, <1>3, AdapterAssumption DEF Scan, TypeOK
  <2>2. LineInv'
    BY <1>0, <1>1, <1>3, AdapterAssumption
       DEF Scan, TypeOK, LineInv, Lines, Calls, nil, This, Requests, Methods
  <2>3. ClientsClosed' /\ pc' # "answer"
    BY <1>0, <1>1, <1>3 DEF Scan, ClientsClosed
  <2>4. line' \in Calls /\ phase[line'] = "new"
    BY <1>0, <1>3, AdapterAssumption DEF Scan, TypeOK, LineInv, Lines, Calls
  <2>5. ConnectedLine'
    BY <1>0, <1>1, <2>4 DEF ConnectedLine, CallInv
  <2> QED BY <1>2, <2>1, <2>2, <2>3, <2>5 DEF AdapterInv
<1>4. CASE EndOfInput
  <2>1. TypeOK'
    BY <1>0, <1>1, <1>4 DEF EndOfInput, TypeOK
  <2>2. LineInv'
    BY <1>0, <1>1, <1>4
       DEF EndOfInput, TypeOK, LineInv, Lines, Calls, nil, This, Requests, Methods
  <2>3. ClientsClosed' /\ pc' # "answer"
    BY <1>0, <1>1, <1>4 DEF EndOfInput, ClientsClosed, LineInv
  <2>4. ConnectedLine'
    BY <1>4 DEF EndOfInput, ConnectedLine
  <2> QED BY <1>2, <2>1, <2>2, <2>3, <2>4 DEF AdapterInv
<1>5. CASE Exit
  <2>1. TypeOK'
    BY <1>0, <1>1, <1>5 DEF Exit, TypeOK
  <2>2. LineInv'
    BY <1>0, <1>1, <1>5 DEF Exit, LineInv, This
  <2>3. ClientsClosed' /\ pc' # "answer"
    BY <1>0, <1>1, <1>5 DEF Exit, ClientsClosed, LineInv
  <2>4. ConnectedLine'
    BY <1>5 DEF Exit, ConnectedLine
  <2> QED BY <1>2, <2>1, <2>2, <2>3, <2>4 DEF AdapterInv
<1>6. CASE AnswerAtOnce
  <2>0. /\ pc = "run" /\ pc' = "answer" /\ UNCHANGED <<line, request>>
        /\ request # "connect" /\ request # "end"
        /\ err' \in {NoError, Error("input"), Error("closed")}
    BY <1>0, <1>6 DEF AnswerAtOnce, Answer, LineInv
  <2>1. TypeOK'
    BY <1>0, <1>1, <2>0, ErrorTyped DEF TypeOK, Kinds
  <2>2. LineInv'
    BY <1>0, <1>1, <2>0 DEF LineInv, This
  <2>3. line > 0 /\ line \in Calls /\ phase[line] = "new"
    BY <1>0, <2>0, AdapterAssumption DEF LineInv, This, TypeOK, Calls, Lines
  <2>4. method[line] = "none" /\ outcome[line] = "none"
    BY <1>0, <2>3 DEF CallInv
  <2>5. Fits(err', method[line], outcome[line])
    BY <2>0, <2>4, ErrorTyped, NoErrorKind DEF Fits, Kinds
  <2>6. Fits(err, method[line], outcome[line])'
    BY <1>1, <2>0, <2>5 DEF Fits
  <2>7. ClientsClosed' /\ ConnectedLine'
    BY <1>0, <1>1, <2>0 DEF ClientsClosed, ConnectedLine
  <2> QED BY <1>1, <1>2, <2>0, <2>1, <2>2, <2>3, <2>6, <2>7 DEF AdapterInv, Lines
<1> QED BY <1>3, <1>4, <1>5, <1>6

LEMMA EncodeStep == AdapterInv /\ Encode => AdapterInv'
<1> SUFFICES ASSUME AdapterInv, Encode PROVE AdapterInv'
  OBVIOUS
<1>0. /\ TypeOK /\ LineInv /\ CallInv /\ PutAnswersTruthful /\ AnswersNamed
      /\ ClientsClosed /\ line > 0 /\ Fits(err, method[line], outcome[line])
  BY DEF AdapterInv, Encode
<1>1. /\ pc' = "scan" /\ line \in Lines /\ line \in Calls
      /\ UNCHANGED <<line, request, client, err, method, phase, outcome,
                     stored, sealed>>
  BY <1>0, AdapterAssumption DEF Encode, calls, TypeOK, Lines, Calls
<1>2. PICK a \in Names : /\ answers' = [answers EXCEPT ![line] = a]
                         /\ a = IF err = NoError THEN "ok" ELSE NameOf(err)
  <2>1. err # NoError => NameOf(err) \in Names
    BY <1>0, NameOfKind DEF TypeOK
  <2> QED BY <2>1 DEF Encode, Names
<1>3. answers'[line] = a /\ \A l \in Lines \ {line} : answers'[l] = answers[l]
  BY <1>0, <1>1, <1>2 DEF TypeOK
<1>4. TypeOK'
  BY <1>0, <1>1, <1>2 DEF TypeOK
<1>5. LineInv'
  BY <1>0, <1>1, <1>3, AdapterAssumption DEF LineInv, This, Lines, Encode, TypeOK
<1>6. CallInv' /\ ClientsClosed'
  BY <1>0, <1>1 DEF CallInv, ClientsClosed
<1>7. /\ request # "end" /\ phase[line] \in {"new", "returned"}
      /\ err.kind = "none" => err = NoError
  <2>1. request # "end"
    BY <1>0 DEF LineInv, Encode
  <2>2. phase[line] # "running"
    BY <1>0, <1>1 DEF LineInv, Encode
  <2>3. err.kind = "none" => err = NoError
    BY <1>0 DEF TypeOK, ErrorType, Kinds
  <2> QED BY <1>0, <1>1, <2>1, <2>2, <2>3 DEF TypeOK
<1>8. /\ method[line] = "put" /\ a = "ok" => stored[line] = 1
      /\ a \notin {"ok", "IndeterminateWriteException"} => stored[line] = 0
  <2>1. CASE err = NoError
    <3>1. a = "ok"
      BY <1>2, <2>1
    <3>2. method[line] = "put" => outcome[line] = "ok"
      BY <1>0, <2>1 DEF Fits
    <3>3. method[line] = "put" => phase[line] = "returned"
      BY <1>0, <1>1, <1>7 DEF CallInv
    <3> QED BY <1>0, <1>1, <3>1, <3>2, <3>3 DEF CallInv
  <2>2. CASE err # NoError
    <3>1. err \in ErrorType /\ a = NameOf(err) /\ a # "ok"
      BY <1>0, <1>2, <2>2, NameOfKind DEF TypeOK
    <3>2. a # "IndeterminateWriteException" => outcome[line] # "indeterminate"
      BY <1>0, <3>1, NameOfKind DEF Fits
    <3>3. method[line] = "put" => outcome[line] # "ok"
      BY <1>0, <2>2 DEF Fits
    <3>4. method[line] = "put" => phase[line] = "returned"
      BY <1>0, <1>1, <1>7 DEF CallInv
    <3> QED BY <1>0, <1>1, <3>1, <3>2, <3>3, <3>4 DEF CallInv
  <2> QED BY <2>1, <2>2
<1>9. PutAnswersTruthful'
  BY <1>0, <1>1, <1>3, <1>8 DEF PutAnswersTruthful
<1>10. /\ outcome[line] = "indeterminate" <=> a = "IndeterminateWriteException"
       /\ outcome[line] \in {"connection", "closed"} => a = "ConnectionException"
       /\ outcome[line] = "timeout" => a = "ConnectionTimeoutException"
       /\ a = "InvalidInputException" /\ method[line] # "close"
             => outcome[line] \in {"none", "input"}
  <2>1. CASE err = NoError
    BY <1>0, <1>2, <2>1 DEF Fits
  <2>2. CASE err # NoError
    <3>1. err \in ErrorType /\ a = NameOf(err)
      BY <1>0, <1>2, <2>2 DEF TypeOK
    <3>2. outcome[line] = "indeterminate" <=> a = "IndeterminateWriteException"
      BY <1>0, <3>1, NameOfKind DEF Fits
    <3>3. outcome[line] \in {"connection", "timeout"} =>
             err = Error(outcome[line])
      BY <1>0 DEF Fits
    <3>4. outcome[line] \in {"connection", "timeout"} =>
             err.kind = outcome[line] /\ err.cause = "none"
      BY <3>3, ErrorTyped DEF Kinds
    <3>5. outcome[line] = "closed" => err.kind = "closed" /\ err.cause = "none"
      BY <1>0 DEF Fits
    <3>6. outcome[line] \in {"connection", "closed"} => a = "ConnectionException"
      BY <3>1, <3>4, <3>5, NameOfKind
    <3>7. outcome[line] = "timeout" => a = "ConnectionTimeoutException"
      BY <3>1, <3>4, NameOfKind
    <3>8. a = "InvalidInputException" => err.kind \in {"input", "ctx"}
      <4>1. err.kind # "indeterminate" => err.cause = "none"
        BY <1>0 DEF Fits
      <4> QED BY <3>1, <4>1, NameOfKind
    <3>9. err.kind # "ctx"
      BY <1>0 DEF Fits
    <3> QED BY <1>0, <3>2, <3>6, <3>7, <3>8, <3>9 DEF Fits
  <2> QED BY <2>1, <2>2
<1>11. AnswersNamed'
  BY <1>0, <1>1, <1>3, <1>10 DEF AnswersNamed
<1> QED BY <1>1, <1>4, <1>5, <1>6, <1>9, <1>11 DEF AdapterInv, ConnectedLine

LEMMA ConnectStep == AdapterInv /\ Connect => AdapterInv'
<1> SUFFICES ASSUME AdapterInv, Connect PROVE AdapterInv'
  OBVIOUS
<1>0. /\ TypeOK /\ LineInv /\ CallInv /\ PutAnswersTruthful /\ AnswersNamed
      /\ ClientsClosed /\ client = nil /\ pc = "run" /\ request = "connect"
  BY DEF AdapterInv, Connect
<1>1. /\ pc' = "answer" /\ client' \in {nil, line}
      /\ UNCHANGED <<line, request, answers, method, phase, outcome, stored>>
      /\ \/ err' = NoError
         \/ err' \in {Error(k) : k \in Kinds \ {"closed", "indeterminate"}}
  BY <1>0 DEF Connect, calls, Answer
<1>2. line \in Lines /\ line \in Calls /\ line # nil
  BY <1>0, AdapterAssumption DEF LineInv, TypeOK, Lines, Calls, nil
<1>3. /\ sealed' \in [Calls -> BOOLEAN]
      /\ \A k \in Calls : k # line => sealed'[k] = sealed[k]
      /\ \A k \in Calls : ~sealed'[k] => k = client'
  <2>1. \A k \in Calls : sealed[k]
    BY <1>0 DEF ClientsClosed, LineInv
  <2>2. CASE client' = line /\ sealed' = [sealed EXCEPT ![line] = FALSE]
    BY <1>0, <1>2, <2>1, <2>2 DEF TypeOK
  <2>3. CASE UNCHANGED <<client, sealed>>
    BY <1>0, <2>1, <2>3 DEF TypeOK
  <2> QED BY <2>2, <2>3 DEF Connect
<1>4. TypeOK'
  <2>1. err' \in ErrorType \cup {NoError}
    BY <1>1, ErrorTyped
  <2> QED BY <1>0, <1>1, <1>2, <1>3, <2>1 DEF TypeOK, Calls, nil
<1>5. LineInv'
  <2>1. sealed'[nil]
    BY <1>0, <1>2, <1>3 DEF LineInv, Calls, nil
  <2>2. \A l \in Lines : l > line => sealed'[l]
    BY <1>0, <1>2, <1>3 DEF LineInv, Calls, Lines
  <2>3. client' <= line /\ client' \in Nat
    BY <1>1, <1>2 DEF nil, Lines
  <2> QED BY <1>0, <1>1, <1>2, <2>1, <2>2, <2>3 DEF LineInv, This
<1>6. CallInv' /\ ClientsClosed' /\ PutAnswersTruthful' /\ AnswersNamed'
  BY <1>0, <1>1, <1>3
     DEF CallInv, ClientsClosed, PutAnswersTruthful, AnswersNamed
<1>7. /\ outcome[line] \in {"none", "ok"}
      /\ method[line] # "close" => method[line] = "none" /\ outcome[line] = "none"
  BY <1>0, <1>2 DEF ConnectedLine, AdapterInv
<1>8. Fits(err', method[line], outcome[line])
  <2>1. CASE err' = NoError
    BY <1>7, <2>1, NoErrorKind DEF Fits
  <2>2. CASE err' # NoError
    <3>1. PICK k \in Kinds \ {"closed", "indeterminate"} : err' = Error(k)
      BY <1>1, <2>2
    <3>2. /\ k \in Kinds /\ k \notin {"closed", "indeterminate"}
          /\ err'.kind = k /\ err'.cause = "none" /\ k # "ctx"
      BY <3>1, ErrorTyped DEF Kinds
    <3> QED BY <1>7, <2>2, <3>2 DEF Fits
  <2> QED BY <2>1, <2>2
<1>9. Fits(err, method[line], outcome[line])'
  BY <1>1, <1>8 DEF Fits
<1>10. ConnectedLine' /\ line' > 0
  BY <1>1, <1>2 DEF ConnectedLine, Lines
<1> QED BY <1>4, <1>5, <1>6, <1>9, <1>10 DEF AdapterInv

-----------------------------------------------------------------------------
(* The calls.                                                              *)

LEMMA BeginCloseStep == AdapterInv /\ BeginClose => AdapterInv'
<1> SUFFICES ASSUME AdapterInv, BeginClose PROVE AdapterInv'
  OBVIOUS
<1>0. /\ TypeOK /\ LineInv /\ CallInv /\ PutAnswersTruthful /\ AnswersNamed
      /\ ClientsClosed /\ ConnectedLine
      /\ client # nil /\ pc = "run" /\ pc' = "closing"
      /\ request \in {"connect", "close", "end"}
      /\ UNCHANGED <<line, request, client, err, answers, sealed>>
  BY DEF AdapterInv, BeginClose
<1>1. /\ phase[This] = "new"
      /\ method' = [method EXCEPT ![This] = "close"]
      /\ phase' = [phase EXCEPT ![This] = "running"]
      /\ UNCHANGED <<outcome, stored>>
  BY StartEffect DEF BeginClose
<1>2. This \in Calls /\ This' = This /\ (request # "end" => This = line)
      /\ (request = "end" => This = 0) /\ This <= line
  BY <1>0, AdapterAssumption DEF This, TypeOK, Calls, Lines
<1>3. /\ method'[This] = "close" /\ phase'[This] = "running"
      /\ \A c \in Calls \ {This} : method'[c] = method[c] /\ phase'[c] = phase[c]
      /\ outcome[This] = "none"
  BY <1>0, <1>1, <1>2 DEF TypeOK, CallInv
<1>4. TypeOK'
  BY <1>0, <1>1, <1>2 DEF TypeOK
<1>5. LineInv'
  <2>1. \A c \in Calls : phase'[c] = "running" => c = This
    BY <1>0, <1>3 DEF LineInv
  <2>2. \A l \in Lines : l > line => l # This /\ l \in Calls
    BY <1>0, <1>2, AdapterAssumption DEF Lines, Calls, TypeOK
  <2>3. request # "end" => 0 # This /\ 0 \in Calls
    BY <1>0, <1>2, AdapterAssumption DEF LineInv, TypeOK, Calls
  <2> QED BY <1>0, <1>2, <1>3, <2>1, <2>2, <2>3 DEF LineInv
<1>6. CallInv'
  BY <1>0, <1>1, <1>3 DEF CallInv
<1>7. PutAnswersTruthful' /\ AnswersNamed'
  BY <1>0, <1>1, <1>2, <1>3
     DEF PutAnswersTruthful, AnswersNamed, Lines, Calls
<1>8. ClientsClosed'
  BY <1>0 DEF ClientsClosed
<1>9. ConnectedLine'
  BY <1>0, <1>1, <1>2, <1>3 DEF ConnectedLine
<1> QED BY <1>0, <1>4, <1>5, <1>6, <1>7, <1>8, <1>9 DEF AdapterInv

LEMMA EndCloseStep == AdapterInv /\ EndClose => AdapterInv'
<1> SUFFICES ASSUME AdapterInv, EndClose PROVE AdapterInv'
  OBVIOUS
<1>0. /\ TypeOK /\ LineInv /\ CallInv /\ PutAnswersTruthful /\ AnswersNamed
      /\ ClientsClosed /\ ConnectedLine
      /\ client # nil /\ pc = "closing"
      /\ request \in {"connect", "close", "end"}
      /\ UNCHANGED <<line, request, answers>>
  BY DEF AdapterInv, EndClose, LineInv
<1>1. /\ phase[This] = "running" /\ method[This] = "close"
      /\ phase' = [phase EXCEPT ![This] = "returned"]
      /\ outcome' = [outcome EXCEPT ![This] = "ok"]
      /\ sealed' = [sealed EXCEPT ![client] = TRUE]
      /\ UNCHANGED <<method, stored>>
  BY SealEffect DEF EndClose
<1>2. /\ This \in Calls /\ This' = This /\ (request # "end" => This = line)
      /\ (request = "end" => This = 0) /\ This <= line
      /\ (request # "end" => line > 0 /\ line \in Lines)
  BY <1>0, AdapterAssumption DEF This, TypeOK, Calls, Lines, LineInv
<1>3. /\ phase'[This] = "returned" /\ outcome'[This] = "ok"
      /\ \A c \in Calls \ {This} : outcome'[c] = outcome[c] /\ phase'[c] = phase[c]
      /\ \A k \in Calls : sealed'[k]
      /\ sealed' \in [Calls -> BOOLEAN]
  BY <1>0, <1>1, <1>2 DEF TypeOK, ClientsClosed
<1>4. \/ request = "connect" /\ client' = nil /\ pc' = "run" /\ err' = err
      \/ request = "close" /\ pc' = "answer" /\ err' = NoError /\ client' = client
      \/ request = "end" /\ pc' = "exit" /\ client' = client /\ err' = err
  BY DEF EndClose, Answer
<1>5. TypeOK'
  BY <1>0, <1>1, <1>2, <1>3, <1>4 DEF TypeOK, Calls, nil
<1>6. LineInv'
  <2>1. \A c \in Calls : phase'[c] # "running"
    BY <1>0, <1>3 DEF LineInv
  <2>2. \A l \in Lines : l > line => l # This /\ l \in Calls
    BY <1>0, <1>2, AdapterAssumption DEF Lines, Calls, TypeOK
  <2>3. request # "end" => 0 # This /\ 0 \in Calls
    BY <1>0, <1>2, AdapterAssumption DEF LineInv, TypeOK, Calls
  <2>4. client' <= line
    BY <1>0, <1>4, AdapterAssumption DEF LineInv, TypeOK, nil
  <2>5. nil \in Calls
    BY DEF Calls, nil
  <2>6. pc' # "wait" /\ pc' # "closing"
    BY <1>4
  <2> QED BY <1>0, <1>2, <1>3, <1>4, <2>1, <2>2, <2>3, <2>4, <2>5, <2>6 DEF LineInv
<1>7. CallInv'
  BY <1>0, <1>1, <1>3 DEF CallInv
<1>8. \A l \in Lines : answers[l] # "none" => l # This
  BY <1>0, <1>2 DEF LineInv, Lines
<1>9. PutAnswersTruthful' /\ AnswersNamed'
  <2>1. PutAnswersTruthful'
    BY <1>0, <1>1 DEF PutAnswersTruthful
  <2>2. AnswersNamed'
    BY <1>0, <1>1, <1>3, <1>8 DEF AnswersNamed, Lines, Calls
  <2> QED BY <2>1, <2>2
<1>10. ClientsClosed'
  BY <1>3 DEF ClientsClosed
<1>11. ConnectedLine'
  <2>1. request # "end" =>
           method'[line'] = "close" /\ outcome'[line'] = "ok"
    BY <1>0, <1>1, <1>2, <1>3
  <2> QED BY <1>0, <2>1 DEF ConnectedLine
<1>12. pc' = "answer" => line' > 0 /\ Fits(err, method[line], outcome[line])'
  <2>1. SUFFICES ASSUME pc' = "answer" PROVE line' > 0 /\ Fits(err, method[line], outcome[line])'
    OBVIOUS
  <2>2. err' = NoError /\ This = line /\ line > 0
    BY <1>2, <1>4, <2>1
  <2>3. method'[line'] = "close" /\ outcome'[line'] = "ok"
    BY <1>0, <1>1, <1>3, <2>2
  <2> QED BY <1>0, <2>2, <2>3, NoErrorKind DEF Fits
<1> QED BY <1>5, <1>6, <1>7, <1>9, <1>10, <1>11, <1>12 DEF AdapterInv

\* The error of a call fits the outcome that it was made of.
LEMMA ErrorsOfFit ==
    ASSUME NEW m \in Methods,
           NEW r \in (Kinds \ {"input"}) \cup {"ok", "absent"},
           r = "absent" => m = "get",
           NEW e \in ErrorsOf(m, r)
    PROVE  Fits(e, m, r) /\ e \in ErrorType \cup {NoError}
<1>1. CASE r = "ok"
  <2>1. e = NoError \/ (m = "get" /\ e = Error("protocol"))
    BY <1>1 DEF ErrorsOf
  <2>2. CASE e = NoError
    BY <1>1, <2>2, NoErrorKind DEF Fits
  <2>3. CASE m = "get" /\ e = Error("protocol")
    <3>1. /\ e.kind = "protocol" /\ e.cause = "none" /\ e # NoError
          /\ e \in ErrorType
      BY <2>3, ErrorTyped DEF Kinds
    <3> QED BY <1>1, <2>3, <3>1 DEF Fits
  <2> QED BY <2>1, <2>2, <2>3
<1>2. CASE r = "absent"
  <2>1. e = NoError
    BY <1>2 DEF ErrorsOf
  <2> QED BY <1>2, <2>1, NoErrorKind DEF Fits
<1>3. CASE r = "indeterminate"
  <2>1. e \in [kind : {"indeterminate"}, cause : {"connection", "timeout", "protocol"}]
    BY <1>3 DEF ErrorsOf
  <2>2. e \in ErrorType /\ e.kind = "indeterminate" /\ e # NoError
    BY <2>1, NoErrorKind DEF ErrorType, Kinds
  <2> QED BY <1>3, <2>2 DEF Fits
<1>4. CASE r \in Kinds \ {"input", "indeterminate"}
  <2>1. e = Error(r)
    BY <1>4 DEF ErrorsOf, Kinds
  <2>2. /\ e.kind = r /\ e.cause = "none" /\ e # NoError
        /\ e \in ErrorType
    BY <1>4, <2>1, ErrorTyped
  <2>3. r \notin {"ok", "absent", "none", "ctx", "input", "indeterminate"}
    BY <1>4 DEF Kinds
  <2> QED BY <2>1, <2>2, <2>3 DEF Fits
<1> QED BY <1>1, <1>2, <1>3, <1>4

\* A call of the line in work gets or loses an outcome.
LEMMA InvokeStep == AdapterInv /\ Invoke => AdapterInv'
<1> SUFFICES ASSUME AdapterInv, Invoke PROVE AdapterInv'
  OBVIOUS
<1>0. /\ TypeOK /\ LineInv /\ CallInv /\ PutAnswersTruthful /\ AnswersNamed
      /\ ClientsClosed /\ client # nil /\ pc = "run" /\ request \in Methods
      /\ UNCHANGED <<line, request, client, answers, sealed>>
  BY DEF AdapterInv, Invoke
<1>1. /\ phase[line] = "new"
      /\ method' = [method EXCEPT ![line] = request]
      /\ UNCHANGED stored
      /\ \/ /\ pc' = "wait" /\ err' = err /\ outcome' = outcome
            /\ phase' = [phase EXCEPT ![line] = "running"]
         \/ /\ pc' = "answer" /\ err' = Error("input")
            /\ phase' = [phase EXCEPT ![line] = "returned"]
            /\ outcome' = [outcome EXCEPT ![line] = "input"]
  BY StartEffect, RejectEffect DEF Invoke, Answer
<1>2. /\ line \in Calls /\ line \in Lines /\ line > 0 /\ line # 0
      /\ This = line /\ This' = line /\ request # "end" /\ request # "connect"
      /\ answers[line] = "none"
  BY <1>0, AdapterAssumption DEF This, TypeOK, Calls, Lines, LineInv, Methods
<1>3. /\ method'[line] = request /\ phase'[line] \in {"running", "returned"}
      /\ pc' = "wait" <=> phase'[line] = "running"
      /\ outcome[line] = "none" /\ method[line] = "none" /\ stored[line] = 0
      /\ outcome'[line] = IF pc' = "wait" THEN "none" ELSE "input"
      /\ \A c \in Calls \ {line} : /\ method'[c] = method[c] /\ phase'[c] = phase[c]
                                   /\ outcome'[c] = outcome[c]
  BY <1>0, <1>1, <1>2 DEF TypeOK, CallInv
<1>4. TypeOK'
  <2>1. err' \in ErrorType \cup {NoError}
    BY <1>0, <1>1, ErrorTyped DEF TypeOK, Kinds
  <2> QED BY <1>0, <1>1, <1>2, <2>1 DEF TypeOK, Kinds
<1>5. LineInv'
  <2>1. \A c \in Calls : phase'[c] = "running" => c = line /\ pc' = "wait"
    BY <1>0, <1>3 DEF LineInv
  <2>2. \A l \in Lines : l > line => l # line /\ l \in Calls
    BY <1>0, AdapterAssumption DEF Lines, Calls, TypeOK
  <2>3. 0 \in Calls
    BY DEF Calls
  <2>4. pc' \in {"wait", "answer"}
    BY <1>1
  <2> QED BY <1>0, <1>2, <1>3, <2>1, <2>2, <2>3, <2>4 DEF LineInv
<1>6. CallInv'
  BY <1>0, <1>1, <1>2, <1>3 DEF CallInv
<1>7. PutAnswersTruthful' /\ AnswersNamed'
  BY <1>0, <1>1, <1>2, <1>3 DEF PutAnswersTruthful, AnswersNamed, Lines, Calls
<1>8. ClientsClosed' /\ ConnectedLine'
  BY <1>0, <1>1, <1>2 DEF ClientsClosed, ConnectedLine
<1>9. pc' = "answer" => line' > 0 /\ Fits(err, method[line], outcome[line])'
  <2>1. SUFFICES ASSUME pc' = "answer" PROVE line' > 0 /\ Fits(err, method[line], outcome[line])'
    OBVIOUS
  <2>2. err' = Error("input") /\ outcome'[line'] = "input"
    BY <1>0, <1>1, <1>3, <2>1
  <2>3. err'.kind = "input" /\ err'.cause = "none" /\ err' # NoError
    BY <2>2, ErrorTyped DEF Kinds
  <2> QED BY <1>0, <1>2, <2>2, <2>3 DEF Fits
<1> QED BY <1>4, <1>5, <1>6, <1>7, <1>8, <1>9 DEF AdapterInv

LEMMA ReturnStep == AdapterInv /\ Return => AdapterInv'
<1> SUFFICES ASSUME AdapterInv, Return PROVE AdapterInv'
  OBVIOUS
<1>0. /\ TypeOK /\ LineInv /\ CallInv /\ PutAnswersTruthful /\ AnswersNamed
      /\ ClientsClosed /\ client # nil /\ pc = "wait" /\ request \in Methods
      /\ UNCHANGED <<line, request, client, answers, sealed>>
  BY DEF AdapterInv, Return, LineInv
<1>1. /\ line \in Calls /\ line \in Lines /\ line > 0 /\ line # 0
      /\ This = line /\ This' = line /\ request # "end" /\ request # "connect"
      /\ answers[line] = "none" /\ method[line] = request
  BY <1>0, AdapterAssumption DEF This, TypeOK, Calls, Lines, LineInv, Methods
<1>2. PICK r \in (Kinds \ {"input"}) \cup {"ok", "absent"} :
         /\ r = "absent" => request = "get"
         /\ Client(client)!Finish(line, r)
         /\ \E e \in ErrorsOf(request, r) : Answer(e)
  BY DEF Return
<1>3. /\ method[line] = "put" =>
            /\ r = "ok" => stored[line] = 1
            /\ r \notin {"ok", "indeterminate"} => stored[line] = 0
      /\ phase' = [phase EXCEPT ![line] = "returned"]
      /\ outcome' = [outcome EXCEPT ![line] = r]
      /\ UNCHANGED <<method, stored>>
  BY <1>2, FinishEffect
<1>4. /\ phase'[line] = "returned" /\ outcome'[line] = r
      /\ \A c \in Calls \ {line} : phase'[c] = phase[c] /\ outcome'[c] = outcome[c]
      /\ pc' = "answer" /\ err' \in ErrorsOf(request, r)
  BY <1>0, <1>1, <1>2, <1>3 DEF TypeOK, Answer
<1>5. /\ Fits(err, method[line], outcome[line])'
      /\ err' \in ErrorType \cup {NoError}
  <2>1. Fits(err', request, r) /\ err' \in ErrorType \cup {NoError}
    BY <1>0, <1>2, <1>4, ErrorsOfFit
  <2>2. method'[line'] = request /\ outcome'[line'] = r
    BY <1>0, <1>1, <1>3, <1>4
  <2> QED BY <2>1, <2>2
<1>6. TypeOK'
  BY <1>0, <1>1, <1>2, <1>3, <1>4, <1>5 DEF TypeOK, Kinds
<1>7. LineInv'
  <2>1. \A c \in Calls : phase'[c] # "running"
    BY <1>0, <1>1, <1>4 DEF LineInv
  <2>2. \A l \in Lines : l > line => l # line /\ l \in Calls
    BY <1>0, AdapterAssumption DEF Lines, Calls, TypeOK
  <2>3. 0 \in Calls
    BY DEF Calls
  <2> QED BY <1>0, <1>1, <1>4, <2>1, <2>2, <2>3 DEF LineInv
<1>8. CallInv'
  <2>1. method[line] = "put" => r \notin {"none", "absent"}
    BY <1>1, <1>2 DEF Kinds
  <2> QED BY <1>0, <1>1, <1>3, <1>4, <2>1 DEF CallInv
<1>9. PutAnswersTruthful' /\ AnswersNamed'
  <2>1. PutAnswersTruthful'
    BY <1>0, <1>3 DEF PutAnswersTruthful
  <2>2. AnswersNamed'
    BY <1>0, <1>1, <1>3, <1>4 DEF AnswersNamed, Lines, Calls
  <2> QED BY <2>1, <2>2
<1>10. ClientsClosed' /\ ConnectedLine'
  BY <1>0, <1>1, <1>4 DEF ClientsClosed, ConnectedLine
<1> QED BY <1>0, <1>1, <1>5, <1>6, <1>7, <1>8, <1>9, <1>10 DEF AdapterInv

\* The server stores a record: only of a put that runs, or of one that was
\* answered for by IndeterminateWriteException.
LEMMA StoreStep == AdapterInv /\ Store => AdapterInv'
<1> SUFFICES ASSUME AdapterInv, Store PROVE AdapterInv'
  OBVIOUS
<1>0. /\ TypeOK /\ LineInv /\ CallInv /\ PutAnswersTruthful /\ AnswersNamed
      /\ ClientsClosed /\ ConnectedLine
      /\ UNCHANGED <<line, request, pc, client, err, answers, sealed>>
  BY DEF AdapterInv, Store, adapter
<1>1. PICK c \in Calls : Client(client)!Store(c)
  BY DEF Store
<1>2. /\ method[c] = "put" /\ stored[c] = 0
      /\ \/ phase[c] = "running"
         \/ phase[c] = "returned" /\ outcome[c] = "indeterminate"
      /\ stored' = [stored EXCEPT ![c] = 1]
      /\ UNCHANGED <<method, phase, outcome>>
  BY <1>1, StoreEffect
<1>3. stored'[c] = 1 /\ \A d \in Calls \ {c} : stored'[d] = stored[d]
  BY <1>0, <1>2 DEF TypeOK
<1>4. TypeOK'
  BY <1>0, <1>2 DEF TypeOK
<1>5. LineInv' /\ AnswersNamed' /\ ClientsClosed' /\ ConnectedLine'
  <2>1. LineInv'
    BY <1>0, <1>2 DEF LineInv, This
  <2>2. AnswersNamed' /\ ClientsClosed' /\ ConnectedLine'
    BY <1>0, <1>2 DEF AnswersNamed, ClientsClosed, ConnectedLine
  <2> QED BY <2>1, <2>2
<1>6. CallInv'
  BY <1>0, <1>2, <1>3 DEF CallInv
<1>7. c \in Lines => answers[c] \in {"none", "IndeterminateWriteException"}
  <2>1. CASE phase[c] = "running"
    <3>1. c = This /\ pc \in {"closing", "wait"}
      BY <1>0, <2>1 DEF LineInv
    <3>2. c \in Lines => c = line /\ request # "end"
      BY <1>0, <3>1, AdapterAssumption DEF This, LineInv, Lines
    <3> QED BY <1>0, <3>1, <3>2 DEF LineInv
  <2>2. CASE outcome[c] = "indeterminate"
    BY <1>0, <2>2 DEF AnswersNamed
  <2> QED BY <1>2, <2>1, <2>2
<1>8. PutAnswersTruthful'
  <2>1. ASSUME NEW l \in Lines
        PROVE  /\ method'[l] = "put" /\ answers'[l] = "ok" => stored'[l] = 1
               /\ answers'[l] \notin {"none", "ok", "IndeterminateWriteException"}
                      => stored'[l] = 0
    <3>1. CASE l = c
      BY <1>0, <1>3, <1>7, <3>1
    <3>2. CASE l # c
      BY <1>0, <1>2, <1>3, <3>2 DEF PutAnswersTruthful, Lines, Calls
    <3> QED BY <3>1, <3>2
  <2> QED BY <2>1 DEF PutAnswersTruthful
<1>9. pc' = "answer" => line' > 0 /\ Fits(err, method[line], outcome[line])'
  BY <1>0, <1>2 DEF AdapterInv
<1> QED BY <1>4, <1>5, <1>6, <1>8, <1>9 DEF AdapterInv

-----------------------------------------------------------------------------
LEMMA NextHolds == AdapterInv /\ [Next]_vars => AdapterInv'
<1> SUFFICES ASSUME AdapterInv, [Next]_vars PROVE AdapterInv'
  OBVIOUS
<1>1. CASE Next
  BY <1>1, QuietStep, EncodeStep, ConnectStep, BeginCloseStep, EndCloseStep,
     InvokeStep, ReturnStep, StoreStep DEF Next
<1>2. CASE UNCHANGED vars
  <2>1. UNCHANGED <<line, request, pc, client, err, answers, method, phase,
                    outcome, stored, sealed>>
    BY <1>2 DEF vars, adapter
  <2> QED BY <2>1 DEF AdapterInv, TypeOK, LineInv, CallInv, ConnectedLine, Fits,
                      PutAnswersTruthful, AnswersNamed, ClientsClosed, This
<1> QED BY <1>1, <1>2

\* The invariant by which the adapter keeps what it answers true of the calls
\* that it has made (main.go:54-171).
THEOREM AdapterInvariant == Spec => []AdapterInv
BY InitHolds, NextHolds, PTL DEF Spec

\* A put that is answered ok is stored, and one that is answered by an error
\* is not, unless the answer says that nobody knows (main.go:34-52).
THEOREM PutAnswersAreTruthful == Spec => []PutAnswersTruthful
<1>1. AdapterInv => PutAnswersTruthful
  BY DEF AdapterInv
<1> QED BY <1>1, AdapterInvariant, PTL

\* The name in an answer is that of the error itself and not of its cause
\* (main.go:34-52, errors.go:18-21).
THEOREM AnswersAreNamed == Spec => []AnswersNamed
<1>1. AdapterInv => AnswersNamed
  BY DEF AdapterInv
<1> QED BY <1>1, AdapterInvariant, PTL

\* Whatever the input, no client is left open but the one at hand, and none
\* after the input has ended (main.go:57-60, 140-144).
THEOREM ClientsAreClosed == Spec => []ClientsClosed
<1>1. AdapterInv => ClientsClosed
  BY DEF AdapterInv
<1> QED BY <1>1, AdapterInvariant, PTL
=============================================================================
