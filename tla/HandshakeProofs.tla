-------------------------- MODULE HandshakeProofs ---------------------------
(***************************************************************************)
(* What HandshakeInvariants states, for every choice of options, of the    *)
(* server and of the number of connections.                                *)
(***************************************************************************)
EXTENDS HandshakeInvariants, TLAPS

-----------------------------------------------------------------------------
(* normalize.                                                              *)

\* Rewriting the options yields options.
LEMMA NormalizedTyped ==
    ASSUME NEW o \in OptionsType
    PROVE  normalized(o) \in OptionsType
<1>1. Defaulted(o) \in OptionsType
  <2>1. maxFrame \in Int
    BY DEF maxFrame
  <2>2. \A n, d \in Int : OrDefault(n, d) \in Int
    BY DEF OrDefault
  <2>3. [t \in Timeouts |-> OrDefault(o.timeout[t], 5)] \in [Timeouts -> Int]
    BY <2>2 DEF OptionsType
  <2>4. /\ OrDefault(o.MaxFrameBytes, maxFrame) \in Int
        /\ OrDefault(o.MaxRedirects, 8) \in Int
    <3>1. o.MaxFrameBytes \in Int /\ o.MaxRedirects \in Int
      BY DEF OptionsType
    <3> QED BY <2>1, <3>1 DEF OrDefault
  <2> QED BY <2>3, <2>4 DEF Defaulted, OptionsType
<1>2. ASSUME NEW p \in OptionsType PROVE WithToken(p) \in OptionsType
  BY DEF WithToken, OptionsType, Text
<1> QED BY <1>1, <1>2 DEF normalized

\* What defaults and the token make of the single options.
LEMMA NormalizedFields ==
    ASSUME NEW o \in OptionsType
    PROVE  /\ normalized(o).timeout
                = [t \in Timeouts |-> OrDefault(o.timeout[t], 5)]
           /\ normalized(o).MaxFrameBytes
                = OrDefault(o.MaxFrameBytes, maxFrame)
           /\ normalized(o).MaxRedirects = OrDefault(o.MaxRedirects, 8)
           /\ normalized(o).Galaxy = o.Galaxy
           /\ normalized(o).SecretKey = o.SecretKey
           /\ normalized(o).AuthToken = o.AuthToken
           /\ o.Username.length = 0 /\ o.AuthToken.length > 0 =>
                 normalized(o).Username = [length |-> 5, legible |-> TRUE]
           /\ ~(o.Username.length = 0 /\ o.AuthToken.length > 0) =>
                 /\ normalized(o).Username = o.Username
                 /\ normalized(o).Password = o.Password
BY DEF normalized, Defaulted, WithToken, OptionsType

\* Accepted options are final: nothing in them is zero that must not be, and
\* normalize does not change them any more.
LEMMA AcceptedSettled ==
    ASSUME NEW peers, NEW o \in OptionsType, Accepted(peers, o)
    PROVE  LET n == normalized(o)
           IN  /\ \A t \in Timeouts : n.timeout[t] \in 1..Hour
               /\ n.MaxFrameBytes > 0 /\ n.MaxRedirects > 0
               /\ normalized(n) = n
               /\ Accepted(peers, n)
<1> DEFINE n == normalized(o)
<1>0. n \in OptionsType
  BY NormalizedTyped
<1>1. /\ \A t \in Timeouts : n.timeout[t] \in 0..Hour
      /\ n.MaxFrameBytes \in 1..maxFrame /\ n.MaxRedirects \in 0..32
  BY DEF Accepted
<1>2. \A t \in Timeouts : n.timeout[t] # 0
  <2>1. n.timeout = [t \in Timeouts |-> OrDefault(o.timeout[t], 5)]
    BY NormalizedFields
  <2> HIDE DEF n
  <2> QED BY <2>1 DEF OrDefault
<1>3. n.MaxRedirects # 0
  <2>1. n.MaxRedirects = OrDefault(o.MaxRedirects, 8)
    BY NormalizedFields
  <2> HIDE DEF n
  <2> QED BY <2>1 DEF OrDefault
<1>4. ~(n.Username.length = 0 /\ n.AuthToken.length > 0)
  <2>1. n.AuthToken = o.AuthToken
    BY NormalizedFields
  <2>2. CASE o.Username.length = 0 /\ o.AuthToken.length > 0
    <3>1. n.Username = [length |-> 5, legible |-> TRUE]
      BY <2>2, NormalizedFields
    <3> HIDE DEF n
    <3> QED BY <3>1
  <2>3. CASE ~(o.Username.length = 0 /\ o.AuthToken.length > 0)
    <3>1. n.Username = o.Username
      BY <2>3, NormalizedFields
    <3> HIDE DEF n
    <3> QED BY <2>1, <2>3, <3>1
  <2> QED BY <2>2, <2>3
<1>5. normalized(n) = n
  <2>1. Defaulted(n) = n
    <3>1. [t \in Timeouts |-> OrDefault(n.timeout[t], 5)] = n.timeout
      BY <1>0, <1>2 DEF OrDefault, OptionsType
    <3>2. OrDefault(n.MaxFrameBytes, maxFrame) = n.MaxFrameBytes
      BY <1>1 DEF OrDefault
    <3>3. OrDefault(n.MaxRedirects, 8) = n.MaxRedirects
      BY <1>3 DEF OrDefault
    <3> HIDE DEF n
    <3> QED BY <1>0, <3>1, <3>2, <3>3 DEF Defaulted, OptionsType
  <2>2. WithToken(n) = n
    BY <1>4 DEF WithToken
  <2> HIDE DEF n
  <2> QED BY <2>1, <2>2 DEF normalized
<1>6. Accepted(peers, n)
  <2> HIDE DEF n
  <2>1. n = normalized(o)
    BY DEF n
  <2> QED BY <1>5, <2>1 DEF Accepted
<1>7. n.MaxFrameBytes > 0 /\ n.MaxRedirects > 0
      /\ \A t \in Timeouts : n.timeout[t] \in 1..Hour
  <2> HIDE DEF n
  <2>1. Hour \in Nat
    BY DEF Hour
  <2> QED BY <1>1, <1>2, <1>3, <2>1
<1> QED BY <1>5, <1>6, <1>7

\* Whoever passes anything of a login to Dial has it log in.
LEMMA LoginKept ==
    ASSUME NEW peers, NEW o \in OptionsType, Accepted(peers, o)
    PROVE  /\ \/ o.Username.length > 0 \/ o.Password.length > 0
              \/ o.AuthToken.length > 0 \/ o.SecretKey > 0
              => normalized(o).Username.length > 0
           /\ normalized(o).Galaxy = o.Galaxy
           /\ normalized(o).SecretKey = o.SecretKey
<1>1. /\ o.Username.length \in Nat /\ o.Password.length \in Nat
      /\ o.AuthToken.length \in Nat /\ o.SecretKey \in Nat
  BY DEF OptionsType, Text
<1>2. normalized(o).Username.length = 0 =>
         normalized(o).Password.length = 0 /\ normalized(o).SecretKey = 0
  BY DEF Accepted
<1>3. /\ normalized(o).Galaxy = o.Galaxy
      /\ normalized(o).SecretKey = o.SecretKey
  BY NormalizedFields
<1>4. CASE o.Username.length = 0 /\ o.AuthToken.length > 0
  <2>1. normalized(o).Username = [length |-> 5, legible |-> TRUE]
    BY <1>4, NormalizedFields
  <2> QED BY <1>3, <2>1
<1>5. CASE ~(o.Username.length = 0 /\ o.AuthToken.length > 0)
  <2>1. /\ normalized(o).Username = o.Username
        /\ normalized(o).Password = o.Password
    BY <1>5, NormalizedFields
  <2> QED BY <1>1, <1>2, <1>3, <1>5, <2>1
<1> QED BY <1>4, <1>5

\* A field that normalize lets through is short.
LEMMA FieldShort ==
    ASSUME NEW f \in Text, FieldFits(f)
    PROVE  f.length \in Nat /\ f.length <= 1024
BY DEF FieldFits, Text

\* No request of a handshake is too long for exchange.
LEMMA HeaderFits ==
    ASSUME TypeOK, Settled
    PROVE  Length(step) \in Nat /\ Length(step) <= 8192
<1> DEFINE u == opts.Username.length
           p == opts.Password.length
           g == opts.Galaxy.length
<1>1. /\ FieldFits(opts.Username) /\ FieldFits(opts.Password)
      /\ FieldFits(opts.Galaxy)
  BY DEF Settled, Accepted
<1>2. /\ opts.Username \in Text /\ opts.Password \in Text
      /\ opts.Galaxy \in Text
  BY DEF TypeOK, OptionsType
<1>3. /\ u \in Nat /\ u <= 1024 /\ p \in Nat /\ p <= 1024
      /\ g \in Nat /\ g <= 1024
  BY <1>1, <1>2, FieldShort
<1>4. step \in Steps
  BY DEF TypeOK
<1>5. Length(step) = CASE step = "AUTH"     -> 5 + u + 1 + p
                     []   step = "AUTHCHAL" -> 9 + u
                     []   step = "AUTHRESP" ->
                             9 + 2 * (40 + 17 + u + 1 + p + 1 + 64)
                     []   step = "HELLO"    -> 6 + g
                     []   OTHER             -> 12
  BY DEF Length
<1> HIDE DEF u, p, g
<1> DEFINE L == Length(step)
<1>6. CASE step = "AUTH"
  <2>1. L = 5 + u + 1 + p
    BY <1>5, <1>6
  <2> QED BY <1>3, <2>1
<1>7. CASE step = "AUTHCHAL"
  <2>1. L = 9 + u
    BY <1>5, <1>7
  <2> QED BY <1>3, <2>1
<1>8. CASE step = "AUTHRESP"
  <2>1. L = 9 + 2 * (40 + 17 + u + 1 + p + 1 + 64)
    BY <1>5, <1>8
  <2> QED BY <1>3, <2>1
<1>9. CASE step = "HELLO"
  <2>1. L = 6 + g
    BY <1>5, <1>9
  <2> QED BY <1>3, <2>1
<1>10. CASE step \in {"WIREVER", "CODECMETA"}
  <2>1. L = 12
    BY <1>5, <1>10
  <2> QED BY <2>1
<1> QED BY <1>4, <1>6, <1>7, <1>8, <1>9, <1>10 DEF Steps

-----------------------------------------------------------------------------
(* The invariant.                                                          *)

LEMMA InitHolds == Init => HandshakeInv
<1> SUFFICES ASSUME Init PROVE HandshakeInv
  OBVIOUS
<1>1. TypeOK
  BY HandshakeAssumption
     DEF Init, TypeOK, Fresh, Steps, Errors
<1>2. Wired
  BY DEF Init, Wired, Open, Fresh
<1> QED BY <1>1, <1>2 DEF Init, HandshakeInv, Reports

\* The parts of the invariant.
LEMMA Parts ==
    ASSUME HandshakeInv
    PROVE  /\ TypeOK /\ Wired /\ Reports(err) /\ Reports(result)
           /\ pc = "Dial" => opts = given.options /\ dials = 0 /\ ~client
           /\ pc \in {"Dial", "dial", "send", "await"} => err = "none"
           /\ pc \notin {"ready", "failed"} => result = "none"
           /\ client => result # "input"
           /\ err # "input" /\ (result = "input" => dials = 0)
           /\ pc # "Dial" /\ result # "input" => Settled
           /\ pc \in {"send", "await"} => Reached(step)
           /\ reply # Nothing /\ reply.kind = "OK"
                 => Answered(step, reply.asked)
           /\ pc = "ready" => client /\ Reached("CODECMETA") /\ session.codec
           /\ result = "ctx" => ctx = "done"
BY DEF HandshakeInv

LEMMA DialStep == HandshakeInv /\ Dial => HandshakeInv'
<1> SUFFICES ASSUME HandshakeInv, Dial PROVE HandshakeInv'
  OBVIOUS
<1>0. /\ TypeOK /\ Wired /\ opts = given.options /\ dials = 0
      /\ err = "none" /\ result = "none"
  BY Parts DEF Dial
<1>1. given.options \in OptionsType
  BY <1>0, HandshakeAssumption DEF TypeOK
<1>2. \/ /\ Accepted(given.peers, given.options)
         /\ opts' = normalized(given.options) /\ pc' = "dial" /\ UNCHANGED result
      \/ pc' = "failed" /\ result' = "input" /\ UNCHANGED opts
  BY DEF Dial, normalize
<1>3. TypeOK'
  BY <1>0, <1>1, <1>2, NormalizedTyped
     DEF TypeOK, Dial, wires, clock, Errors
<1>4. Wired'
  BY <1>0, <1>2 DEF Wired, Open, Dial, wires
<1>5. pc' = "dial" => Settled'
  BY <1>2 DEF Settled, Dial
<1>6. ~client' /\ UNCHANGED <<dials, err, reply>> /\ reply = Nothing
  BY <1>0, Parts DEF Dial, wires, Wired
<1> QED BY <1>0, <1>2, <1>3, <1>4, <1>5, <1>6 DEF HandshakeInv, Reports

\* What Fails leaves behind suits every error that says the truth.
LEMMA FailsStep ==
    ASSUME HandshakeInv, pc \in {"send", "await"}, NEW e, Fails(e),
           e \in (Errors \ {"input"}) \cup {"dialctx"}, Reports(e),
           UNCHANGED <<call, clock, step, result, refused>>
    PROVE  HandshakeInv'
<1>0. TypeOK /\ Settled /\ result = "none"
  BY Parts
<1>1. TypeOK'
  BY <1>0 DEF TypeOK, Fails, CloseWire, call, clock, Fresh
<1>2. Wired'
  BY DEF Wired, Open, Fails, CloseWire, Fresh
<1>3. Settled' /\ Reports(e)' /\ result' = "none"
  BY <1>0 DEF Settled, Reports, call
<1> QED BY <1>1, <1>2, <1>3 DEF HandshakeInv, Reports, Fails, CloseWire

LEMMA ConnectStep == HandshakeInv /\ Connect => HandshakeInv'
<1> SUFFICES ASSUME HandshakeInv, Connect PROVE HandshakeInv'
  OBVIOUS
<1>0. /\ TypeOK /\ Wired /\ Settled /\ err = "none" /\ result = "none"
      /\ pc = "dial" /\ session = Fresh /\ ~key /\ dials \in Nat
      /\ request = Nothing /\ reply = Nothing
  BY Parts DEF Connect, Wired, Open, TypeOK
<1>1. FirstStep \in Steps
  BY DEF FirstStep, Steps
<1>2. TypeOK'
  BY <1>0, <1>1 DEF TypeOK, Connect, clock, wires, Errors
<1>3. Wired' /\ UNCHANGED <<err, session, reply, clock, client, opts, server>>
  BY <1>0 DEF Wired, Open, Connect, wires, Fresh
<1>4. Settled'
  BY <1>0 DEF Settled, Connect
<1>5. CASE pc' = "send"
  <2>1. step' = FirstStep /\ result' = "none"
    BY <1>0, <1>5 DEF Connect
  <2>2. Reached(step)'
    <3>1. /\ opts.Username.length \in Nat /\ opts.Galaxy.length \in Nat
          /\ opts.SecretKey \in Nat
          /\ opts.Username.length = 0 => opts.SecretKey = 0
      BY <1>0 DEF TypeOK, OptionsType, Text, Settled, Accepted
    <3>2. UNCHANGED <<opts, server>>
      BY <1>3
    <3> QED BY <2>1, <3>1, <3>2 DEF FirstStep, Reached, LoggedIn
  <2> QED BY <1>0, <1>2, <1>3, <1>4, <1>5, <2>1, <2>2
          DEF HandshakeInv, Reports
<1>6. CASE pc' = "failed"
  <2>1. /\ result' \in {"ctx", "timeout", "connection"}
        /\ result' = "ctx" => ctx = "done"
    BY <1>6 DEF Connect
  <2> QED BY <1>0, <1>2, <1>3, <1>4, <1>6, <2>1
          DEF HandshakeInv, Reports, clock
<1> QED BY <1>5, <1>6 DEF Connect

LEMMA SendStep == HandshakeInv /\ Send => HandshakeInv'
<1> SUFFICES ASSUME HandshakeInv, Send PROVE HandshakeInv'
  OBVIOUS
<1>0. /\ TypeOK /\ Wired /\ Settled /\ err = "none" /\ result = "none"
      /\ pc = "send" /\ Reached(step) /\ step \in Steps /\ key \in BOOLEAN
      /\ key = session.key /\ reply = Nothing
  BY Parts DEF Send, Wired, TypeOK
<1>1. UNCHANGED <<call, clock, step, result, refused>>
  BY DEF Send
<1>2. CASE DialDone /\ Fails("dialctx")
  BY <1>0, <1>1, <1>2, FailsStep DEF Reports
<1>3. CASE /\ request' = [kind |-> step, sealed |-> key]
           /\ pc' = "await"
           /\ UNCHANGED <<err, key, session, reply>>
  <2>1. TypeOK'
    BY <1>0, <1>1, <1>3 DEF TypeOK, call, clock
  <2>2. Wired'
    BY <1>0, <1>1, <1>3 DEF Wired, Open
  <2>3. Settled' /\ Reached(step)'
    BY <1>0, <1>1, <1>3 DEF Settled, Reached, LoggedIn, call
  <2> QED BY <1>0, <1>1, <1>3, <2>1, <2>2, <2>3
          DEF HandshakeInv, Reports, call
<1>4. ~(Length(step) > maxHeader)
  <2> DEFINE L == Length(step)
  <2>1. L \in Nat /\ L <= 8192
    BY <1>0, HeaderFits
  <2> HIDE DEF L
  <2>2. ~(L > maxHeader)
    BY <2>1 DEF maxHeader
  <2> QED BY <2>2 DEF L
<1> QED BY <1>2, <1>3, <1>4 DEF Send

LEMMA ExchangeFailsStep == HandshakeInv /\ ExchangeFails => HandshakeInv'
<1> SUFFICES ASSUME HandshakeInv, ExchangeFails PROVE HandshakeInv'
  OBVIOUS
<1>1. pc = "await" /\ UNCHANGED <<call, clock, step, result, refused>>
  BY DEF ExchangeFails
<1>2. ASSUME NEW e \in {"dialctx", "timeout", "connection"}, Fails(e)
      PROVE  HandshakeInv'
  BY <1>1, <1>2, FailsStep DEF Reports, Errors
<1> QED BY <1>2 DEF ExchangeFails

LEMMA ReceiveStep == HandshakeInv /\ Receive => HandshakeInv'
<1> SUFFICES ASSUME HandshakeInv, Receive PROVE HandshakeInv'
  OBVIOUS
<1>0. /\ TypeOK /\ Wired /\ Settled /\ err = "none" /\ result = "none"
      /\ pc = "await" /\ reply # Nothing /\ Reached(step)
      /\ step \in Steps /\ key \in BOOLEAN
      /\ UNCHANGED <<given, opts, dials, server, clock, refused>>
  BY Parts DEF Receive, TypeOK
<1>1. reply \in [kind : Replies, sealed : BOOLEAN, asked : BOOLEAN]
      /\ request = Nothing
  BY <1>0 DEF TypeOK, Wired
<1>2. CASE Verdict(reply) # "ok" /\ Fails(Verdict(reply))
           /\ UNCHANGED <<step, result, client>>
  <2>1. Verdict(reply) \in (Errors \ {"input"}) \cup {"dialctx"}
    BY <1>2 DEF Verdict, Errors
  <2>2. reply.kind = "ERR" => refused = step
    BY <1>0 DEF Wired
  <2>3. Reports(Verdict(reply))
    <3>1. CASE reply.kind = "ERR"
      <4>1. Verdict(reply) = "authentication" => step # "CODECMETA"
        BY <3>1 DEF Verdict
      <4>2. Verdict(reply) # "version"
        BY <3>1 DEF Verdict
      <4>3. refused \in Steps /\ refused # "none"
        BY <1>0, <2>2, <3>1 DEF Steps
      <4> QED BY <2>2, <3>1, <4>1, <4>2, <4>3 DEF Reports
    <3>2. CASE reply.kind # "ERR"
      <4>1. Verdict(reply) \notin {"authentication", "server"}
        BY <3>2 DEF Verdict
      <4>2. ASSUME Verdict(reply) = "version" PROVE server.version # 1
        <5>1. reply.kind = "OK" /\ step = "WIREVER" /\ ~reply.asked
          BY <4>2, <3>2 DEF Verdict
        <5>2. Answered(step, reply.asked)
          BY <1>0, <5>1, Parts
        <5> QED BY <5>1, <5>2 DEF Answered
      <4> QED BY <4>1, <4>2 DEF Reports
    <3> QED BY <3>1, <3>2
  <2>4. UNCHANGED <<call, clock, step, result, refused>>
    BY <1>0, <1>2 DEF call
  <2> QED BY <1>0, <1>2, <2>1, <2>3, <2>4, FailsStep
<1>3. CASE /\ Verdict(reply) = "ok"
           /\ reply' = Nothing
           /\ key' = (key \/ Derives(step))
           /\ UNCHANGED <<err, session, request>>
           /\ \/ /\ step # "CODECMETA"
                 /\ pc' = "send" /\ step' = NextStep(step)
                 /\ UNCHANGED <<result, client>>
              \/ /\ step = "CODECMETA"
                 /\ pc' = "ready" /\ result' = "ok" /\ client' = TRUE
                 /\ UNCHANGED step
  <2>1. /\ reply.kind = "OK" /\ reply.sealed = key
        /\ step \in {"WIREVER", "CODECMETA"} => reply.asked
    BY <1>1, <1>3 DEF Verdict, Replies
  <2>2. Answered(step, reply.asked) /\ session.key = (key \/ step = "AUTHRESP")
    BY <1>0, <2>1, Parts DEF Wired
  <2>3. key' = session'.key
    BY <1>3, <2>2 DEF Derives
  <2>4. step' \in Steps /\ key' \in BOOLEAN
    BY <1>0, <1>3 DEF NextStep, Steps
  <2>5. TypeOK'
    <3>1. /\ pc' \in {"send", "ready"} /\ client' \in BOOLEAN
          /\ result' \in {result, "ok"}
      BY <1>0, <1>3 DEF TypeOK
    <3>2. UNCHANGED <<given, opts, dials, server, ctx, timer, refused, err,
                      session>>
          /\ reply' = Nothing /\ request' = Nothing
      BY <1>0, <1>1, <1>3 DEF clock
    <3> QED BY <1>0, <2>4, <3>1, <3>2 DEF TypeOK
  <2>6. Wired'
    BY <1>1, <1>3, <2>3 DEF Wired, Open
  <2>7. Settled'
    BY <1>0 DEF Settled
  <2>8. CASE step # "CODECMETA"
    <3>1. pc' = "send" /\ step' = NextStep(step) /\ UNCHANGED <<result, client>>
      BY <1>3, <2>8
    <3>2. opts.Galaxy.length \in Nat /\ opts.SecretKey \in Nat
      BY <1>0 DEF TypeOK, OptionsType, Text
    <3>3. Reached(NextStep(step))
      BY <1>0, <2>1, <2>2, <2>8, <3>2
         DEF Reached, LoggedIn, Answered, NextStep, Steps
    <3>4. Reached(step)'
      BY <1>0, <1>3, <3>1, <3>3 DEF Reached, LoggedIn
    <3> QED BY <1>0, <1>3, <2>5, <2>6, <2>7, <3>1, <3>4, Parts
            DEF HandshakeInv, Reports
  <2>9. CASE step = "CODECMETA"
    <3>1. pc' = "ready" /\ result' = "ok"
      BY <1>3, <2>9
    <3>2. session.codec /\ Reached("CODECMETA")
      BY <1>0, <2>1, <2>2, <2>9 DEF Answered
    <3>3. Reached("CODECMETA")' /\ session'.codec
      BY <1>0, <1>3, <3>2 DEF Reached, LoggedIn
    <3> QED BY <1>0, <1>3, <2>5, <2>6, <2>7, <3>1, <3>3
            DEF HandshakeInv, Reports
  <2> QED BY <2>8, <2>9
<1> QED BY <1>2, <1>3 DEF Receive

LEMMA EnsureFailsStep == HandshakeInv /\ EnsureFails => HandshakeInv'
<1> SUFFICES ASSUME HandshakeInv, EnsureFails PROVE HandshakeInv'
  OBVIOUS
<1>0. /\ TypeOK /\ Wired /\ Settled /\ Reports(err) /\ err # "input"
      /\ pc = "error" /\ pc' = "failed" /\ result' = Mapped
      /\ UNCHANGED <<call, clock, step, err, wires, refused>>
  BY Parts DEF EnsureFails
<1>1. /\ Mapped = "ctx" => ctx = "done"
      /\ Mapped \in {"ctx", "timeout", err} /\ Mapped # "dialctx"
  BY <1>0 DEF Mapped, Reports, TypeOK, Errors
<1>2. TypeOK'
  BY <1>0, <1>1 DEF TypeOK, call, clock, wires, Errors
<1>3. Wired' /\ Settled'
  BY <1>0 DEF Wired, Open, wires, Settled, call
<1>4. Reports(result)' /\ Reports(err)'
  BY <1>0, <1>1 DEF Reports, call
<1>5. UNCHANGED reply /\ reply = Nothing /\ result' # "input"
  BY <1>0, <1>1 DEF Wired, wires
<1> QED BY <1>0, <1>1, <1>2, <1>3, <1>4, <1>5 DEF HandshakeInv, clock

LEMMA RedialStep == HandshakeInv /\ Redial => HandshakeInv'
<1> SUFFICES ASSUME HandshakeInv, Redial PROVE HandshakeInv'
  OBVIOUS
<1>0. /\ TypeOK /\ Settled /\ UNCHANGED <<call, step, refused>>
      /\ pc' = "dial" /\ ctx' = "live" /\ timer' = "ahead"
      /\ err' = "none" /\ result' = "none" /\ CloseWire
  BY Parts DEF Redial
<1>1. TypeOK'
  BY <1>0 DEF TypeOK, call, CloseWire, Fresh
<1>2. Wired' /\ Settled'
  BY <1>0 DEF Wired, Open, CloseWire, Settled, call, Fresh
<1> QED BY <1>0, <1>1, <1>2 DEF HandshakeInv, Reports, CloseWire

\* The server does not take anything back while a connection lives.
LEMMA ServeStep == HandshakeInv /\ Serve => HandshakeInv'
<1> SUFFICES ASSUME HandshakeInv, Serve PROVE HandshakeInv'
  OBVIOUS
<1>0. /\ TypeOK /\ Wired /\ Settled /\ err = "none" /\ result = "none"
      /\ pc = "await" /\ Reached(step) /\ step \in Steps /\ reply = Nothing
      /\ request.kind = step /\ key = session.key /\ request' = Nothing
      /\ UNCHANGED <<call, clock, pc, step, err, result, key>>
      /\ session \in [user : BOOLEAN, challenge : BOOLEAN, key : BOOLEAN,
                      galaxy : BOOLEAN, codec : BOOLEAN]
  BY Parts DEF Serve, Wired, TypeOK
<1>1. CASE /\ reply' = Answer(step) /\ UNCHANGED refused
           /\ session' =
                [user      |-> session.user \/ step \in {"AUTH", "AUTHRESP"},
                 challenge |-> session.challenge \/ step = "AUTHCHAL",
                 key       |-> session.key \/ step = "AUTHRESP",
                 galaxy    |-> session.galaxy \/ step = "HELLO",
                 codec     |-> session.codec
                               \/ (step = "CODECMETA" /\ Answer(step).asked)]
  <2>1. /\ reply'.kind = "OK" /\ reply'.sealed = key
        /\ reply' \in [kind : Replies, sealed : BOOLEAN, asked : BOOLEAN]
        /\ step = "WIREVER" => (reply'.asked <=> server.version = 1)
    BY <1>0, <1>1 DEF Answer, Replies, Steps
  <2>2. TypeOK'
    BY <1>0, <1>1, <2>1 DEF TypeOK, call, clock
  <2>3. Wired'
    BY <1>0, <1>1, <2>1 DEF Wired, Open
  <2>4. Settled' /\ Reached(step)'
    <3>1. UNCHANGED <<given, opts, server, step>>
      BY <1>0 DEF call
    <3>2. /\ session.user => session'.user
          /\ session.key => session'.key
          /\ session.galaxy => session'.galaxy
      BY <1>1
    <3>3. LoggedIn => LoggedIn'
      <4>1. opts' = opts /\ server' = server
        BY <3>1
      <4>2. LoggedIn => (opts.Username.length > 0 => session'.user)
        BY <1>0, <1>1 DEF LoggedIn
      <4>3. LoggedIn => (opts.SecretKey > 0 => session'.key)
        BY <1>0, <1>1 DEF LoggedIn
      <4> QED BY <4>1, <4>2, <4>3 DEF LoggedIn
    <3>4. Reached(step)'
      BY <1>0, <3>1, <3>2, <3>3 DEF Reached
    <3> QED BY <1>0, <3>1, <3>4 DEF Settled
  <2>5. Answered(step, reply.asked)'
    BY <1>0, <1>1, <2>1 DEF Answered, call
  <2> QED BY <1>0, <2>2, <2>3, <2>4, <2>5 DEF HandshakeInv, Reports, call, clock
<1>2. CASE /\ reply' = [kind |-> "ERR", sealed |-> session.key,
                        asked |-> FALSE]
           /\ refused' = step /\ UNCHANGED session
  <2>1. TypeOK'
    BY <1>0, <1>2 DEF TypeOK, call, clock, Replies
  <2>2. Wired'
    BY <1>0, <1>2 DEF Wired, Open
  <2>3. Settled' /\ Reached(step)'
    BY <1>0, <1>2 DEF Settled, Reached, LoggedIn, call
  <2> QED BY <1>0, <1>2, <2>1, <2>2, <2>3
          DEF HandshakeInv, Reports, call, clock
<1> QED BY <1>0, <1>1, <1>2 DEF Serve

LEMMA MisbehaveStep == HandshakeInv /\ Misbehave => HandshakeInv'
<1> SUFFICES ASSUME HandshakeInv, Misbehave PROVE HandshakeInv'
  OBVIOUS
<1>0. /\ TypeOK /\ Wired /\ Settled /\ err = "none" /\ result = "none"
      /\ pc = "await" /\ Reached(step) /\ step \in Steps /\ reply = Nothing
      /\ request.kind = step /\ request' = Nothing
      /\ UNCHANGED <<call, clock, pc, step, err, result, key, session>>
  BY Parts DEF Misbehave, Wired, TypeOK
<1>1. /\ reply' \in [kind : Replies, sealed : BOOLEAN, asked : BOOLEAN]
      /\ reply'.kind # "OK"
      /\ reply'.kind = "ERR" => refused' = step
      /\ refused' \in {refused, step}
  <2>1. CASE reply' \in [kind : {"malformed"}, sealed : BOOLEAN,
                         asked : {FALSE}] /\ UNCHANGED refused
    BY <2>1 DEF Replies
  <2>2. CASE /\ reply' = [kind |-> "ERR", sealed |-> FALSE, asked |-> FALSE]
             /\ refused' = request.kind
    BY <1>0, <2>2 DEF Replies
  <2> QED BY <2>1, <2>2 DEF Misbehave
<1>2. TypeOK'
  BY <1>0, <1>1 DEF TypeOK, call, clock
<1>3. Wired'
  BY <1>0, <1>1 DEF Wired, Open
<1>4. Settled' /\ Reached(step)'
  BY <1>0 DEF Settled, Reached, LoggedIn, call
<1> QED BY <1>0, <1>1, <1>2, <1>3, <1>4
        DEF HandshakeInv, Reports, call, clock

\* The end of a context changes nothing but the clock.
LEMMA ClockStep == HandshakeInv /\ (Cancel \/ ConnectTimeout) => HandshakeInv'
<1> SUFFICES ASSUME HandshakeInv, Cancel \/ ConnectTimeout PROVE HandshakeInv'
  OBVIOUS
<1>1. /\ UNCHANGED <<call, pc, step, err, result, wires, refused>>
      /\ ctx' \in {ctx, "done"} /\ timer' \in {timer, "passed"}
      /\ ctx = "done" => ctx' = "done"
  BY DEF Cancel, ConnectTimeout
<1>2. TypeOK'
  BY <1>1, Parts DEF TypeOK, call, wires
<1>3. (Wired => Wired') /\ (Settled => Settled')
      /\ (Reached(step) => Reached(step)')
      /\ (Reached("CODECMETA") => Reached("CODECMETA")')
      /\ (Answered(step, reply.asked) => Answered(step, reply.asked)')
  BY <1>1 DEF Wired, Open, Settled, Reached, LoggedIn, Answered, call, wires
<1> QED BY <1>1, <1>2, <1>3, Parts DEF HandshakeInv, Reports, call, wires

LEMMA NextHolds == HandshakeInv /\ [Next]_vars => HandshakeInv'
<1> SUFFICES ASSUME HandshakeInv, [Next]_vars PROVE HandshakeInv'
  OBVIOUS
<1>1. CASE UNCHANGED vars
  BY <1>1 DEF vars, call, clock, wires, HandshakeInv, TypeOK, Wired, Open,
              Settled, Reached, LoggedIn, Answered, Reports
<1> QED BY <1>1, DialStep, ConnectStep, SendStep, ExchangeFailsStep,
           ReceiveStep, EnsureFailsStep, RedialStep, ServeStep, MisbehaveStep,
           ClockStep DEF Next, Driver

-----------------------------------------------------------------------------

\* The driver and the server stay in step throughout a handshake.
THEOREM HandshakeInvariant == Spec => []HandshakeInv
BY InitHolds, NextHolds, PTL DEF Spec

\* Neither side ever seals, or opens, what the other does not.
THEOREM KeysAgree == Spec => []KeysMatch
<1>1. HandshakeInv => KeysMatch
  <2> SUFFICES ASSUME Wired PROVE KeysMatch
    BY Parts
  <2> QED BY DEF Wired, Open, KeysMatch, Nothing
<1> QED BY <1>1, HandshakeInvariant, PTL

\* The client's options are final once normalize has returned them.
LEMMA SettledOptions == HandshakeInv => OptionsSettled
<1> SUFFICES ASSUME HandshakeInv, pc # "Dial", result # "input"
             PROVE  OptionsSettled
  BY DEF OptionsSettled
<1>1. Settled /\ given.options \in OptionsType
  BY Parts, HandshakeAssumption DEF TypeOK
<1>2. /\ \A t \in Timeouts : opts.timeout[t] \in 1..Hour
      /\ opts.MaxFrameBytes > 0 /\ opts.MaxRedirects > 0
      /\ normalized(opts) = opts
      /\ Accepted(given.peers, opts)
  BY <1>1, AcceptedSettled DEF Settled
<1>3. normalize(given.peers, opts) = [valid |-> TRUE, options |-> opts]
  <2>1. Accepted(given.peers, opts) = TRUE
    BY <1>2 DEF Accepted
  <2> QED BY <1>2, <2>1 DEF normalize
<1> QED BY <1>2, <1>3 DEF OptionsSettled

\* A connection that is handed out is the one that the options ask for.
THEOREM ConnectionAgreed == Spec => []ReadyMeansAgreed
<1>1. HandshakeInv => ReadyMeansAgreed
  <2> SUFFICES ASSUME HandshakeInv, pc = "ready"
               PROVE  ReadyMeansAgreed
    BY DEF ReadyMeansAgreed
  <2>1. /\ Reached("CODECMETA") /\ session.codec /\ Settled /\ TypeOK
        /\ (result = "input" => dials = 0)
    BY Parts
  <2>2. given.options \in OptionsType
    BY <2>1, HandshakeAssumption DEF TypeOK
  <2>3. /\ \/ given.options.Username.length > 0
           \/ given.options.Password.length > 0
           \/ given.options.AuthToken.length > 0
           \/ given.options.SecretKey > 0
           => opts.Username.length > 0
        /\ opts.Galaxy = given.options.Galaxy
        /\ opts.SecretKey = given.options.SecretKey
    BY <2>1, <2>2, LoginKept DEF Settled
  <2> QED BY <2>1, <2>3, SettledOptions DEF ReadyMeansAgreed, Reached, LoggedIn
<1> QED BY <1>1, HandshakeInvariant, PTL

\* Errors say what has happened.
THEOREM ErrorsAreTruthful == Spec => []ErrorsTruthful
<1>1. HandshakeInv => ErrorsTruthful
  BY Parts DEF ErrorsTruthful, Reports
<1> QED BY <1>1, HandshakeInvariant, PTL

\* Whatever normalize lets through, exchange does.
THEOREM InputErrorsComeFirst == Spec => []InputErrorsFirst
<1>1. HandshakeInv => InputErrorsFirst
  BY Parts DEF InputErrorsFirst
<1> QED BY <1>1, HandshakeInvariant, PTL

\* The client's options are final and without a zero limit.
THEOREM OptionsAreSettled == Spec => []OptionsSettled
BY SettledOptions, HandshakeInvariant, PTL
=============================================================================
