-------------------------- MODULE KoutenHandshake ---------------------------
(***************************************************************************)
(* Dial, ensure and handshake (client.go:25-40, 83-131, wire.go:210-273):  *)
(* from the caller's options to a connection on which the server has       *)
(* authenticated the user, chosen the galaxy, and agreed on the wire       *)
(* version and on codec metadata; with the options of one client, one      *)
(* connection after the other.  An exchange is taken as KoutenExchange     *)
(* shows it: it answers or fails, and reports a done context as such.      *)
(*                                                                         *)
(* The server is external.  It follows the protocol that the driver        *)
(* relies on, and may at any time be silent, hang up, or say something     *)
(* else.                                                                   *)
(***************************************************************************)
EXTENDS KoutenOptions

CONSTANTS
    MaxDials,  \* bound: connections tried by one client
    Given,     \* the peers and options that callers pass to Dial
    Servers    \* the configurations of the server

\* Whether it wants a login, knows the client's credentials and its galaxy,
\* which wire version it speaks, what it says to CODECMETA ON.
ServerType ==
    [login : BOOLEAN, credentials : BOOLEAN, galaxy : BOOLEAN, version : Nat,
     codec : {"codec-metadata", "other", "ERR"}]

ASSUME HandshakeAssumption ==
    /\ MaxDials \in Nat
    /\ Given \subseteq [peers : Peers, options : OptionsType]
    /\ Servers \subseteq ServerType

VARIABLES
    given,    \* the arguments of Dial
    opts,     \* Client.opts
    ctx,      \* "done" once the context of the call is
    timer,    \* "passed" once ConnectTimeout has: dialctx is done as well
    pc,       \* "Dial", "dial", "send", "await", "error", "ready", "failed"
    step,     \* the request to send or to have answered
    key,      \* wire.key is set
    err,      \* handshake's error
    result,   \* ensure's error, or "ok"
    dials,    \* connections tried
    client,   \* Dial has returned a client
    server, session,  \* the server, and what it holds of the connection
    refused,  \* history: the request of this connection that it refused
    request, reply    \* on the wire

call  == <<given, opts, dials, client, server>>
clock == <<ctx, timer>>
wires == <<key, session, request, reply>>
vars  == <<call, clock, pc, step, err, result, wires, refused>>

Steps == {"AUTH", "AUTHCHAL", "AUTHRESP", "HELLO", "WIREVER", "CODECMETA"}

Replies == {"OK", "ERR", "malformed"}

Nothing == [kind |-> "none", sealed |-> FALSE]
Fresh   == [user |-> FALSE, challenge |-> FALSE, key |-> FALSE,
            galaxy |-> FALSE, codec |-> FALSE]

\* The length of a request's header; AUTHRESP is in hexadecimal, with a nonce,
\* an authenticator, a label of 17 bytes and a challenge of 64.
Length(s) ==
    LET u == opts.Username.length
        p == opts.Password.length
    IN  CASE s = "AUTH"     -> 5 + u + 1 + p
        []   s = "AUTHCHAL" -> 9 + u
        []   s = "AUTHRESP" -> 9 + 2 * (40 + 17 + u + 1 + p + 1 + 64)
        []   s = "HELLO"    -> 6 + opts.Galaxy.length
        []   OTHER          -> 12

Init ==
    /\ given \in Given /\ server \in Servers
    /\ opts = given.options
    /\ ctx = "live" /\ timer = "ahead" /\ pc = "Dial" /\ step = "WIREVER"
    /\ key = FALSE /\ err = "none" /\ result = "none"
    /\ dials = 0 /\ client = FALSE
    /\ session = Fresh /\ refused = "none"
    /\ request = Nothing /\ reply = Nothing

-----------------------------------------------------------------------------
(* The driver.                                                             *)

\* MUTANT of DialDone: handshake is given the context of the caller.
DialDoneOfCaller == ctx = "done"

DialDone == ctx = "done" \/ timer = "passed"    \* dialctx.Err() # nil

\* w.close()
CloseWire ==
    /\ key' = FALSE /\ session' = Fresh
    /\ request' = Nothing /\ reply' = Nothing

\* The first request of a connection.
FirstStep ==
    IF opts.Username.length > 0
    THEN IF opts.SecretKey = 0 THEN "AUTH" ELSE "AUTHCHAL"
    ELSE IF opts.Galaxy.length > 0 THEN "HELLO" ELSE "WIREVER"

Dial ==
    /\ pc = "Dial"
    /\ LET n == normalize(given.peers, given.options)
       IN  \/ n.valid /\ opts' = n.options /\ pc' = "dial" /\ UNCHANGED result
           \/ ~n.valid /\ pc' = "failed" /\ result' = "input" /\ UNCHANGED opts
    /\ UNCHANGED <<given, dials, client, server, clock, step, err, wires,
                   refused>>

\* ensure connects, and negotiates TLS: ioError(ctx, ...) reports a failure.
Connect ==
    /\ pc = "dial"
    /\ dials' = dials + 1 /\ refused' = "none"
    /\ \/ ~DialDone /\ pc' = "send" /\ step' = FirstStep /\ UNCHANGED result
       \/ /\ pc' = "failed" /\ UNCHANGED step
          /\ \/ ctx = "done" /\ result' = "ctx"
             \/ ctx = "live" /\ result' \in {"timeout", "connection"}
    /\ UNCHANGED <<given, opts, client, server, clock, err, wires>>

\* handshake returns e, and the deferred w.close() runs.
Fails(e) == pc' = "error" /\ err' = e /\ CloseWire

\* exchange, up to the end of its frame.
Send ==
    /\ pc = "send"
    /\ \/ DialDone /\ Fails("dialctx")
       \/ ~DialDone /\ Length(step) > maxHeader /\ Fails("input")
       \/ /\ ~DialDone /\ Length(step) <= maxHeader
          /\ request' = [kind |-> step, sealed |-> key]
          /\ pc' = "await"
          /\ UNCHANGED <<err, key, session, reply>>
    /\ UNCHANGED <<call, clock, step, result, refused>>

\* exchange fails: a done context hides what has happened.
ExchangeFails ==
    /\ pc = "await"
    /\ \/ DialDone /\ Fails("dialctx")
       \/ ~DialDone /\ \E e \in {"timeout", "connection"} : Fails(e)
    /\ UNCHANGED <<call, clock, step, result, refused>>

\* MUTANT of NextStep: the galaxy is not chosen after a challenge.
NextStepHasty(s) ==
    CASE s = "AUTHCHAL" -> "AUTHRESP"
    []   s = "AUTH" /\ opts.Galaxy.length > 0 -> "HELLO"
    []   s \in {"AUTH", "AUTHRESP", "HELLO"} -> "WIREVER"
    []   OTHER -> "CODECMETA"

\* What handshake asks for after the answer to s.
NextStep(s) ==
    CASE s = "AUTHCHAL" -> "AUTHRESP"
    []   s \in {"AUTH", "AUTHRESP"} /\ opts.Galaxy.length > 0 -> "HELLO"
    []   s \in {"AUTH", "AUTHRESP"} /\ opts.Galaxy.length = 0 -> "WIREVER"
    []   s = "HELLO" -> "WIREVER"
    []   OTHER -> "CODECMETA"

\* expect, and the checks of handshake on what a reply carries: the version or
\* the metadata that was asked for.  On a sealed connection it is fill that
\* meets an ERR in the clear.
Verdict(r) ==
    IF r.kind = "ERR" /\ (r.sealed => key)
    THEN IF r.sealed = key /\ step # "CODECMETA"
         THEN "authentication" ELSE "server"
    ELSE IF r.kind # "OK" \/ r.sealed # key THEN "protocol"
    ELSE IF step \notin {"WIREVER", "CODECMETA"} \/ r.asked THEN "ok"
    ELSE IF step = "WIREVER" THEN "version" ELSE "protocol"

\* MUTANT of Derives: the key is there as soon as the challenge is.
DerivesEarly(s) == s = "AUTHCHAL"

\* The request after whose answer handshake derives the transport key.
Derives(s) == s = "AUTHRESP"

\* A reply is read; handshake goes on, returns its error, or has come to its
\* end, and ensure keeps the connection.
Receive ==
    /\ pc = "await" /\ reply # Nothing
    /\ \/ /\ Verdict(reply) # "ok"
          /\ Fails(Verdict(reply))
          /\ UNCHANGED <<step, result, client>>
       \/ /\ Verdict(reply) = "ok"
          /\ reply' = Nothing
          /\ key' = (key \/ Derives(step))
          /\ \/ /\ step # "CODECMETA"
                /\ pc' = "send" /\ step' = NextStep(step)
                /\ UNCHANGED <<result, client>>
             \/ /\ step = "CODECMETA"
                /\ pc' = "ready" /\ result' = "ok" /\ client' = TRUE
                /\ UNCHANGED step
          /\ UNCHANGED <<err, session, request>>
    /\ UNCHANGED <<given, opts, dials, server, clock, refused>>

\* MUTANT of Mapped: an error of dialctx is taken for one of the caller's.
MappedAlike == IF DialDone THEN "ctx" ELSE err

\* The caller is not told of dialctx.
Mapped ==
    IF ctx = "done" THEN "ctx" ELSE IF err = "dialctx" THEN "timeout" ELSE err

EnsureFails ==
    /\ pc = "error"
    /\ pc' = "failed" /\ result' = Mapped
    /\ UNCHANGED <<call, clock, step, err, wires, refused>>

\* A later operation of the client finds its connection dropped.
Redial ==
    /\ pc \in {"ready", "failed"} /\ client /\ dials < MaxDials
    /\ pc' = "dial" /\ ctx' = "live" /\ timer' = "ahead"
    /\ err' = "none" /\ result' = "none" /\ CloseWire
    /\ UNCHANGED <<call, step, refused>>

-----------------------------------------------------------------------------
(* The server, and time.                                                   *)

\* The session admits what comes after the login.
Admitted == server.login => session.user

Grants(s) ==
    CASE s = "AUTH"      -> server.credentials
    []   s = "AUTHCHAL"  -> TRUE
    []   s = "AUTHRESP"  -> session.challenge /\ server.credentials
    []   s = "HELLO"     -> Admitted /\ server.galaxy
    []   s = "WIREVER"   -> Admitted
    []   s = "CODECMETA" -> Admitted /\ server.codec # "ERR"

\* OK, CHAL or WIREVER; `asked` if it carries what the driver asks for.
Answer(s) ==
    [kind |-> "OK", sealed |-> session.key,
     asked |-> CASE s = "WIREVER"   -> server.version = 1
               []   s = "CODECMETA" -> server.codec = "codec-metadata"
               []   OTHER           -> TRUE]

Serve ==
    /\ request # Nothing /\ request.sealed = session.key
    /\ request' = Nothing
    /\ LET s == request.kind
       IN  \/ /\ Grants(s)
              /\ reply' = Answer(s)
              /\ session' =
                   [user      |-> session.user \/ s \in {"AUTH", "AUTHRESP"},
                    challenge |-> session.challenge \/ s = "AUTHCHAL",
                    key       |-> session.key \/ s = "AUTHRESP",
                    galaxy    |-> session.galaxy \/ s = "HELLO",
                    codec     |-> session.codec
                                  \/ (s = "CODECMETA" /\ Answer(s).asked)]
              /\ UNCHANGED refused
           \/ /\ ~Grants(s) \/ (s = "AUTHCHAL" /\ ~server.credentials)
              /\ reply' = [kind |-> "ERR", sealed |-> session.key,
                           asked |-> FALSE]
              /\ refused' = s
              /\ UNCHANGED session
    /\ UNCHANGED <<call, clock, pc, step, err, result, key>>

\* It says something else, as it does to a request that it cannot open.
Misbehave ==
    /\ request # Nothing
    /\ request' = Nothing
    /\ \/ /\ reply' \in [kind : {"malformed"}, sealed : BOOLEAN,
                         asked : {FALSE}]
          /\ UNCHANGED refused
       \/ /\ reply' = [kind |-> "ERR", sealed |-> FALSE, asked |-> FALSE]
          /\ refused' = request.kind
    /\ UNCHANGED <<call, clock, pc, step, err, result, key, session>>

Dialing == pc \notin {"Dial", "ready", "failed"}

Cancel ==
    /\ Dialing /\ ctx' = "done"
    /\ UNCHANGED <<call, timer, pc, step, err, result, wires, refused>>

ConnectTimeout ==
    /\ Dialing /\ timer' = "passed"
    /\ UNCHANGED <<call, ctx, pc, step, err, result, wires, refused>>

Driver ==
    Dial \/ Connect \/ Send \/ ExchangeFails \/ Receive \/ EnsureFails \/ Redial

Next == Driver \/ Serve \/ Misbehave \/ Cancel \/ ConnectTimeout

Spec == Init /\ [][Next]_vars

\* The driver's goroutine runs, and DialContext and the exchange end when
\* dialctx is done; not before, whatever the server does.
FairSpec ==
    /\ Spec
    /\ WF_vars(Dial \/ Send \/ EnsureFails)
    /\ WF_vars(DialDone /\ (Connect \/ ExchangeFails))
=============================================================================
