------------------------ MODULE HandshakeInvariants -------------------------
(***************************************************************************)
(* Properties of KoutenHandshake: what a connection and an error of Dial   *)
(* tell the caller.                                                        *)
(***************************************************************************)
EXTENDS KoutenHandshake

Errors == {"input", "authentication", "server", "protocol", "version",
           "timeout", "connection"}

\* The fields of the client, of its wire and of the session.
TypeOK ==
    /\ given \in Given /\ opts \in OptionsType /\ server \in Servers
    /\ ctx \in {"live", "done"} /\ timer \in {"ahead", "passed"}
    /\ pc \in {"Dial", "dial", "send", "await", "error", "ready", "failed"}
    /\ step \in Steps /\ refused \in Steps \cup {"none"}
    /\ key \in BOOLEAN /\ client \in BOOLEAN /\ dials \in Nat
    /\ err \in Errors \cup {"none", "dialctx"}
    /\ result \in Errors \cup {"none", "ok", "ctx"}
    /\ session \in [user : BOOLEAN, challenge : BOOLEAN, key : BOOLEAN,
                    galaxy : BOOLEAN, codec : BOOLEAN]
    /\ request = Nothing
       \/ request \in [kind : Steps, sealed : BOOLEAN]
    /\ reply = Nothing
       \/ reply \in [kind : Replies, sealed : BOOLEAN, asked : BOOLEAN]

\* Each side opens what the other has sealed: a request arrives in the form
\* that the session expects, and the two agree whenever the driver is about to
\* use the connection.  The key is for what follows the OK to AUTHRESP, which
\* is itself in the clear (wire.go:247-250).
KeysMatch ==
    /\ request # Nothing => request.sealed = session.key
    /\ reply # Nothing /\ reply.kind = "OK" => reply.sealed = key
    /\ pc \in {"send", "ready"} => key = session.key

\* No limit is left at zero, which would be no timeout, no frame and no
\* redirect at all; and normalize would not change its own result
\* (options.go:56-72).
OptionsSettled ==
    pc # "Dial" /\ result # "input" =>
        /\ \A t \in Timeouts : opts.timeout[t] \in 1..Hour
        /\ opts.MaxFrameBytes > 0 /\ opts.MaxRedirects > 0
        /\ normalize(given.peers, opts) = [valid |-> TRUE, options |-> opts]

\* A connection that Dial or a reconnect hands out is what the caller asked
\* for in any of the options, token and secret included: the server has
\* authenticated the user and chosen the galaxy, the connection is sealed if
\* there is a secret, and both sides speak wire version 1 with codec metadata;
\* and its limits are those of OptionsSettled (wire.go:224-272,
\* options.go:56-89).
ReadyMeansAgreed ==
    pc = "ready" =>
        /\ OptionsSettled
        /\ LET o == given.options
           IN  /\ \/ o.Username.length > 0 \/ o.Password.length > 0
                  \/ o.AuthToken.length > 0 \/ o.SecretKey > 0
                  => session.user
               /\ o.Galaxy.length > 0 => session.galaxy
               /\ o.SecretKey > 0 => session.key
               /\ server.version = 1 /\ session.codec

\* An error says what has happened: a refusal is one by the server, the
\* version is another one, and only the caller's own context is reported as a
\* context's error, never the one that ensure derives (client.go:118-126).
ErrorsTruthful ==
    /\ result = "authentication" => refused \in Steps \ {"CODECMETA"}
    /\ result = "server"  => refused # "none"
    /\ result = "version" => server.version # 1
    /\ result = "ctx"     => ctx = "done"

\* Options that normalize accepts never make a request that exchange refuses:
\* ErrInvalidInput is reported before there is a connection, or not at all
\* (options.go:77-89, wire.go:159).
InputErrorsFirst == "input" \in {err, result} => dials = 0

-----------------------------------------------------------------------------
(* The inductive invariant.                                                *)

Settled ==
    /\ Accepted(given.peers, given.options)
    /\ opts = normalized(given.options)

Open == pc \in {"send", "await", "ready"}

\* Who has what of the connection: the request or the reply to it, and keys.
Wired ==
    /\ ~Open => session = Fresh /\ ~key /\ request = Nothing /\ reply = Nothing
    /\ pc # "await" => request = Nothing /\ reply = Nothing /\ key = session.key
    /\ request # Nothing =>
          /\ reply = Nothing
          /\ request = [kind |-> step, sealed |-> key] /\ key = session.key
    /\ reply # Nothing /\ reply.kind = "OK" =>
          reply.sealed = key /\ session.key = (key \/ step = "AUTHRESP")
    /\ reply # Nothing /\ reply.kind = "ERR" => refused = step

\* What the server has done by the time the driver is at step s.
LoggedIn ==
    /\ opts.Username.length > 0 => session.user
    /\ opts.SecretKey > 0 => session.key
Reached(s) ==
    /\ s = "AUTH" => opts.SecretKey = 0
    /\ s \in {"HELLO", "WIREVER", "CODECMETA"} => LoggedIn
    /\ s \in {"WIREVER", "CODECMETA"} /\ opts.Galaxy.length > 0
           => session.galaxy
    /\ s = "CODECMETA" => server.version = 1

\* What an OK to s tells.
Answered(s, asked) ==
    /\ s \in {"AUTH", "AUTHRESP"} => session.user
    /\ s = "AUTHRESP" => session.key
    /\ s = "HELLO" => session.galaxy
    /\ s = "WIREVER"   => (asked <=> server.version = 1)
    /\ s = "CODECMETA" => (asked => session.codec)

Reports(e) ==
    /\ e = "authentication" => refused \in Steps \ {"CODECMETA"}
    /\ e = "server"  => refused # "none"
    /\ e = "version" => server.version # 1

HandshakeInv ==
    /\ TypeOK
    /\ pc = "Dial" => opts = given.options /\ dials = 0 /\ ~client
    /\ pc \in {"Dial", "dial", "send", "await"} => err = "none"
    /\ pc \notin {"ready", "failed"} => result = "none"
    /\ client => result # "input"
    /\ err # "input" /\ (result = "input" => dials = 0)
    /\ pc # "Dial" /\ result # "input" => Settled
    /\ Wired
    /\ pc \in {"send", "await"} => Reached(step)
    /\ reply # Nothing /\ reply.kind = "OK" => Answered(step, reply.asked)
    /\ pc = "ready" => client /\ Reached("CODECMETA") /\ session.codec
    /\ Reports(err) /\ Reports(result)
    /\ result = "ctx" => ctx = "done"

-----------------------------------------------------------------------------
\* Once the context is done or ConnectTimeout has passed, Dial or the operation
\* that connects returns, however long ReadTimeout is and whatever the server
\* does (under FairSpec; client.go:93-118).
DialEndsInTime ==
    (Dialing /\ (ctx = "done" \/ timer = "passed")) ~> ~Dialing
=============================================================================
